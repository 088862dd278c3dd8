------------------------- MODULE ChunkPipelineProofs -------------------------
(***************************************************************************)
(* Theorems about ChunkPipeline, for every set of slots and goroutines and *)
(* every bound.                                                            *)
(***************************************************************************)
EXTENDS ChunkPipeline, SequenceTheorems, TLAPS

-----------------------------------------------------------------------------
(* The helpers are closed on their types *)

\* The empty chunk and the empty slot of pending/ are well typed.
LEMMA EmptyType == Empty \in Content /\ NoFiles \in Files
  BY DEF Empty, NoFiles, Content, Files

\* Staging a chunk leaves a slot of pending/ well typed.
LEMMA PersistPendingType ==
  ASSUME NEW s \in Files, NEW c \in Content
  PROVE  PersistPending(s, c) \in Files
  BY DEF PersistPending, Files

\* So does removing a staged file.
LEMMA DeletePendingType ==
  ASSUME NEW s \in Files, NEW n
  PROVE  DeletePending(s, n) \in Files
  BY EmptyType DEF DeletePending, Files

\* Reading a staged file returns a chunk, possibly the empty one.
LEMMA FileAtType ==
  ASSUME NEW s \in Files, NEW n
  PROVE  FileAt(s, n) \in Content
  BY EmptyType DEF FileAt, Files

\* The slot an idle goroutine is parked on is a slot of the file.
LEMMA HomeSlotType == HomeSlot \in Idx
  BY PipelineAssumption DEF HomeSlot

\* What uploadOne and recoverPending submit to the packer is a wire.
LEMMA WireType ==
  ASSUME NEW i \in Idx, NEW c \in Content, NEW j \in Jobs \cup {NoJob}
  PROVE  WireOf(i, c, j) \in Wires
  BY DEF WireOf, Wires

\* The buffer loadForWrite hands to WriteAt is a chunk.
LEMMA LoadForWriteType ==
  ASSUME TypeOK, NEW i \in Idx
  PROVE  LoadForWrite(i) \in Content
  BY DEF LoadForWrite, TypeOK

\* Moving one goroutine on keeps the labels well typed.
LEMMA GotoType ==
  ASSUME TypeOK, NEW j \in Jobs, NEW l \in Labels, Goto(j, l)
  PROVE  pc' \in [Jobs -> Labels]
  BY DEF Goto, TypeOK

\* So does answering a set of waiting goroutines.
LEMMA AnswerType ==
  ASSUME TypeOK, NEW S, NEW l \in Labels, Answer(S, l)
  PROVE  pc' \in [Jobs -> Labels]
  BY DEF Answer, TypeOK

-----------------------------------------------------------------------------
(* Type correctness *)

\* The initial state is well typed.
LEMMA InitType == Init => TypeOK
  <1> SUFFICES ASSUME Init PROVE TypeOK
    OBVIOUS
  <1>1. /\ packQ \in Seq(Wires) /\ taken \in 0..Len(packQ)
        /\ packPc \in {"idle", "upload", "put", "unstage"}
        /\ packPc # "idle" => taken # 0
    BY DEF Init
  <1>2. /\ since \in 0..MaxWrites /\ writes \in 0..MaxWrites
        /\ crashes \in 0..MaxCrashes
    BY PipelineAssumption DEF Init
  <1>3. pc \in [Jobs -> Labels] /\ slot \in [Jobs -> Idx]
    BY HomeSlotType DEF Init, Labels
  <1>4. index \in [Idx -> 0..2] /\ recTodo \in [Idx -> 0..2]
    BY DEF Init
  <1> QED
    BY <1>1, <1>2, <1>3, <1>4, EmptyType DEF Init, TypeOK

\* dispatchFlushLocked keeps what it touches well typed.
LEMMA DispatchType ==
  ASSUME TypeOK, NEW i \in Idx, Dispatch(i)
  PROVE  /\ dirty' \in [Idx -> Content] /\ uploading' \subseteq Idx
         /\ pc' \in [Jobs -> Labels] /\ slot' \in [Jobs -> Idx]
         /\ data' \in [Jobs -> Content] /\ sem' \subseteq Jobs
  BY EmptyType DEF Dispatch, TypeOK, Labels

\* Requests on the handle preserve the type invariant.
LEMMA HandleType == TypeOK /\ HandleStep => TypeOK'
  <1> SUFFICES ASSUME TypeOK, HandleStep PROVE TypeOK'
    OBVIOUS
  <1> USE DEF handleVars, jobVars, packVars, diskVars, recVars, histVars, bounds
  <1>1. CASE NewWriter
    BY <1>1 DEF NewWriter, TypeOK
  <1>2. CASE EvictDone
    BY <1>2 DEF EvictDone, TypeOK
  <1>3. CASE GateCanceled
    BY <1>3 DEF GateCanceled, TypeOK
  <1>4. CASE FlushBegin \/ SyncBegin
    BY <1>4 DEF FlushBegin, SyncBegin, Begin, DirtySlots, TypeOK
  <1>5. CASE FlushEnd
    BY <1>5 DEF FlushEnd, TypeOK
  <1>6. CASE SyncEnd
    BY <1>6 DEF SyncEnd, Mine, TypeOK
  <1>7. CASE Close
    BY <1>7, EmptyType DEF Close, TypeOK
  <1>8. CASE \E i \in Idx : EvictOne(i)
    BY <1>8, DispatchType DEF EvictOne, TypeOK
  <1>9. CASE \E i \in Idx : DispatchNext(i)
    BY <1>9, DispatchType DEF DispatchNext, TypeOK
  <1>10. CASE \E i \in Idx, n \in SizeClass : WriteAt(i, n)
    <2>1. PICK i \in Idx, n \in SizeClass : WriteAt(i, n)
      BY <1>10
    <2> DEFINE base == LoadForWrite(i)
    <2>2. base \in Content
      BY LoadForWriteType
    <2>3. /\ writes + 1 \in Writes
          /\ writes' = writes + 1
      BY <2>1, PipelineAssumption DEF WriteAt, TypeOK, Writes
    <2>4. [ids |-> base.ids \cup {writes + 1}, n |-> Larger(base.n, n)]
             \in Content
      BY <2>2, <2>3 DEF Content, Larger, SizeClass
    <2>5. dirty' \in [Idx -> Content]
      BY <2>1, <2>4 DEF WriteAt, TypeOK
    <2>6. expect' \in [Idx -> SUBSET Writes]
      BY <2>1, <2>3 DEF WriteAt, TypeOK
    <2>7. writes' \in 0..MaxWrites
      BY <2>1, PipelineAssumption DEF WriteAt, TypeOK
    <2> QED
      BY <2>1, <2>5, <2>6, <2>7 DEF WriteAt, TypeOK
  <1>11. CASE \E i \in Idx : \E k \in Idx : Overwrite(i, row[k])
    <2>1. PICK i \in Idx, k \in Idx : Overwrite(i, row[k])
      BY <1>11
    <2>2. row[k] \in Content /\ row[k].ids \in SUBSET Writes
      BY DEF TypeOK, Content
    <2>3. writes' \in 0..MaxWrites
      BY <2>1, PipelineAssumption DEF Overwrite, TypeOK
    <2> QED
      BY <2>1, <2>2, <2>3 DEF Overwrite, TypeOK
  <1>12. CASE \E k \in {0} \cup {i + 1 : i \in Idx} : Truncate(k)
    BY <1>12, EmptyType DEF Truncate, TypeOK
  <1> QED
    BY <1>1, <1>2, <1>3, <1>4, <1>5, <1>6, <1>7, <1>8, <1>9, <1>10, <1>11,
       <1>12 DEF HandleStep

\* Every step of uploadOne preserves the type invariant.
LEMMA JobType ==
  ASSUME TypeOK, NEW j \in Jobs, JobStep(j)
  PROVE  TypeOK'
  <1> USE DEF handleVars, jobVars, packVars, diskVars, recVars, histVars, bounds
  <1> DEFINE i == slot[j]
  <1>0. i \in Idx /\ data[j] \in Content /\ data[j].n \in 0..2
    BY DEF TypeOK, Content
  <1>d. /\ DeletePending(staged[i], data[j].n) \in Files
        /\ DeletePending(staged[i], index[i]) \in Files
        /\ PersistPending(staged[i], data[j]) \in Files
    BY <1>0, DeletePendingType, PersistPendingType DEF TypeOK
  <1>1. CASE JobDedup(j)
    <2>1. pc' \in [Jobs -> Labels]
      BY <1>1 DEF JobDedup, Goto, TypeOK, Labels
    <2>2. row' \in [Idx -> Content] /\ shared' \subseteq Idx
      BY <1>0, <1>1 DEF JobDedup, ReuseChunkByHash, TypeOK
    <2> QED
      BY <1>1, <2>1, <2>2 DEF JobDedup, TypeOK
  <1>2. CASE JobStage(j)
    <2>1. pc' \in [Jobs -> Labels]
      BY <1>2 DEF JobStage, Goto, TypeOK, Labels
    <2>2. \/ UNCHANGED staged
          \/ staged' = [staged EXCEPT ![i] = PersistPending(@, data[j])]
      BY <1>2 DEF JobStage
    <2>3. staged' \in [Idx -> Files]
      BY <1>0, <1>d, <2>2 DEF TypeOK
    <2> QED
      BY <1>2, <2>1, <2>3 DEF JobStage, TypeOK
  <1>3. CASE JobRecord(j)
    <2>1. staged' \in [Idx -> Files]
      BY <1>0, <1>d, <1>3 DEF JobRecord, TypeOK
    <2>2. index' \in [Idx -> 0..2]
      BY <1>0, <1>3 DEF JobRecord, TypeOK
    <2>3. pc' \in [Jobs -> Labels]
      BY <1>3 DEF JobRecord, Goto, TypeOK, Labels
    <2>4. packQ' \in Seq(Wires) /\ taken' \in 0..Len(packQ')
      <3>1. CASE packQ' = Append(packQ, WireOf(i, data[j], j))
        <4>1. WireOf(i, data[j], j) \in Wires
          BY <1>0, WireType
        <4>2. packQ' \in Seq(Wires) /\ Len(packQ') = Len(packQ) + 1
          BY <3>1, <4>1, AppendProperties DEF TypeOK
        <4> QED
          BY <4>2, <1>3 DEF JobRecord, TypeOK
      <3>2. CASE UNCHANGED packQ
        BY <3>2, <1>3 DEF JobRecord, TypeOK
      <3> QED
        BY <1>3, <3>1, <3>2 DEF JobRecord
    <2> QED
      BY <1>3, <2>1, <2>2, <2>3, <2>4 DEF JobRecord, TypeOK
  <1>4. CASE JobAcquireSem(j)
    <2>1. pc' \in [Jobs -> Labels] /\ sem' \subseteq Jobs
      BY <1>4 DEF JobAcquireSem, Goto, TypeOK, Labels
    <2> QED
      BY <1>4, <2>1 DEF JobAcquireSem, TypeOK
  <1>5. CASE JobUpload(j)
    <2>1. pc' \in [Jobs -> Labels]
      BY <1>5 DEF JobUpload, Goto, TypeOK, Labels
    <2> QED
      BY <1>5, <2>1 DEF JobUpload, TypeOK
  <1>6. CASE JobPutChunk(j)
    <2>1. pc' \in [Jobs -> Labels]
      BY <1>6 DEF JobPutChunk, Goto, TypeOK, Labels
    <2>2. row' \in [Idx -> Content] /\ shared' \subseteq Idx
      BY <1>0, <1>6 DEF JobPutChunk, PutRow, TypeOK
    <2>3. staged' \in [Idx -> Files]
      <3>1. \/ UNCHANGED staged
            \/ staged' = [staged EXCEPT ![i] = DeletePending(@, data[j].n)]
        BY <1>6 DEF JobPutChunk
      <3> QED
        BY <1>0, <1>d, <3>1 DEF TypeOK
    <2>4. index' \in [Idx -> 0..2]
      BY <1>0, <1>6 DEF JobPutChunk, TypeOK
    <2> QED
      BY <1>6, <2>1, <2>2, <2>3, <2>4 DEF JobPutChunk, TypeOK
  <1>7. CASE JobUnstage(j)
    <2>1. pc' \in [Jobs -> Labels]
      BY <1>7 DEF JobUnstage, Goto, TypeOK, Labels
    <2>2. staged' = [staged EXCEPT ![i] = DeletePending(@, data[j].n)]
      BY <1>7 DEF JobUnstage
    <2>3. staged' \in [Idx -> Files]
      BY <1>0, <1>d, <2>2 DEF TypeOK
    <2>4. index' \in [Idx -> 0..2]
      BY <1>0, <1>7 DEF JobUnstage, TypeOK
    <2> QED
      BY <1>7, <2>1, <2>3, <2>4 DEF JobUnstage, TypeOK
  <1>8. CASE JobRecordBlob(j)
    <2>1. shared' \subseteq Idx
      BY <1>0, <1>8 DEF JobRecordBlob, RecordChunkBlob, TypeOK
    <2>2. pc' \in [Jobs -> Labels]
      BY <1>8 DEF JobRecordBlob, Goto, TypeOK, Labels
    <2> QED
      BY <1>8, <2>1, <2>2 DEF JobRecordBlob, TypeOK
  <1>9. CASE JobRestore(j)
    <2>1. pc' \in [Jobs -> Labels]
      BY <1>9 DEF JobRestore, Goto, TypeOK, Labels
    <2>2. dirty' \in [Idx -> Content]
      BY <1>0, <1>9 DEF JobRestore, TypeOK
    <2> QED
      BY <1>9, <2>1, <2>2 DEF JobRestore, TypeOK
  <1>10. CASE JobExit(j)
    <2>1. pc' \in [Jobs -> Labels]
      BY <1>10 DEF JobExit, Goto, TypeOK, Labels
    <2>2. slot' \in [Jobs -> Idx] /\ data' \in [Jobs -> Content]
      BY <1>10, HomeSlotType, EmptyType DEF JobExit, TypeOK
    <2>3. uploading' \subseteq Idx /\ sem' \subseteq Jobs
      BY <1>10 DEF JobExit, TypeOK
    <2> QED
      BY <1>10, <2>1, <2>2, <2>3 DEF JobExit, TypeOK
  <1> QED
    BY <1>1, <1>2, <1>3, <1>4, <1>5, <1>6, <1>7, <1>8, <1>9, <1>10
    DEF JobStep

\* While a flush is in progress the wire it works on exists.
LEMMA PackQueueNonEmpty ==
  ASSUME TypeOK, packPc # "idle"
  PROVE  /\ packQ # <<>> /\ Len(packQ) \in Nat \ {0}
         /\ Head(packQ) \in Wires /\ Head(packQ) = packQ[1]
         /\ Tail(packQ) \in Seq(Wires) /\ Len(Tail(packQ)) = Len(packQ) - 1
         /\ taken \in 1..Len(packQ)
  <1>1. packQ \in Seq(Wires) /\ taken \in 0..Len(packQ) /\ taken # 0
    BY DEF TypeOK
  <1>2. Len(packQ) \in Nat
    BY <1>1, LenProperties
  <1>3. Len(packQ) # 0 /\ taken \in 1..Len(packQ)
    BY <1>1, <1>2
  <1>4. packQ # <<>>
    BY <1>1, <1>3, EmptySeq
  <1> QED
    BY <1>1, <1>2, <1>3, <1>4, HeadTailProperties

\* The flusher's steps preserve the type invariant.
LEMMA PackType == TypeOK /\ PackStep => TypeOK'
  <1> SUFFICES ASSUME TypeOK, PackStep PROVE TypeOK'
    OBVIOUS
  <1> USE DEF handleVars, jobVars, packVars, diskVars, recVars, histVars, bounds
  <1>0. packQ \in Seq(Wires) /\ Len(packQ) \in Nat /\ taken \in 0..Len(packQ)
    BY LenProperties DEF TypeOK
  <1>1. CASE PackTake
    BY <1>0, <1>1 DEF PackTake, TypeOK
  <1>p. ASSUME packPc # "idle", NEW l \in Labels, PackPop(l)
        PROVE  /\ pc' \in [Jobs -> Labels]
               /\ packQ' \in Seq(Wires) /\ taken' \in 0..Len(packQ')
               /\ packPc' \in {"idle", "put"}
               /\ packPc' # "idle" => taken' # 0
    BY <1>0, <1>p, PackQueueNonEmpty, AnswerType DEF PackPop
  <1>2. CASE PackUpload
    <2>1. CASE packPc' = "put" /\ UNCHANGED <<packQ, taken, pc>>
      BY <1>2, <2>1 DEF PackUpload, TypeOK
    <2>2. CASE /\ packPc' = "idle" /\ Answer(1..taken, "fail")
               /\ packQ' = SubSeq(packQ, taken + 1, Len(packQ)) /\ taken' = 0
      <3>1. packQ' \in Seq(Wires) /\ taken' \in 0..Len(packQ')
        BY <1>0, <2>2, SubSeqProperties, LenProperties
      <3>2. pc' \in [Jobs -> Labels]
        BY <2>2, AnswerType DEF Labels
      <3> QED
        BY <1>2, <2>2, <3>1, <3>2 DEF PackUpload, TypeOK
    <2> QED
      BY <1>2, <2>1, <2>2 DEF PackUpload
  <1>3. CASE PackPutFails
    <2>1. "fail" \in Labels
      BY DEF Labels
    <2> QED
      BY <1>3, <1>p, <2>1 DEF PackPutFails, TypeOK
  <1>4. CASE PackPut
    <2>1. Head(packQ).idx \in Idx /\ Head(packQ).c \in Content
      BY <1>4, PackQueueNonEmpty DEF PackPut, Wires
    <2> QED
      BY <1>4, <2>1 DEF PackPut, PutRow, TypeOK
  <1>5. CASE PackUnstage
    <2> DEFINE w == Head(packQ)
    <2>1. packPc # "idle" /\ "exit" \in Labels
      BY <1>5 DEF PackUnstage, Labels
    <2>2. w.idx \in Idx /\ w.c \in Content
      BY <2>1, PackQueueNonEmpty DEF Wires
    <2>3. DeletePending(staged[w.idx], w.c.n) \in Files
      BY <2>2, DeletePendingType DEF TypeOK
    <2>4. staged' \in [Idx -> Files] /\ index' \in [Idx -> 0..2]
      BY <1>5, <2>2, <2>3 DEF PackUnstage, TypeOK
    <2> QED
      BY <1>5, <1>p, <2>1, <2>4 DEF PackUnstage, TypeOK
  <1> QED
    BY <1>1, <1>2, <1>3, <1>4, <1>5 DEF PackStep

\* Unlink, crash, mount and recoverPending preserve the type invariant.
LEMMA MountType == TypeOK /\ MountStep => TypeOK'
  <1> SUFFICES ASSUME TypeOK, MountStep PROVE TypeOK'
    OBVIOUS
  <1> USE DEF handleVars, jobVars, packVars, diskVars, recVars, histVars, bounds
  <1>0. packQ \in Seq(Wires) /\ Len(packQ) \in Nat /\ taken \in 0..Len(packQ)
    BY LenProperties DEF TypeOK
  <1>1. CASE Unlink
    BY <1>1, EmptyType DEF Unlink, TypeOK
  <1>2. CASE DropInode
    <2>1. packQ' \in Seq(Wires) /\ taken' \in 0..Len(packQ')
      BY <1>0, <1>2, SubSeqProperties DEF DropInode
    <2>2. pc' \in [Jobs -> Labels]
      BY <1>2, AnswerType DEF DropInode, Labels
    <2>3. staged' \in [Idx -> Files]
      BY <1>2, DeletePendingType DEF DropInode, TypeOK
    <2>4. index' \in [Idx -> 0..2]
      BY <1>2 DEF DropInode
    <2> QED
      BY <1>2, <2>1, <2>2, <2>3, <2>4 DEF DropInode, TypeOK
  <1>3. CASE Crash
    <2>1. packQ' \in Seq(Wires) /\ taken' \in 0..Len(packQ')
      BY <1>3 DEF Crash
    <2>2. crashes' \in 0..MaxCrashes
      BY <1>3, PipelineAssumption DEF Crash, TypeOK
    <2>3. pc' \in [Jobs -> Labels]
      BY <1>3 DEF Crash, Labels
    <2>4. index' \in [Idx -> 0..2] /\ recTodo' \in [Idx -> 0..2]
      BY <1>3 DEF Crash
    <2> QED
      BY <1>3, <2>1, <2>2, <2>3, <2>4, HomeSlotType, EmptyType
      DEF Crash, TypeOK
  <1>4. CASE Mount
    BY <1>4 DEF Mount, TypeOK
  <1>5. CASE RecoverScan
    <2>1. \A i \in Idx : /\ staged[i].cur \in Content
                        /\ staged[i].cur.n \in 0..2
      BY DEF TypeOK, Files, Content
    <2>2. staged' \in [Idx -> Files]
      BY <1>5, <2>1, EmptyType DEF RecoverScan, Files
    <2>3. recTodo' \in [Idx -> 0..2]
      BY <1>5, <2>1 DEF RecoverScan
    <2> QED
      BY <1>5, <2>2, <2>3 DEF RecoverScan, TypeOK
  <1>6. CASE \E i \in Idx : RecoverSubmit(i)
    <2>1. PICK i \in Idx : RecoverSubmit(i)
      BY <1>6
    <2> DEFINE wire == FileAt(staged[i], recTodo[i])
    <2>2. WireOf(i, wire, NoJob) \in Wires
      BY FileAtType, WireType DEF TypeOK
    <2>3. packQ' \in Seq(Wires) /\ taken' \in 0..Len(packQ')
      BY <1>0, <2>1, <2>2, AppendProperties DEF RecoverSubmit
    <2>4. index' \in [Idx -> 0..2] /\ recTodo' \in [Idx -> 0..2]
      BY <2>1 DEF RecoverSubmit, TypeOK
    <2> QED
      BY <2>1, <2>3, <2>4 DEF RecoverSubmit, TypeOK
  <1> QED
    BY <1>1, <1>2, <1>3, <1>4, <1>5, <1>6 DEF MountStep

\* Stuttering preserves the type invariant.
LEMMA StutterType == TypeOK /\ UNCHANGED vars => TypeOK'
  BY DEF TypeOK, vars, handleVars, jobVars, packVars, diskVars, recVars,
         histVars, bounds

\* Type correctness: whatever the handle, the upload goroutines, the flusher,
\* a crash and recoverPending do, every variable stays in its type.
THEOREM TypeCorrect == Spec => []TypeOK
  <1>1. TypeOK /\ [Next]_vars => TypeOK'
    BY HandleType, JobType, PackType, MountType, StutterType DEF Next
  <1> QED
    BY InitType, <1>1, PTL DEF Spec

-----------------------------------------------------------------------------
(* One upload per slot.  The strengthening: the slot of a goroutine stays    *)
(* marked until the goroutine is gone; a slot is dirty again only once its   *)
(* upload has failed and is on its way out; and a wire in the packer belongs *)
(* to exactly one waiting goroutine.                                         *)

Running(j) == pc[j] # "none"

OneJobPerSlot ==
    \A j, k \in Jobs : Running(j) /\ Running(k) /\ slot[j] = slot[k] => j = k
RunningTracked == open => \A j \in Jobs : Running(j) => slot[j] \in uploading
DirtyIsIdle ==
    \A i \in Idx : dirty[i] # Empty =>
        /\ open
        /\ \A j \in Jobs : Running(j) /\ slot[j] = i => pc[j] = "exit"
WaitersWait ==
    \A m \in 1..Len(packQ) :
        packQ[m].job \in Jobs => pc[packQ[m].job] = "packwait"
WaitersDistinct ==
    \A m, n \in 1..Len(packQ) :
        packQ[m].job = packQ[n].job /\ packQ[m].job \in Jobs => m = n

\* The inductive invariant behind OneUploadPerSlot.
Exclusive == /\ OneJobPerSlot /\ RunningTracked /\ DirtyIsIdle
             /\ WaitersWait /\ WaitersDistinct

\* Moving on a running goroutine that does not wait for the packer preserves
\* Exclusive.
LEMMA ExclusiveGoto ==
  ASSUME TypeOK, Exclusive, NEW j \in Jobs, NEW l, l # "none", Goto(j, l),
         pc[j] \notin {"none", "packwait", "exit"},
         UNCHANGED <<open, dirty, uploading, slot, packQ>>
  PROVE  Exclusive'
  <1>1. pc' = [pc EXCEPT ![j] = l] /\ pc \in [Jobs -> Labels]
        /\ slot \in [Jobs -> Idx]
    BY DEF Goto, TypeOK
  <1>2. OneJobPerSlot'
    BY <1>1 DEF Exclusive, OneJobPerSlot, Running
  <1>3. RunningTracked'
    BY <1>1 DEF Exclusive, RunningTracked, Running
  <1>4. DirtyIsIdle'
    BY <1>1 DEF Exclusive, DirtyIsIdle, Running
  <1>5. WaitersWait' /\ WaitersDistinct'
    BY <1>1 DEF Exclusive, WaitersWait, WaitersDistinct
  <1> QED
    BY <1>2, <1>3, <1>4, <1>5 DEF Exclusive

\* Exclusive depends on these variables only.
LEMMA ExclusiveFrame ==
  ASSUME Exclusive, UNCHANGED <<open, dirty, uploading, pc, slot, packQ>>
  PROVE  Exclusive'
  BY DEF Exclusive, OneJobPerSlot, RunningTracked, DirtyIsIdle, WaitersWait,
         WaitersDistinct, Running

\* dispatchFlushLocked preserves Exclusive.
LEMMA ExclusiveDispatch ==
  ASSUME TypeOK, Exclusive, NEW i \in Idx, ~InExitWindow(i), Dispatch(i),
         UNCHANGED <<open, packQ>>
  PROVE  Exclusive'
  <1>1. PICK j \in Jobs : /\ pc[j] = "none"
                          /\ pc' = [pc EXCEPT ![j] = "start"]
                          /\ slot' = [slot EXCEPT ![j] = i]
    BY DEF Dispatch
  <1>2. /\ dirty[i] # Empty /\ dirty' = [dirty EXCEPT ![i] = Empty]
        /\ uploading' = uploading \cup {i}
        /\ \A k \in Jobs : ~(pc[k] = "exit" /\ slot[k] = i)
    BY DEF Dispatch, InExitWindow
  <1>3. \A k \in Jobs : Running(k) => slot[k] # i
    BY <1>2 DEF Exclusive, DirtyIsIdle, Running
  <1>4. /\ pc \in [Jobs -> Labels] /\ slot \in [Jobs -> Idx]
        /\ dirty \in [Idx -> Content]
    BY DEF TypeOK
  <1>5. OneJobPerSlot'
    BY <1>1, <1>3, <1>4 DEF Exclusive, OneJobPerSlot, Running
  <1>6. RunningTracked'
    BY <1>1, <1>2, <1>4 DEF Exclusive, RunningTracked, Running
  <1>7. DirtyIsIdle'
    BY <1>1, <1>2, <1>4 DEF Exclusive, DirtyIsIdle, Running
  <1>8. WaitersWait' /\ WaitersDistinct'
    BY <1>1, <1>4 DEF Exclusive, WaitersWait, WaitersDistinct
  <1> QED
    BY <1>5, <1>6, <1>7, <1>8 DEF Exclusive

\* Requests on the handle preserve Exclusive.
LEMMA ExclusiveHandle ==
  ASSUME TypeOK, Exclusive, "exitWindow" \notin Allow, HandleStep
  PROVE  Exclusive'
  <1> USE DEF handleVars, jobVars, packVars, diskVars, recVars, histVars, bounds
  <1>t. /\ pc \in [Jobs -> Labels] /\ slot \in [Jobs -> Idx]
        /\ dirty \in [Idx -> Content]
    BY DEF TypeOK
  <1>1. CASE NewWriter
    BY <1>1 DEF NewWriter, Exclusive, OneJobPerSlot, RunningTracked,
                DirtyIsIdle, WaitersWait, WaitersDistinct, Running
  <1>2. CASE EvictDone \/ GateCanceled \/ FlushBegin \/ SyncBegin
             \/ FlushEnd \/ SyncEnd
    BY <1>2, ExclusiveFrame DEF EvictDone, GateCanceled, FlushBegin, SyncBegin,
                                Begin, FlushEnd, SyncEnd
  <1>3. CASE Close
    <2>1. DirtyIsIdle'
      BY <1>3 DEF Close, DirtyIsIdle
    <2> QED
      BY <1>3, <2>1 DEF Close, Exclusive, OneJobPerSlot, RunningTracked,
                        WaitersWait, WaitersDistinct, Running
  <1>4. CASE \E i \in Idx : ~InExitWindow(i) /\ EvictOne(i)
    BY <1>4, ExclusiveDispatch DEF EvictOne
  <1>5. CASE \E i \in Idx : ~InExitWindow(i) /\ DispatchNext(i)
    BY <1>5, ExclusiveDispatch, ExclusiveFrame DEF DispatchNext
  <1>6. ASSUME NEW i \in Idx, NEW c, Loadable(i), open,
               dirty' = [dirty EXCEPT ![i] = c],
               UNCHANGED <<open, uploading, pc, slot, packQ>>
        PROVE  Exclusive'
    <2>1. DirtyIsIdle'
      <3>1. \A j \in Jobs : Running(j) /\ slot[j] = i => pc[j] = "exit"
        BY <1>6 DEF Loadable, Exclusive, DirtyIsIdle, RunningTracked
      <3> QED
        BY <1>6, <1>t, <3>1 DEF Exclusive, DirtyIsIdle, Running
    <2> QED
      BY <1>6, <2>1 DEF Exclusive, OneJobPerSlot, RunningTracked, WaitersWait,
                        WaitersDistinct, Running
  <1>7. CASE \E i \in Idx : \E n \in SizeClass : WriteAt(i, n)
    BY <1>6, <1>7 DEF WriteAt
  <1>8. CASE \E i \in Idx : \E k \in Idx : Overwrite(i, row[k])
    BY <1>6, <1>8 DEF Overwrite
  <1>9. CASE \E k \in {0} \cup {i + 1 : i \in Idx} : Truncate(k)
    <2>1. PICK k : Truncate(k)
      BY <1>9
    <2>2. DirtyIsIdle'
      BY <2>1, <1>t DEF Truncate, Exclusive, DirtyIsIdle, Running
    <2> QED
      BY <2>1, <2>2 DEF Truncate, Exclusive, OneJobPerSlot, RunningTracked,
                        WaitersWait, WaitersDistinct, Running
  <1> QED
    BY <1>1, <1>2, <1>3, <1>4, <1>5, <1>7, <1>8, <1>9 DEF HandleStep

\* Every step of uploadOne preserves Exclusive.
LEMMA ExclusiveJob ==
  ASSUME TypeOK, Exclusive, NEW j \in Jobs, JobStep(j)
  PROVE  Exclusive'
  <1> USE DEF handleVars, jobVars, packVars, diskVars, recVars, histVars, bounds
  <1>t. /\ pc \in [Jobs -> Labels] /\ slot \in [Jobs -> Idx]
        /\ dirty \in [Idx -> Content] /\ packQ \in Seq(Wires)
    BY DEF TypeOK
  <1>1. CASE JobDedup(j) \/ JobStage(j)
    BY <1>1, ExclusiveGoto DEF JobDedup, JobStage
  <1>2. CASE JobRecord(j) /\ UNCHANGED packQ
    BY <1>2, ExclusiveGoto DEF JobRecord
  <1>3. CASE JobRecord(j) /\ ~UNCHANGED packQ
    <2> DEFINE w == WireOf(slot[j], data[j], j)
    <2>1. /\ packQ' = Append(packQ, w) /\ pc[j] = "record"
          /\ pc' = [pc EXCEPT ![j] = "packwait"] /\ w.job = j
          /\ UNCHANGED <<open, dirty, uploading, slot>>
      BY <1>3 DEF JobRecord, Goto, WireOf
    <2>2. OneJobPerSlot' /\ RunningTracked' /\ DirtyIsIdle'
      BY <1>t, <2>1 DEF Exclusive, OneJobPerSlot, RunningTracked, DirtyIsIdle,
                        Running
    <2>3. /\ Len(packQ') = Len(packQ) + 1 /\ Len(packQ) \in Nat
          /\ \A m \in 1..Len(packQ) : packQ'[m] = packQ[m]
          /\ packQ'[Len(packQ) + 1] = w
      <3>1. w \in Wires
        BY <1>t, WireType DEF TypeOK
      <3> QED
        BY <1>t, <2>1, <3>1, AppendProperties, LenProperties
    <2>4. \A m \in 1..Len(packQ) : packQ[m].job # j
      BY <2>1 DEF Exclusive, WaitersWait
    <2>5. WaitersWait'
      BY <1>t, <2>1, <2>3, <2>4 DEF Exclusive, WaitersWait
    <2>6. WaitersDistinct'
      BY <2>1, <2>3, <2>4 DEF Exclusive, WaitersDistinct
    <2> QED
      BY <2>2, <2>5, <2>6 DEF Exclusive
  <1>4. CASE JobAcquireSem(j) \/ JobUpload(j) \/ JobPutChunk(j)
    BY <1>4, ExclusiveGoto DEF JobAcquireSem, JobUpload, JobPutChunk
  <1>5. CASE JobUnstage(j) \/ JobRecordBlob(j)
    BY <1>5, ExclusiveGoto DEF JobUnstage, JobRecordBlob
  <1>6. CASE JobRestore(j)
    <2>1. /\ pc[j] = "fail" /\ pc' = [pc EXCEPT ![j] = "exit"]
          /\ UNCHANGED <<open, uploading, slot, packQ>>
          /\ \/ UNCHANGED dirty
             \/ open /\ dirty' = [dirty EXCEPT ![slot[j]] = data[j]]
      BY <1>6 DEF JobRestore, Goto
    <2>2. OneJobPerSlot' /\ RunningTracked'
      BY <1>t, <2>1 DEF Exclusive, OneJobPerSlot, RunningTracked, Running
    <2>3. DirtyIsIdle'
      BY <1>t, <2>1 DEF Exclusive, DirtyIsIdle, OneJobPerSlot, Running
    <2>4. WaitersWait' /\ WaitersDistinct'
      BY <1>t, <2>1 DEF Exclusive, WaitersWait, WaitersDistinct
    <2> QED
      BY <2>2, <2>3, <2>4 DEF Exclusive
  <1>7. CASE JobExit(j)
    <2>1. /\ pc[j] = "exit" /\ pc' = [pc EXCEPT ![j] = "none"]
          /\ slot' = [slot EXCEPT ![j] = HomeSlot]
          /\ uploading' = uploading \ {slot[j]}
          /\ UNCHANGED <<open, dirty, packQ>>
      BY <1>7 DEF JobExit, Goto
    <2>2. OneJobPerSlot'
      BY <1>t, <2>1 DEF Exclusive, OneJobPerSlot, Running
    <2>3. RunningTracked'
      BY <1>t, <2>1 DEF Exclusive, OneJobPerSlot, RunningTracked, Running
    <2>4. DirtyIsIdle'
      BY <1>t, <2>1 DEF Exclusive, DirtyIsIdle, Running
    <2>5. WaitersWait' /\ WaitersDistinct'
      BY <1>t, <2>1 DEF Exclusive, WaitersWait, WaitersDistinct
    <2> QED
      BY <2>2, <2>3, <2>4, <2>5 DEF Exclusive
  <1> QED
    BY <1>1, <1>2, <1>3, <1>4, <1>5, <1>6, <1>7 DEF JobStep

\* Wires leave the queue from one end (d = how many went from the front), and
\* the goroutines waiting for them are answered.
LEMMA ExclusiveAnswer ==
  ASSUME TypeOK, Exclusive,
         NEW S \in SUBSET (1..Len(packQ)), NEW l \in {"fail", "exit"},
         NEW d \in Nat, Answer(S, l), packQ' \in Seq(Wires),
         \A m \in 1..Len(packQ') : /\ m + d \in 1..Len(packQ) \ S
                                   /\ packQ'[m] = packQ[m + d],
         UNCHANGED <<open, dirty, uploading, slot>>
  PROVE  Exclusive'
  <1>1. /\ pc \in [Jobs -> Labels] /\ slot \in [Jobs -> Idx]
        /\ Len(packQ) \in Nat /\ Len(packQ') \in Nat
    BY LenProperties DEF TypeOK
  <1>2. \A j \in Jobs : \/ pc'[j] = pc[j]
                        \/ pc[j] = "packwait" /\ pc'[j] = l
    BY <1>1 DEF Answer, Exclusive, WaitersWait
  <1>3. OneJobPerSlot' /\ RunningTracked'
    BY <1>2 DEF Exclusive, OneJobPerSlot, RunningTracked, Running
  <1>4. DirtyIsIdle'
    BY <1>2 DEF Exclusive, DirtyIsIdle, Running
  <1>5. WaitersWait'
    <2> SUFFICES ASSUME NEW m \in 1..Len(packQ'), packQ'[m].job \in Jobs
                 PROVE  pc'[packQ'[m].job] = "packwait"
      BY DEF WaitersWait
    <2> DEFINE j == packQ[m + d].job
    <2>1. /\ m + d \in 1..Len(packQ) /\ m + d \notin S
          /\ j \in Jobs /\ packQ'[m].job = j
      OBVIOUS
    <2>2. pc[j] = "packwait"
      BY <2>1 DEF Exclusive, WaitersWait
    <2>3. ~ \E n \in S : packQ[n].job = j
      BY <2>1 DEF Exclusive, WaitersDistinct
    <2> QED
      BY <1>1, <2>1, <2>2, <2>3 DEF Answer
  <1>6. WaitersDistinct'
    <2> SUFFICES ASSUME NEW m \in 1..Len(packQ'), NEW n \in 1..Len(packQ'),
                        packQ'[m].job = packQ'[n].job, packQ'[m].job \in Jobs
                 PROVE  m = n
      BY DEF WaitersDistinct
    <2>1. m + d = n + d
      BY DEF Exclusive, WaitersDistinct
    <2> QED
      BY <2>1, <1>1
  <1> QED
    BY <1>3, <1>4, <1>5, <1>6 DEF Exclusive

\* The flusher's steps preserve Exclusive.
LEMMA ExclusivePack ==
  ASSUME TypeOK, Exclusive, PackStep
  PROVE  Exclusive'
  <1> USE DEF handleVars, jobVars, packVars, diskVars, recVars, histVars, bounds
  <1>0. /\ packQ \in Seq(Wires) /\ Len(packQ) \in Nat
        /\ taken \in 0..Len(packQ)
        /\ \A m \in 1..Len(packQ) : packQ[m] \in Wires
    BY LenProperties DEF TypeOK
  <1>1. CASE PackTake \/ PackPut
    BY <1>1, ExclusiveFrame DEF PackTake, PackPut
  <1>2. CASE PackUpload
    <2>1. CASE UNCHANGED <<packQ, pc>>
      BY <1>2, <2>1, ExclusiveFrame DEF PackUpload
    <2>2. CASE /\ Answer(1..taken, "fail")
               /\ packQ' = SubSeq(packQ, taken + 1, Len(packQ))
      <3>1. /\ packQ' \in Seq(Wires)
            /\ Len(packQ') = Len(packQ) - taken
            /\ \A m \in 1..Len(packQ') : packQ'[m] = packQ[m + taken]
        BY <1>0, <2>2, SubSeqProperties
      <3>2. \A m \in 1..Len(packQ') : m + taken \in 1..Len(packQ) \ (1..taken)
        BY <1>0, <3>1
      <3>3. 1..taken \in SUBSET (1..Len(packQ)) /\ taken \in Nat
        BY <1>0
      <3> QED
        BY <1>2, <2>2, <3>1, <3>2, <3>3, ExclusiveAnswer DEF PackUpload
    <2> QED
      BY <1>2, <2>1, <2>2 DEF PackUpload
  <1>3. ASSUME packPc # "idle", NEW l \in {"fail", "exit"}, PackPop(l),
               UNCHANGED <<open, dirty, uploading, slot>>
        PROVE  Exclusive'
    <2>1. /\ packQ # <<>> /\ Len(packQ) # 0
          /\ packQ' = Tail(packQ) /\ Answer({1}, l)
      BY <1>3, PackQueueNonEmpty DEF PackPop
    <2>2. /\ packQ' \in Seq(Wires) /\ Len(packQ') = Len(packQ) - 1
          /\ \A m \in 1..Len(packQ') : packQ'[m] = packQ[m + 1]
      BY <1>0, <2>1, HeadTailProperties
    <2>3. \A m \in 1..Len(packQ') : m + 1 \in 1..Len(packQ) \ {1}
      BY <1>0, <2>2
    <2>4. {1} \in SUBSET (1..Len(packQ))
      BY <1>0, <2>1
    <2> QED
      BY <1>3, <2>1, <2>2, <2>3, <2>4, ExclusiveAnswer
  <1>4. CASE PackPutFails \/ PackUnstage
    BY <1>3, <1>4 DEF PackPutFails, PackUnstage
  <1> QED
    BY <1>1, <1>2, <1>4 DEF PackStep

\* Unlink, crash, mount and recoverPending preserve Exclusive.
LEMMA ExclusiveMount ==
  ASSUME TypeOK, Exclusive, MountStep
  PROVE  Exclusive'
  <1> USE DEF handleVars, jobVars, packVars, diskVars, recVars, histVars, bounds
  <1>0. /\ packQ \in Seq(Wires) /\ Len(packQ) \in Nat
        /\ taken \in 0..Len(packQ)
        /\ \A m \in 1..Len(packQ) : packQ[m] \in Wires
    BY LenProperties DEF TypeOK
  <1>1. CASE Unlink \/ Mount \/ RecoverScan
    BY <1>1, ExclusiveFrame DEF Unlink, Mount, RecoverScan
  <1>2. CASE DropInode
    <2> DEFINE S == taken + 1 .. Len(packQ)
    <2>1. Answer(S, "exit") /\ packQ' = SubSeq(packQ, 1, taken)
      BY <1>2 DEF DropInode
    <2>2. /\ packQ' \in Seq(Wires) /\ Len(packQ') = taken
          /\ \A m \in 1..taken : packQ'[m] = packQ[m]
      BY <1>0, <2>1, SubSeqProperties
    <2>3. \A m \in 1..Len(packQ') : /\ m + 0 \in 1..Len(packQ) \ S
                                    /\ packQ'[m] = packQ[m + 0]
      BY <1>0, <2>2
    <2>4. S \in SUBSET (1..Len(packQ)) /\ 0 \in Nat
      BY <1>0
    <2> HIDE DEF S
    <2> QED
      BY <1>2, <2>1, <2>2, <2>3, <2>4, ExclusiveAnswer DEF DropInode
  <1>3. CASE Crash
    <2>1. /\ open' = FALSE /\ dirty' = [i \in Idx |-> Empty]
          /\ pc' = [j \in Jobs |-> "none"] /\ packQ' = <<>>
      BY <1>3 DEF Crash
    <2>2. 1..Len(packQ') = {}
      BY <2>1
    <2> QED
      BY <2>1, <2>2 DEF Exclusive, OneJobPerSlot, RunningTracked, DirtyIsIdle,
                        WaitersWait, WaitersDistinct, Running
  <1>4. CASE \E i \in Idx : RecoverSubmit(i)
    <2>1. PICK i \in Idx : RecoverSubmit(i)
      BY <1>4
    <2> DEFINE w == WireOf(i, FileAt(staged[i], recTodo[i]), NoJob)
    <2>2. CASE UNCHANGED packQ
      BY <2>1, <2>2, ExclusiveFrame DEF RecoverSubmit
    <2>3. CASE packQ' = Append(packQ, w)
      <3>1. w \in Wires /\ w.job \notin Jobs
        BY FileAtType, WireType, PipelineAssumption DEF TypeOK, WireOf
      <3>2. /\ Len(packQ') = Len(packQ) + 1
            /\ \A m \in 1..Len(packQ) : packQ'[m] = packQ[m]
            /\ packQ'[Len(packQ) + 1] = w
        BY <1>0, <2>3, <3>1, AppendProperties
      <3>w. UNCHANGED pc
        BY <2>1 DEF RecoverSubmit
      <3>m. \A m \in 1..Len(packQ') : packQ'[m].job \in Jobs =>
               m \in 1..Len(packQ) /\ packQ'[m] = packQ[m]
        <4> HIDE DEF w
        <4> QED
          BY <1>0, <3>1, <3>2
      <3>3. WaitersWait' /\ WaitersDistinct'
        <4>1. WaitersWait /\ WaitersDistinct
          BY DEF Exclusive
        <4>2. WaitersWait'
          BY <3>m, <3>w, <4>1 DEF WaitersWait
        <4>3. WaitersDistinct'
          BY <3>m, <4>1 DEF WaitersDistinct
        <4> QED
          BY <4>2, <4>3
      <3> QED
        BY <2>1, <3>3 DEF RecoverSubmit, Exclusive, OneJobPerSlot,
                          RunningTracked, DirtyIsIdle, Running
    <2> QED
      BY <2>1, <2>2, <2>3 DEF RecoverSubmit
  <1> QED
    BY <1>1, <1>2, <1>3, <1>4 DEF MountStep

\* Exclusive holds initially.
LEMMA ExclusiveInit == Init => Exclusive
  <1> SUFFICES ASSUME Init PROVE Exclusive
    OBVIOUS
  <1>1. /\ open = FALSE /\ dirty = [i \in Idx |-> Empty]
        /\ pc = [j \in Jobs |-> "none"] /\ 1..Len(packQ) = {}
    BY DEF Init
  <1> QED
    BY <1>1 DEF Exclusive, OneJobPerSlot, RunningTracked, DirtyIsIdle,
                WaitersWait, WaitersDistinct, Running

\* Without the exit window Exclusive is an invariant: a slot of w.uploading
\* belongs to one uploadOne at a time, and a waiting one has one wire queued.
THEOREM ExclusiveInvariant ==
  ASSUME "exitWindow" \notin Allow
  PROVE  Spec => []Exclusive
  <1>1. TypeOK /\ Exclusive /\ [Next]_vars => Exclusive'
    <2> SUFFICES ASSUME TypeOK, Exclusive, [Next]_vars PROVE Exclusive'
      OBVIOUS
    <2>1. CASE UNCHANGED vars
      BY <2>1, ExclusiveFrame DEF vars, handleVars, jobVars, packVars
    <2> QED
      BY <2>1, ExclusiveHandle, ExclusiveJob, ExclusivePack, ExclusiveMount
      DEF Next
  <1> QED
    BY ExclusiveInit, TypeCorrect, <1>1, PTL DEF Spec

\* Two generations of a chunk never race for its chunk_map row: as long as a
\* failed upload's chunk is not dispatched again before that goroutine is
\* gone, at most one uploadOne carries a slot.
THEOREM OneUpload ==
  ASSUME "exitWindow" \notin Allow
  PROVE  Spec => []OneUploadPerSlot
  <1>1. Exclusive => OneUploadPerSlot
    BY DEF Exclusive, OneJobPerSlot, OneUploadPerSlot, Busy, Running
  <1> QED
    BY ExclusiveInvariant, <1>1, PTL

\* The entries' owners are as before, or more are running.
LEMMA OwnersStay ==
  ASSUME EntriesOwned, uploading' \subseteq uploading,
         \A j \in Jobs : pc[j] # "none" /\ slot[j] \in uploading'
                          => pc'[j] # "none" /\ slot'[j] = slot[j]
  PROVE  EntriesOwned'
  BY DEF EntriesOwned

\* The goroutine that is dispatched owns the new entry.
LEMMA OwnersDispatch ==
  ASSUME TypeOK, EntriesOwned, NEW i \in Idx, Dispatch(i)
  PROVE  EntriesOwned'
  <1>1. PICK j \in Jobs : /\ pc[j] = "none"
                          /\ pc' = [pc EXCEPT ![j] = "start"]
                          /\ slot' = [slot EXCEPT ![j] = i]
    BY DEF Dispatch
  <1>2. pc \in [Jobs -> Labels] /\ slot \in [Jobs -> Idx]
        /\ uploading' = uploading \cup {i}
    BY DEF Dispatch, TypeOK
  <1>3. pc'[j] # "none" /\ slot'[j] = i
    BY <1>1, <1>2
  <1>4. \A k \in Jobs : pc[k] # "none" => pc'[k] # "none" /\ slot'[k] = slot[k]
    BY <1>1, <1>2
  <1> QED
    BY <1>2, <1>3, <1>4 DEF EntriesOwned

\* No goroutine that loadForWrite or Truncate waits for is gone, exit window or
\* not, whatever else the environment does: dispatchFlushLocked enters a slot
\* together with its goroutine, and a goroutine deletes its slot as it ends.
THEOREM EntriesHaveOwners == Spec => []EntriesOwned
  <1> USE DEF handleVars, jobVars, packVars, diskVars, recVars, histVars, bounds
  <1>1. Init => EntriesOwned
    BY DEF Init, EntriesOwned
  <1>2. TypeOK /\ EntriesOwned /\ [Next]_vars => EntriesOwned'
    <2> SUFFICES ASSUME TypeOK, EntriesOwned, [Next]_vars
                 PROVE  EntriesOwned'
      OBVIOUS
    <2>t. /\ pc \in [Jobs -> Labels] /\ slot \in [Jobs -> Idx]
          /\ uploading \subseteq Idx
      BY DEF TypeOK
    <2>1. CASE UNCHANGED <<uploading, pc, slot>>
      BY <2>1 DEF EntriesOwned
    <2>2. CASE uploading' = {}
      BY <2>2 DEF EntriesOwned
    <2>3. ASSUME NEW S, NEW l, l # "none", Answer(S, l),
                 UNCHANGED <<uploading, slot>>
          PROVE  EntriesOwned'
      BY <2>3, <2>t, OwnersStay DEF Answer
    <2>4. CASE HandleStep
      <3>1. CASE \E i \in Idx : EvictOne(i) \/ DispatchNext(i)
        BY <3>1, <2>1, OwnersDispatch DEF EvictOne, DispatchNext
      <3>2. CASE Close
        BY <3>2, <2>2 DEF Close
      <3>3. CASE UNCHANGED <<uploading, jobVars>>
        BY <3>3, <2>1
      <3> QED
        BY <2>4, <3>1, <3>2, <3>3
        DEF HandleStep, NewWriter, EvictDone, GateCanceled, FlushBegin,
            SyncBegin, Begin, FlushEnd, SyncEnd, WriteAt, Overwrite, Truncate
    <2>5. ASSUME NEW j \in Jobs, JobStep(j) PROVE EntriesOwned'
      <3>1. ASSUME NEW l, l # "none", Goto(j, l), UNCHANGED <<uploading, slot>>
            PROVE  EntriesOwned'
        BY <3>1, <2>t, OwnersStay DEF Goto
      <3>2. CASE JobExit(j)
        <4>1. /\ uploading' = uploading \ {slot[j]}
              /\ pc' = [pc EXCEPT ![j] = "none"]
              /\ slot' = [slot EXCEPT ![j] = HomeSlot]
          BY <3>2 DEF JobExit, Goto
        <4> QED
          BY <4>1, <2>t, OwnersStay
      <3>3. CASE JobDedup(j) \/ JobStage(j) \/ JobRecord(j) \/ JobAcquireSem(j)
                 \/ JobUpload(j)
        BY <3>1, <3>3 DEF JobDedup, JobStage, JobRecord, JobAcquireSem, JobUpload
      <3>4. CASE JobPutChunk(j) \/ JobUnstage(j) \/ JobRecordBlob(j)
                 \/ JobRestore(j)
        BY <3>1, <3>4 DEF JobPutChunk, JobUnstage, JobRecordBlob, JobRestore
      <3> QED
        BY <2>5, <3>2, <3>3, <3>4 DEF JobStep
    <2>6. CASE PackStep
      BY <2>6, <2>1, <2>3
      DEF PackStep, PackTake, PackUpload, PackPutFails, PackPut, PackUnstage,
          PackPop
    <2>7. CASE MountStep
      <3>1. CASE Crash
        BY <3>1, <2>2 DEF Crash
      <3>2. CASE DropInode
        BY <3>2, <2>3 DEF DropInode
      <3> QED
        BY <2>7, <2>1, <3>1, <3>2
        DEF MountStep, Unlink, Mount, RecoverScan, RecoverSubmit
    <2> QED
      BY <2>1, <2>4, <2>5, <2>6, <2>7 DEF Next, vars
  <1> QED
    BY <1>1, <1>2, TypeCorrect, PTL DEF Spec

-----------------------------------------------------------------------------
(* A deleted inode has no rows *)

\* However late an upload lands after the unlink, on whichever route, it leaves
\* no chunk_map row behind, and dedup never revives one.
THEOREM NoRowsLeft == Spec => []NoRowAfterUnlink
  <1> USE DEF handleVars, jobVars, packVars, diskVars, recVars, histVars, bounds
  <1>1. Init => NoRowAfterUnlink
    BY DEF Init, NoRowAfterUnlink
  <1>2. TypeOK /\ NoRowAfterUnlink /\ [Next]_vars => NoRowAfterUnlink'
    <2> SUFFICES ASSUME TypeOK, NoRowAfterUnlink, [Next]_vars
                 PROVE  NoRowAfterUnlink'
      OBVIOUS
    <2>1. CASE UNCHANGED <<live, row>>
      BY <2>1 DEF NoRowAfterUnlink
    <2>2. CASE Unlink
      BY <2>2 DEF Unlink, NoRowAfterUnlink
    <2>3. CASE live /\ live'
      BY <2>3 DEF NoRowAfterUnlink
    <2>4. CASE \E k \in {0} \cup {i + 1 : i \in Idx} : Truncate(k)
      BY <2>4 DEF Truncate, NoRowAfterUnlink
    <2>5. HandleStep => \/ UNCHANGED <<live, row>>
                        \/ \E k \in {0} \cup {i + 1 : i \in Idx} : Truncate(k)
      BY DEF HandleStep, NewWriter, EvictDone, GateCanceled, FlushBegin,
             SyncBegin, Begin, FlushEnd, SyncEnd, Close, EvictOne,
             DispatchNext, WriteAt, Overwrite
    <2>6. ASSUME NEW j \in Jobs, JobStep(j)
          PROVE  \/ UNCHANGED <<live, row>>
                 \/ live /\ live'
                 \/ JobDedup(j)
      BY <2>6 DEF JobStep, JobRecordBlob, JobStage, JobRecord, JobAcquireSem, JobUpload,
                  JobPutChunk, JobUnstage, JobRestore, JobExit
    <2>7. ASSUME NEW j \in Jobs, JobDedup(j) PROVE NoRowAfterUnlink'
      <3>1. CASE Reusable(data[j])
        <4>1. CASE live
          BY <2>3, <2>7, <4>1 DEF JobDedup
        <4>2. CASE ~live
          <5>1. data[j] = Empty
            BY <3>1, <4>2 DEF Reusable, NoRowAfterUnlink, TypeOK
          <5> QED
            BY <2>7, <4>2, <5>1
            DEF JobDedup, ReuseChunkByHash, NoRowAfterUnlink, TypeOK
        <4> QED
          BY <4>1, <4>2
      <3>2. CASE ~Reusable(data[j])
        BY <2>7, <3>2, <2>1 DEF JobDedup
      <3> QED
        BY <3>1, <3>2
    <2>8. PackStep => UNCHANGED <<live, row>> \/ (live /\ live')
      BY DEF PackStep, PackTake, PackUpload, PackPutFails, PackPut, PackUnstage
    <2>9. MountStep => UNCHANGED <<live, row>> \/ Unlink
      BY DEF MountStep, DropInode, Crash, Mount, RecoverScan, RecoverSubmit
    <2> QED
      BY <2>1, <2>2, <2>3, <2>4, <2>5, <2>6, <2>7, <2>8, <2>9
      DEF Next, vars
  <1> QED
    BY <1>1, <1>2, TypeCorrect, PTL DEF Spec

-----------------------------------------------------------------------------
(* What fsync promised stays.  The strengthening has two parts.  Orderly:    *)
(* where the copies of a chunk are, step by step -- a goroutine past staging *)
(* has its wire under pending/, the packer's wires are staged and belong to  *)
(* different slots, a stale generation is there only while the index names   *)
(* it, and recovery runs alone.  Promised: the writes a Sync covered are in  *)
(* every copy of their slot that is, or may become, its row, and what the    *)
(* handle has written is in the copy it works with.                          *)

\* A chunk with bytes has a size class.
Sized(c) == c # Empty => c.n # 0

\* Slot i has at most one staged file, and the index knows its path.
Resting(i) == /\ staged[i].old = Empty
              /\ staged[i].cur # Empty => index[i] = staged[i].cur.n

\* Goroutine j has staged its wire; an earlier generation of another size is
\* still there only if the index names it.
Recording(j) ==
    LET s == staged[slot[j]]
    IN /\ s.cur = data[j]
       /\ s.old # Empty => /\ s.old.n = index[slot[j]]
                           /\ s.old.n # 0 /\ s.old.n # data[j].n

StagedLabels == {"packwait", "slot", "upload", "put", "unstage"}
RecordingOn(i) == \E j \in Jobs : pc[j] = "record" /\ slot[j] = i
AllIdle == ~open /\ \A j \in Jobs : pc[j] = "none"

SizesKnown == \A i \in Idx : Sized(dirty[i]) /\ Sized(staged[i].cur)
FilesInOrder ==
    up /\ ~scanDue =>
        \A i \in Idx : Resting(i) \/ recTodo[i] # 0 \/ RecordingOn(i)
JobsInOrder ==
    \A j \in Jobs :
        /\ Busy(j) => data[j].n # 0
        /\ pc[j] = "record" => Recording(j)
        /\ pc[j] \in StagedLabels => staged[slot[j]].cur = data[j]
        /\ pc[j] = "unstage" => row[slot[j]] = data[j]
        /\ pc[j] # "blob"
WireInOrder(w) ==
    /\ w.job \in Jobs => w.idx = slot[w.job] /\ w.c = data[w.job]
    /\ w.job = NoJob => AllIdle
    /\ staged[w.idx].cur = w.c /\ w.c.n # 0
    /\ recTodo[w.idx] = 0
WiresInOrder == \A m \in 1..Len(packQ) : WireInOrder(packQ[m])
WiresDistinct ==
    \A m, n \in 1..Len(packQ) : packQ[m].idx = packQ[n].idx => m = n
HeadCommitted == packPc = "unstage" => row[packQ[1].idx] = packQ[1].c
RecoveryAlone ==
    /\ \A i \in Idx : recTodo[i] # 0 => /\ AllIdle
                                        /\ staged[i].old = Empty
                                        /\ staged[i].cur.n = recTodo[i]
    /\ ~up \/ scanDue => /\ AllIdle /\ packQ = <<>>
                         /\ \A i \in Idx : recTodo[i] = 0
Numbered == \A i \in Idx : \A w \in expect[i] : w <= writes

\* Where the bytes of a file that exists are, step by step.
Orderly == /\ SizesKnown /\ FilesInOrder /\ JobsInOrder
           /\ WiresInOrder /\ WiresDistinct /\ HeadCommitted
           /\ RecoveryAlone /\ Numbered /\ ~dropDue

\* The chunk an upload of slot i is carrying, as a set of none or one.
Carried(i) == {data[j] : j \in BusyOn(i)}

\* The writes S are in every copy of slot i that is, or may become, its row.
Everywhere(i, S) ==
    /\ S \subseteq row[i].ids
    /\ dirty[i] # Empty => S \subseteq dirty[i].ids
    /\ \A c \in Carried(i) : S \subseteq c.ids
    /\ staged[i].cur # Empty => S \subseteq staged[i].cur.ids

\* The writes S are in the copy of slot i the open handle works with; if that
\* is the row, no staged wire will replace it.
Held(i, S) ==
    /\ dirty[i] # Empty => S \subseteq dirty[i].ids
    /\ \A c \in Carried(i) : S \subseteq c.ids
    /\ dirty[i] = Empty /\ Carried(i) = {} =>
          /\ S \subseteq row[i].ids
          /\ staged[i].cur # Empty => S = {}

SyncedEverywhere == \A i \in Idx : Everywhere(i, synced[i])
MineHeld == open => \A i \in Idx : Held(i, Mine(i))
RequestOpen == op # "idle" => open
Promised == SyncedEverywhere /\ MineHeld /\ RequestOpen

\* The inductive invariant behind SyncedIsDurable.
Durable == IF live THEN Orderly /\ Promised
                   ELSE \A i \in Idx : synced[i] = {}

\* The same for a file without a handle.
HeldClosed(i, S) ==
    /\ \A c \in Carried(i) : S \subseteq c.ids
    /\ Carried(i) = {} => S \subseteq Survivor(i).ids
ExpectHeld == \A i \in Idx : IF open THEN Held(i, expect[i])
                                     ELSE HeldClosed(i, expect[i])
\* An upload fails only with its wire staged.
FailStaged == \A j \in Jobs : pc[j] = "fail" => staged[slot[j]].cur = data[j]
\* A chunk that is dirty although flushed is staged as it is.
SettledStaged ==
    \A i \in Idx : /\ dirty[i] # Empty
                   /\ settled \/ (op = "flush" /\ i \notin todo)
                   => staged[i].cur = dirty[i]
Intact == ExpectHeld /\ FailStaged /\ SettledStaged

\* The inductive invariant behind NoLostWrite.
Retained == live => Intact

\* The instances meant: the cipher is not deterministic, a file is not opened
\* while wires are staged for it, and no dispatch hits the exit window.
Plain == ~Dedup /\ "reopen" \notin Allow /\ "exitWindow" \notin Allow

Ready == TypeOK /\ Exclusive /\ Orderly /\ live

\* The types the steps below use.
LEMMA ReadyTypes ==
  ASSUME TypeOK
  PROVE  /\ pc \in [Jobs -> Labels] /\ slot \in [Jobs -> Idx]
         /\ data \in [Jobs -> Content]
         /\ dirty \in [Idx -> Content] /\ row \in [Idx -> Content]
         /\ staged \in [Idx -> Files]
         /\ index \in [Idx -> 0..2] /\ recTodo \in [Idx -> 0..2]
         /\ packQ \in Seq(Wires) /\ Len(packQ) \in Nat
         /\ \A m \in 1..Len(packQ) : packQ[m] \in Wires
  BY LenProperties DEF TypeOK

\* Steps that touch neither chunks, files, goroutines nor wires keep the order.
LEMMA OrderlyFrame ==
  ASSUME Orderly,
         UNCHANGED <<up, open, dirty, pc, slot, data, packQ, packPc, row,
                     staged, index, scanDue, recTodo, dropDue, expect, writes>>
  PROVE  Orderly'
  BY DEF Orderly, SizesKnown, FilesInOrder, JobsInOrder, WiresInOrder,
         WireInOrder, WiresDistinct, HeadCommitted, RecoveryAlone, Numbered,
         Resting, Recording, RecordingOn, AllIdle, Busy, Sized

\* Opening the file: no wire and no staged file is left of an earlier mount.
LEMMA OrderlyNewWriter ==
  ASSUME Ready, Plain, NewWriter
  PROVE  Orderly'
  <1> USE DEF handleVars, jobVars, packVars, diskVars, recVars, histVars, bounds
  <1>t. /\ packQ \in Seq(Wires) /\ Len(packQ) \in Nat
        /\ \A m \in 1..Len(packQ) : packQ[m] \in Wires
    BY ReadyTypes DEF Ready
  <1>1. /\ \A i \in Idx : staged[i] = NoFiles /\ recTodo[i] = 0
        /\ ~scanDue /\ up
        /\ \A j \in Jobs : pc[j] = "none"
        /\ UNCHANGED <<up, dirty, pc, slot, data, packQ, packPc, row,
                     staged, index, scanDue, recTodo, dropDue, expect, writes>>
    BY DEF NewWriter, NothingStaged, Plain
  <1>2. \A m \in 1..Len(packQ) : FALSE
    <2> SUFFICES ASSUME NEW m \in 1..Len(packQ) PROVE FALSE
      OBVIOUS
    <2>1. packQ[m].idx \in Idx
      BY <1>t DEF Wires
    <2>2. staged[packQ[m].idx].cur = packQ[m].c /\ packQ[m].c.n # 0
      BY DEF Ready, Orderly, WiresInOrder, WireInOrder
    <2>3. staged[packQ[m].idx].cur = Empty
      BY <1>1, <2>1 DEF NoFiles
    <2> QED
      BY <2>2, <2>3 DEF Empty
  <1>3. SizesKnown' /\ FilesInOrder' /\ JobsInOrder' /\ HeadCommitted'
    BY <1>1 DEF Ready, Orderly, SizesKnown, FilesInOrder, JobsInOrder,
                HeadCommitted, Resting, Recording, RecordingOn, Busy, Sized
  <1>4. WiresInOrder' /\ WiresDistinct'
    BY <1>1, <1>2 DEF WiresInOrder, WiresDistinct
  <1>5. RecoveryAlone' /\ Numbered' /\ ~dropDue'
    BY <1>1 DEF Ready, Orderly, RecoveryAlone, Numbered
  <1> QED
    BY <1>3, <1>4, <1>5 DEF Orderly

\* Closing it forgets the dirty chunks.
LEMMA OrderlyClose ==
  ASSUME Ready, Close
  PROVE  Orderly'
  <1> USE DEF handleVars, jobVars, packVars, diskVars, recVars, histVars, bounds
  <1>1. /\ open' = FALSE /\ dirty' = [i \in Idx |-> Empty]
        /\ UNCHANGED <<up, pc, slot, data, packQ, packPc, row,
                     staged, index, scanDue, recTodo, dropDue, expect, writes>>
    BY DEF Close
  <1>2. SizesKnown'
    BY <1>1 DEF Ready, Orderly, SizesKnown, Sized
  <1> QED
    BY <1>1, <1>2 DEF Ready, Orderly, FilesInOrder, JobsInOrder, WiresInOrder,
         WireInOrder, WiresDistinct, HeadCommitted, RecoveryAlone, Numbered,
         Resting, Recording, RecordingOn, AllIdle, Busy

\* An open handle excludes recovery.
LEMMA OpenExcludes ==
  ASSUME Orderly, open
  PROVE  /\ up /\ ~scanDue
         /\ \A i \in Idx : recTodo[i] = 0
         /\ \A m \in 1..Len(packQ) : packQ[m].job # NoJob
  BY DEF Orderly, RecoveryAlone, WiresInOrder, WireInOrder, AllIdle

\* A write changes the dirty buffer of its slot only.
LEMMA OrderlyWriteAt ==
  ASSUME Ready, NEW i \in Idx, NEW n \in SizeClass, WriteAt(i, n)
  PROVE  Orderly'
  <1> USE DEF handleVars, jobVars, packVars, diskVars, recVars, histVars, bounds
  <1>t. TypeOK /\ Orderly
    BY DEF Ready
  <1>1. /\ writes' = writes + 1
        /\ expect' = [expect EXCEPT ![i] = @ \cup {writes + 1}]
        /\ UNCHANGED <<up, open, pc, slot, data, packQ, packPc, row,
                     staged, index, scanDue, recTodo, dropDue>>
    BY DEF WriteAt
  <1>2. SizesKnown'
    <2> DEFINE base == LoadForWrite(i)
    <2> DEFINE c == [ids |-> base.ids \cup {writes + 1}, n |-> Larger(base.n, n)]
    <2>1. base.n \in 0..2
      BY <1>t, LoadForWriteType DEF Content
    <2>2. Larger(base.n, n) # 0
      BY <2>1 DEF Larger, SizeClass
    <2>3. c.n # 0
      BY <2>2
    <2>4. dirty' = [dirty EXCEPT ![i] = c] /\ dirty \in [Idx -> Content]
      BY <1>t DEF WriteAt, TypeOK
    <2> HIDE DEF c
    <2> QED
      BY <1>1, <1>t, <2>3, <2>4 DEF Orderly, SizesKnown, Sized
  <1>3. Numbered'
    <2>1. /\ expect \in [Idx -> SUBSET Writes] /\ writes \in Nat
          /\ \A k \in Idx : \A w \in expect[k] : w \in Nat
      BY <1>t, PipelineAssumption DEF TypeOK, Writes
    <2>2. ASSUME NEW k \in Idx, NEW w \in expect'[k] PROVE w <= writes + 1
      <3>1. CASE w = writes + 1
        BY <3>1, <2>1
      <3>2. CASE w \in expect[k]
        BY <3>2, <2>1, <1>t DEF Orderly, Numbered
      <3> QED
        BY <1>1, <2>1, <2>2, <3>1, <3>2
    <2> QED
      BY <1>1, <2>2 DEF Numbered
  <1> QED
    BY <1>1, <1>2, <1>3, <1>t DEF Orderly, FilesInOrder, JobsInOrder,
         WiresInOrder, WireInOrder, WiresDistinct, HeadCommitted,
         RecoveryAlone, Resting, Recording, RecordingOn, AllIdle, Busy

\* dispatchFlushLocked moves a dirty chunk into a fresh goroutine.
LEMMA OrderlyDispatch ==
  ASSUME Ready, NEW i \in Idx, Dispatch(i),
         UNCHANGED <<up, open, packQ, packPc, row, staged, index, scanDue,
                     recTodo, dropDue, expect, writes>>
  PROVE  Orderly'
  <1>t. TypeOK /\ Orderly /\ Exclusive
    BY DEF Ready
  <1>0. /\ pc \in [Jobs -> Labels] /\ slot \in [Jobs -> Idx]
        /\ data \in [Jobs -> Content] /\ dirty \in [Idx -> Content]
    BY <1>t DEF TypeOK
  <1>1. PICK j \in Jobs : /\ pc[j] = "none"
                          /\ pc' = [pc EXCEPT ![j] = "start"]
                          /\ slot' = [slot EXCEPT ![j] = i]
                          /\ data' = [data EXCEPT ![j] = dirty[i]]
    BY DEF Dispatch
  <1>2. dirty[i] # Empty /\ dirty' = [dirty EXCEPT ![i] = Empty]
    BY DEF Dispatch
  <1>3. open /\ dirty[i].n # 0
    BY <1>2, <1>t DEF Exclusive, DirtyIsIdle, Orderly, SizesKnown, Sized
  <1>4. /\ pc'[j] = "start" /\ data'[j] = dirty[i] /\ slot'[j] = i
        /\ \A k \in Jobs : k # j => /\ pc'[k] = pc[k] /\ slot'[k] = slot[k]
                                    /\ data'[k] = data[k]
    BY <1>0, <1>1
  <1>5. SizesKnown'
    BY <1>0, <1>2, <1>t DEF Orderly, SizesKnown, Sized
  <1>6. JobsInOrder'
    <2> SUFFICES ASSUME NEW k \in Jobs
                 PROVE  /\ Busy(k)' => data'[k].n # 0
                        /\ pc'[k] = "record" => Recording(k)'
                        /\ pc'[k] \in StagedLabels =>
                              staged'[slot'[k]].cur = data'[k]
                        /\ pc'[k] = "unstage" => row'[slot'[k]] = data'[k]
                        /\ pc'[k] # "blob"
      BY DEF JobsInOrder
    <2>1. CASE k = j
      BY <2>1, <1>3, <1>4 DEF StagedLabels
    <2>2. CASE k # j
      BY <2>2, <1>4, <1>t DEF Orderly, JobsInOrder, Busy, Recording
    <2> QED
      BY <2>1, <2>2
  <1>7. FilesInOrder'
    <2>1. \A k \in Idx : RecordingOn(k) => RecordingOn(k)'
      BY <1>1, <1>4 DEF RecordingOn
    <2> QED
      BY <2>1, <1>t DEF Orderly, FilesInOrder, Resting
  <1>8. WiresInOrder'
    <2> SUFFICES ASSUME NEW m \in 1..Len(packQ) PROVE WireInOrder(packQ[m])'
      BY DEF WiresInOrder
    <2>1. WireInOrder(packQ[m]) /\ packQ[m].job # NoJob
      BY <1>3, <1>t, OpenExcludes DEF Orderly, WiresInOrder
    <2>2. packQ[m].job # j
      BY <1>1, <1>t DEF Exclusive, WaitersWait
    <2> QED
      BY <2>1, <2>2, <1>4 DEF WireInOrder
  <1>9. RecoveryAlone'
    BY <1>3, <1>t, OpenExcludes DEF RecoveryAlone
  <1> QED
    BY <1>5, <1>6, <1>7, <1>8, <1>9, <1>t
    DEF Orderly, WiresDistinct, HeadCommitted, Numbered

\* Truncate waits for the uploads it could disturb, so it meets only slots
\* without a goroutine that has committed or waits.
LEMMA OrderlyTruncate ==
  ASSUME Ready, NEW k \in Nat, Truncate(k)
  PROVE  Orderly'
  <1> USE DEF handleVars, jobVars, packVars, diskVars, recVars, histVars, bounds
  <1>t. TypeOK /\ Orderly /\ Exclusive
    BY DEF Ready
  <1>0. /\ slot \in [Jobs -> Idx] /\ dirty \in [Idx -> Content]
        /\ row \in [Idx -> Content] /\ Idx \subseteq Nat
        /\ uploading \subseteq Idx
    BY <1>t, PipelineAssumption DEF TypeOK
  <1>1. /\ up /\ open
        /\ \A i \in uploading : i + 1 < k
        /\ dirty' = [i \in Idx |-> IF i < k THEN dirty[i] ELSE Empty]
        /\ row' = [i \in Idx |-> IF i < k THEN row[i] ELSE Empty]
        /\ expect' = [i \in Idx |-> IF i < k THEN expect[i] ELSE {}]
        /\ UNCHANGED <<up, open, pc, slot, data, packQ, packPc, staged, index,
                       scanDue, recTodo, dropDue, writes>>
    BY DEF Truncate
  <1>2. \A j \in Jobs : pc[j] # "none" =>
            /\ slot[j] \in Idx /\ slot[j] < k
            /\ row'[slot[j]] = row[slot[j]]
    <2> SUFFICES ASSUME NEW j \in Jobs, pc[j] # "none"
                 PROVE  /\ slot[j] \in Idx /\ slot[j] < k
                        /\ row'[slot[j]] = row[slot[j]]
      OBVIOUS
    <2>1. slot[j] \in uploading
      BY <1>1, <1>t DEF Exclusive, RunningTracked, Running
    <2>2. slot[j] \in Nat /\ slot[j] + 1 < k
      BY <1>0, <1>1, <2>1
    <2>3. slot[j] < k
      BY <2>2
    <2> QED
      BY <1>0, <1>1, <2>3
  <1>3. SizesKnown' /\ Numbered'
    BY <1>1, <1>t DEF Orderly, SizesKnown, Sized, Numbered
  <1>4. JobsInOrder'
    BY <1>1, <1>2, <1>t DEF Orderly, JobsInOrder, Busy, Recording
  <1>5. HeadCommitted'
    <2> SUFFICES ASSUME packPc = "unstage"
                 PROVE  row'[packQ[1].idx] = packQ[1].c
      BY <1>1 DEF HeadCommitted
    <2>1. 1 \in 1..Len(packQ) /\ packQ[1] \in Wires
      BY <1>t, PackQueueNonEmpty
    <2>2. packQ[1].job # NoJob /\ WireInOrder(packQ[1])
      BY <1>1, <1>t, <2>1, OpenExcludes DEF Orderly, WiresInOrder
    <2>3. packQ[1].job \in Jobs
      BY <2>1, <2>2 DEF Wires
    <2>4. pc[packQ[1].job] = "packwait" /\ packQ[1].idx = slot[packQ[1].job]
      BY <1>t, <2>1, <2>2, <2>3 DEF Exclusive, WaitersWait, WireInOrder
    <2>5. row'[packQ[1].idx] = row[packQ[1].idx]
      BY <1>2, <2>3, <2>4
    <2> QED
      BY <2>5, <1>t DEF Orderly, HeadCommitted
  <1> QED
    BY <1>1, <1>3, <1>4, <1>5, <1>t DEF Orderly, FilesInOrder,
         WiresInOrder, WireInOrder, WiresDistinct, RecoveryAlone, Resting,
         RecordingOn, AllIdle

\* A running goroutine that does not wait for the packer has its slot to
\* itself, and there is no recovery beside it.
LEMMA JobAlone ==
  ASSUME Ready, NEW j \in Jobs, pc[j] \notin {"none", "packwait"}
  PROVE  /\ slot[j] \in Idx /\ data[j] \in Content
         /\ up /\ ~scanDue /\ \A i \in Idx : recTodo[i] = 0
         /\ \A m \in 1..Len(packQ) : /\ packQ[m].job \in Jobs
                                     /\ packQ[m].job # j
                                     /\ packQ[m].idx \in Idx
                                     /\ packQ[m].idx # slot[j]
                                     /\ WireInOrder(packQ[m])
         /\ \A k \in Jobs : k # j /\ pc[k] # "none" => slot[k] # slot[j]
         /\ Busy(j) => dirty[slot[j]] = Empty
         /\ pc[j] # "record" => Resting(slot[j])
  <1>t. TypeOK /\ Orderly /\ Exclusive
    BY DEF Ready
  <1>0. slot[j] \in Idx /\ data[j] \in Content
    BY <1>t, ReadyTypes
  <1>1. up /\ ~scanDue /\ \A i \in Idx : recTodo[i] = 0
    BY <1>t DEF Orderly, RecoveryAlone, AllIdle
  <1>2. \A k \in Jobs : k # j /\ pc[k] # "none" => slot[k] # slot[j]
    BY <1>t DEF Exclusive, OneJobPerSlot, Running
  <1>3. ASSUME NEW m \in 1..Len(packQ)
        PROVE  /\ packQ[m].job \in Jobs /\ packQ[m].job # j
               /\ packQ[m].idx \in Idx /\ packQ[m].idx # slot[j]
               /\ WireInOrder(packQ[m])
    <2>1. packQ[m].job \in Jobs \cup {NoJob} /\ packQ[m].idx \in Idx
      BY <1>t, ReadyTypes DEF Wires
    <2>2. WireInOrder(packQ[m])
      BY <1>t DEF Orderly, WiresInOrder
    <2>3. packQ[m].job \in Jobs
      BY <2>1, <2>2 DEF WireInOrder, AllIdle
    <2>4. pc[packQ[m].job] = "packwait" /\ packQ[m].idx = slot[packQ[m].job]
      BY <1>t, <2>2, <2>3 DEF Exclusive, WaitersWait, WireInOrder
    <2> QED
      BY <1>2, <2>1, <2>2, <2>3, <2>4
  <1>4. Busy(j) => dirty[slot[j]] = Empty
    BY <1>0, <1>t DEF Exclusive, DirtyIsIdle, Busy, Running
  <1>5. pc[j] # "record" => Resting(slot[j])
    BY <1>0, <1>1, <1>2, <1>t DEF Orderly, FilesInOrder, RecordingOn
  <1> QED
    BY <1>0, <1>1, <1>2, <1>3, <1>4, <1>5

\* What JobsInOrder says of one goroutine.
JobInOrder(k) ==
    /\ Busy(k) => data[k].n # 0
    /\ pc[k] = "record" => Recording(k)
    /\ pc[k] \in StagedLabels => staged[slot[k]].cur = data[k]
    /\ pc[k] = "unstage" => row[slot[k]] = data[k]
    /\ pc[k] # "blob"

\* A step of goroutine j that leaves all slots but its own as they are keeps
\* the order everywhere else.
LEMMA OrderlyJob ==
  ASSUME Ready, NEW j \in Jobs, NEW l \in Labels, Goto(j, l), l # "none",
         l # "packwait", pc[j] \notin {"none", "packwait"},
         \A i \in Idx : i # slot[j] => /\ row'[i] = row[i]
                                       /\ staged'[i] = staged[i]
                                       /\ index'[i] = index[i]
                                       /\ dirty'[i] = dirty[i],
         UNCHANGED <<up, open, slot, data, packQ, packPc, scanDue, recTodo,
                     dropDue, expect, writes>>,
         JobInOrder(j)',
         Sized(dirty[slot[j]])', Sized(staged[slot[j]].cur)',
         l # "record" => Resting(slot[j])'
  PROVE  Orderly'
  <1>t. TypeOK /\ Orderly /\ Exclusive
    BY DEF Ready
  <1>a. /\ slot[j] \in Idx
        /\ up /\ ~scanDue /\ \A i \in Idx : recTodo[i] = 0
        /\ \A m \in 1..Len(packQ) : /\ packQ[m].job \in Jobs
                                    /\ packQ[m].job # j
                                    /\ packQ[m].idx \in Idx
                                    /\ packQ[m].idx # slot[j]
                                    /\ WireInOrder(packQ[m])
        /\ \A k \in Jobs : k # j /\ pc[k] # "none" => slot[k] # slot[j]
    BY JobAlone
  <1>0. /\ pc'[j] = l /\ \A k \in Jobs : k # j => pc'[k] = pc[k]
        /\ \A k \in Jobs : slot[k] \in Idx
    BY <1>t DEF Goto, TypeOK
  <1>1. SizesKnown'
    <2>1. ASSUME NEW i \in Idx PROVE Sized(dirty[i])' /\ Sized(staged[i].cur)'
      <3>1. CASE i = slot[j]
        BY <3>1
      <3>2. CASE i # slot[j]
        BY <3>2, <1>t DEF Orderly, SizesKnown, Sized
      <3> QED
        BY <3>1, <3>2
    <2> QED
      BY <2>1 DEF SizesKnown
  <1>2. FilesInOrder'
    <2>1. ASSUME NEW i \in Idx PROVE Resting(i)' \/ RecordingOn(i)'
      <3>1. CASE i = slot[j]
        BY <3>1, <1>0 DEF RecordingOn
      <3>2. CASE i # slot[j]
        <4>1. Resting(i) \/ RecordingOn(i)
          BY <1>a, <1>t DEF Orderly, FilesInOrder
        <4>2. CASE Resting(i)
          BY <3>2, <4>2 DEF Resting
        <4>3. CASE RecordingOn(i)
          BY <3>2, <4>3, <1>0 DEF RecordingOn
        <4> QED
          BY <4>1, <4>2, <4>3
      <3> QED
        BY <3>1, <3>2
    <2> QED
      BY <2>1 DEF FilesInOrder
  <1>3. JobsInOrder'
    <2>1. ASSUME NEW k \in Jobs PROVE JobInOrder(k)'
      <3>1. CASE k = j
        BY <3>1
      <3>2. CASE k # j /\ pc[k] = "none"
        BY <3>2, <1>0 DEF JobInOrder, Busy, StagedLabels
      <3>3. CASE k # j /\ pc[k] # "none"
        <4>1. /\ slot[k] # slot[j] /\ pc'[k] = pc[k]
              /\ row'[slot[k]] = row[slot[k]]
              /\ staged'[slot[k]] = staged[slot[k]]
              /\ index'[slot[k]] = index[slot[k]]
          BY <3>3, <1>0, <1>a
        <4>2. JobInOrder(k)
          BY <1>t DEF Orderly, JobsInOrder, JobInOrder
        <4> QED
          BY <4>1, <4>2 DEF JobInOrder, Busy, Recording
      <3> QED
        BY <3>1, <3>2, <3>3
    <2> QED
      BY <2>1 DEF JobsInOrder, JobInOrder
  <1>4. WiresInOrder'
    <2> SUFFICES ASSUME NEW m \in 1..Len(packQ) PROVE WireInOrder(packQ[m])'
      BY DEF WiresInOrder
    <2>1. /\ packQ[m].job \in Jobs /\ packQ[m].idx # slot[j]
          /\ packQ[m].idx \in Idx /\ WireInOrder(packQ[m])
      BY <1>a
    <2>2. packQ[m].job # NoJob
      BY <2>1, PipelineAssumption
    <2>3. staged'[packQ[m].idx] = staged[packQ[m].idx]
      BY <2>1
    <2> QED
      BY <2>1, <2>2, <2>3 DEF WireInOrder
  <1>5. HeadCommitted'
    <2> SUFFICES ASSUME packPc = "unstage"
                 PROVE  row'[packQ[1].idx] = packQ[1].c
      BY DEF HeadCommitted
    <2>1. 1 \in 1..Len(packQ)
      BY <1>t, PackQueueNonEmpty
    <2>2. row'[packQ[1].idx] = row[packQ[1].idx]
      BY <1>a, <2>1
    <2> QED
      BY <2>2, <1>t DEF Orderly, HeadCommitted
  <1>6. RecoveryAlone'
    BY <1>a DEF RecoveryAlone
  <1> QED
    BY <1>1, <1>2, <1>3, <1>4, <1>5, <1>6, <1>t
    DEF Orderly, WiresDistinct, Numbered

\* The dedup decision and the staging of the wire.
LEMMA OrderlyStage ==
  ASSUME Ready, Plain, NEW j \in Jobs, JobDedup(j) \/ JobStage(j)
  PROVE  Orderly'
  <1> USE DEF handleVars, jobVars, packVars, diskVars, recVars, histVars, bounds
  <1>t. TypeOK /\ Orderly
    BY DEF Ready
  <1> DEFINE i == slot[j]
  <1>0. /\ pc[j] \in {"start", "stage"} /\ pc \in [Jobs -> Labels]
        /\ staged \in [Idx -> Files] /\ data[j] \in Content
    BY <1>t, ReadyTypes DEF JobDedup, JobStage
  <1>1. i \in Idx /\ dirty[i] = Empty /\ Resting(i)
    BY <1>0, JobAlone DEF Busy
  <1>2. data[j].n # 0 /\ Sized(dirty[i]) /\ Sized(staged[i].cur)
    BY <1>0, <1>1, <1>t DEF Orderly, SizesKnown, JobsInOrder, Busy
  <1>3. CASE /\ UNCHANGED <<row, staged, index, dirty>>
             /\ Goto(j, "stage") \/ Goto(j, "fail")
             /\ UNCHANGED <<up, open, slot, data, packQ, packPc, scanDue,
                            recTodo, dropDue, expect, writes>>
    <2>1. PICK l \in {"stage", "fail"} : Goto(j, l)
      BY <1>3
    <2>2. l \in Labels
      BY DEF Labels
    <2>3. pc'[j] = l
      BY <1>0, <2>1 DEF Goto
    <2>4. JobInOrder(j)'
      BY <1>2, <1>3, <2>3 DEF JobInOrder, StagedLabels
    <2> QED
      BY <1>0, <1>1, <1>2, <1>3, <2>1, <2>2, <2>4, OrderlyJob
      DEF Sized, Resting
  <1>4. CASE /\ staged' = [staged EXCEPT ![i] = PersistPending(@, data[j])]
             /\ Goto(j, "record")
             /\ UNCHANGED <<row, index, dirty, up, open, slot, data, packQ,
                            packPc, scanDue, recTodo, dropDue, expect, writes>>
    <2>1. staged'[i] = PersistPending(staged[i], data[j]) /\ pc'[j] = "record"
      BY <1>0, <1>1, <1>4 DEF Goto
    <2>2. /\ staged'[i].cur = data[j]
          /\ staged'[i].old = IF staged[i].cur.n = data[j].n THEN staged[i].old
                                                             ELSE staged[i].cur
      BY <2>1 DEF PersistPending
    <2>3. Recording(j)'
      BY <1>1, <1>2, <1>4, <2>2 DEF Recording, Resting, Sized
    <2>4. JobInOrder(j)'
      BY <1>2, <1>4, <2>1, <2>3 DEF JobInOrder, StagedLabels
    <2>5. Sized(dirty[slot[j]])' /\ Sized(staged[slot[j]].cur)'
      BY <1>2, <1>4, <2>2 DEF Sized
    <2>6. "record" \in Labels /\ \A k \in Idx : k # i => staged'[k] = staged[k]
      BY <1>0, <1>4 DEF Labels
    <2> QED
      BY <1>0, <1>1, <1>4, <2>4, <2>5, <2>6, OrderlyJob
  <1> QED
    BY <1>3, <1>4 DEF JobDedup, JobStage, Plain

\* Recording the path removes the earlier generation.
LEMMA RecordClears ==
  ASSUME Ready, NEW j \in Jobs, JobRecord(j)
  PROVE  /\ staged'[slot[j]] = [cur |-> data[j], old |-> Empty]
         /\ index'[slot[j]] = data[j].n
         /\ \A i \in Idx : i # slot[j] => /\ staged'[i] = staged[i]
                                          /\ index'[i] = index[i]
         /\ pc[j] = "record" /\ data[j].n # 0
         /\ UNCHANGED <<up, live, open, op, todo, settled, dirty, slot, data,
                        packPc, row, scanDue, recTodo, dropDue, since, expect,
                        synced, writes>>
  <1> USE DEF handleVars, jobVars, packVars, diskVars, recVars, histVars, bounds
  <1> DEFINE i == slot[j]
  <1>0. /\ i \in Idx /\ index \in [Idx -> 0..2] /\ staged \in [Idx -> Files]
    BY ReadyTypes DEF Ready
  <1>1. /\ pc[j] = "record"
        /\ staged' = IF index[i] # 0 /\ index[i] # data[j].n
                    THEN [staged EXCEPT ![i] = DeletePending(@, index[i])]
                    ELSE staged
        /\ index' = [index EXCEPT ![i] = data[j].n]
        /\ UNCHANGED <<up, live, open, op, todo, settled, dirty, slot, data,
                       packPc, row, scanDue, recTodo, dropDue, since, expect,
                       synced, writes>>
    BY DEF JobRecord
  <1>2. Recording(j) /\ data[j].n # 0
    BY <1>1 DEF Ready, Orderly, JobsInOrder, Busy
  <1>3. staged[i] \in [cur : Content, old : Content]
    BY <1>0 DEF Files
  <1>4. staged'[i] = IF index[i] # 0 /\ index[i] # data[j].n
                     THEN DeletePending(staged[i], index[i]) ELSE staged[i]
    BY <1>0, <1>1
  <1>5. staged'[i].cur = data[j] /\ staged'[i].old = Empty
    BY <1>2, <1>4 DEF DeletePending, Recording
  <1>6. staged'[i] \in [cur : Content, old : Content]
    BY <1>0, <1>3, <1>4, DeletePendingType DEF Files
  <1>7. staged'[i] = [cur |-> data[j], old |-> Empty]
    BY <1>5, <1>6
  <1> QED
    BY <1>0, <1>1, <1>2, <1>7

\* The wire goes to the packer, or the goroutine on to the pool.
LEMMA OrderlyRecord ==
  ASSUME Ready, NEW j \in Jobs, JobRecord(j)
  PROVE  Orderly'
  <1>t. TypeOK /\ Orderly /\ Exclusive
    BY DEF Ready
  <1> DEFINE i == slot[j]
  <1>r. /\ staged'[i] = [cur |-> data[j], old |-> Empty]
        /\ index'[i] = data[j].n
        /\ \A k \in Idx : k # i => staged'[k] = staged[k] /\ index'[k] = index[k]
        /\ pc[j] = "record" /\ data[j].n # 0
        /\ UNCHANGED <<up, open, dirty, slot, data, packPc, row, scanDue,
                       recTodo, dropDue, expect, writes>>
    BY RecordClears
  <1>a. /\ i \in Idx /\ data[j] \in Content
        /\ up /\ ~scanDue /\ \A k \in Idx : recTodo[k] = 0
        /\ \A m \in 1..Len(packQ) : /\ packQ[m].job \in Jobs
                                    /\ packQ[m].job # j
                                    /\ packQ[m].idx \in Idx
                                    /\ packQ[m].idx # i
                                    /\ WireInOrder(packQ[m])
        /\ \A k \in Jobs : k # j /\ pc[k] # "none" => slot[k] # i
    BY <1>r, JobAlone
  <1>0. /\ pc \in [Jobs -> Labels] /\ slot \in [Jobs -> Idx]
        /\ packQ \in Seq(Wires) /\ Len(packQ) \in Nat
    BY <1>t, ReadyTypes
  <1>s. /\ Sized(dirty[i])' /\ Sized(staged[i].cur)' /\ Resting(i)'
    BY <1>a, <1>r, <1>t DEF Orderly, SizesKnown, Sized, Resting
  <1>1. CASE Goto(j, "slot") /\ UNCHANGED packQ
    <2>1. pc'[j] = "slot" /\ "slot" \in Labels
      BY <1>0, <1>1 DEF Goto, Labels
    <2>2. JobInOrder(j)'
      BY <1>r, <2>1 DEF JobInOrder
    <2> QED
      BY <1>1, <1>r, <1>s, <2>1, <2>2, OrderlyJob
  <1>2. CASE Goto(j, "packwait") /\ packQ' = Append(packQ, WireOf(i, data[j], j))
    <2> DEFINE w == WireOf(i, data[j], j)
    <2>w. w \in Wires /\ w.idx = i /\ w.c = data[j] /\ w.job = j
      BY <1>a, WireType DEF WireOf
    <2>1. /\ Len(packQ') = Len(packQ) + 1
          /\ \A m \in 1..Len(packQ) : packQ'[m] = packQ[m]
          /\ packQ'[Len(packQ) + 1] = w
      BY <1>0, <1>2, <2>w, AppendProperties
    <2> HIDE DEF w
    <2>m. \A m \in 1..Len(packQ') : \/ m \in 1..Len(packQ) /\ packQ'[m] = packQ[m]
                                    \/ m = Len(packQ) + 1 /\ packQ'[m] = w
      BY <1>0, <2>1
    <2>2. pc'[j] = "packwait" /\ \A k \in Jobs : k # j => pc'[k] = pc[k]
      BY <1>0, <1>2 DEF Goto
    <2>3. SizesKnown'
      BY <1>r, <1>s, <1>t DEF Orderly, SizesKnown, Sized
    <2>4. FilesInOrder'
      <3>1. ASSUME NEW k \in Idx PROVE Resting(k)' \/ RecordingOn(k)'
        <4>1. CASE k = i
          BY <4>1, <1>s, <1>r DEF Resting
        <4>2. CASE k # i
          <5>1. Resting(k) \/ RecordingOn(k)
            BY <1>a, <1>t DEF Orderly, FilesInOrder
          <5> QED
            BY <4>2, <5>1, <1>r, <2>2 DEF Resting, RecordingOn
        <4> QED
          BY <4>1, <4>2
      <3> QED
        BY <3>1 DEF FilesInOrder
    <2>5. JobsInOrder'
      <3>1. ASSUME NEW k \in Jobs PROVE JobInOrder(k)'
        <4>1. CASE k = j
          BY <4>1, <1>r, <2>2 DEF JobInOrder
        <4>2. CASE k # j /\ pc[k] = "none"
          BY <4>2, <2>2 DEF JobInOrder, Busy, StagedLabels
        <4>3. CASE k # j /\ pc[k] # "none"
          <5>1. /\ slot[k] # i /\ slot[k] \in Idx /\ pc'[k] = pc[k]
                /\ staged'[slot[k]] = staged[slot[k]]
                /\ index'[slot[k]] = index[slot[k]]
            BY <4>3, <1>0, <1>a, <1>r, <2>2
          <5>2. JobInOrder(k)
            BY <1>t DEF Orderly, JobsInOrder, JobInOrder
          <5> QED
            BY <5>1, <5>2, <1>r DEF JobInOrder, Busy, Recording
        <4> QED
          BY <4>1, <4>2, <4>3
      <3> QED
        BY <3>1 DEF JobsInOrder, JobInOrder
    <2>6. WiresInOrder'
      <3> SUFFICES ASSUME NEW m \in 1..Len(packQ') PROVE WireInOrder(packQ[m])'
        BY DEF WiresInOrder
      <3>1. CASE m \in 1..Len(packQ) /\ packQ'[m] = packQ[m]
        <4>1. /\ packQ[m].job \in Jobs /\ packQ[m].idx # i
              /\ packQ[m].idx \in Idx /\ WireInOrder(packQ[m])
          BY <3>1, <1>a
        <4>2. packQ[m].job # NoJob
          BY <4>1, PipelineAssumption
        <4>3. staged'[packQ[m].idx] = staged[packQ[m].idx]
          BY <4>1, <1>r
        <4> QED
          BY <3>1, <4>1, <4>2, <4>3, <1>r DEF WireInOrder
      <3>2. CASE packQ'[m] = w
        <4>1. w.idx = slot'[j] /\ w.c = data'[j] /\ w.job = j /\ j # NoJob
          BY <2>w, <1>r, PipelineAssumption
        <4>2. staged'[i].cur = data[j] /\ recTodo'[i] = 0
          BY <1>a, <1>r
        <4>3. staged'[w.idx].cur = w.c /\ w.c.n # 0 /\ recTodo'[w.idx] = 0
          BY <2>w, <1>r, <4>2
        <4> QED
          BY <3>2, <4>1, <4>3 DEF WireInOrder
      <3> QED
        BY <2>m, <3>1, <3>2
    <2>7. WiresDistinct'
      <3> SUFFICES ASSUME NEW m \in 1..Len(packQ'), NEW n \in 1..Len(packQ'),
                          packQ'[m].idx = packQ'[n].idx
                   PROVE  m = n
        BY DEF WiresDistinct
      <3>1. CASE m \in 1..Len(packQ) /\ n \in 1..Len(packQ)
        BY <3>1, <2>1, <1>t DEF Orderly, WiresDistinct
      <3> QED
        BY <3>1, <2>m, <2>w, <1>a
    <2>8. HeadCommitted'
      <3> SUFFICES ASSUME packPc = "unstage"
                   PROVE  row'[packQ'[1].idx] = packQ'[1].c
        BY <1>r DEF HeadCommitted
      <3>1. 1 \in 1..Len(packQ)
        BY <1>t, PackQueueNonEmpty
      <3> QED
        BY <3>1, <2>1, <1>r, <1>t DEF Orderly, HeadCommitted
    <2>9. RecoveryAlone' /\ Numbered' /\ ~dropDue'
      BY <1>a, <1>r, <1>t DEF RecoveryAlone, Orderly, Numbered
    <2> QED
      BY <2>3, <2>4, <2>5, <2>6, <2>7, <2>8, <2>9 DEF Orderly
  <1> QED
    BY <1>1, <1>2 DEF JobRecord

\* The pool, the upload and the commit of the direct route.
LEMMA OrderlyUpload ==
  ASSUME Ready, NEW j \in Jobs,
         JobAcquireSem(j) \/ JobUpload(j) \/ JobPutChunk(j)
  PROVE  Orderly'
  <1> USE DEF handleVars, jobVars, packVars, diskVars, recVars, histVars, bounds
  <1>t. TypeOK /\ Orderly /\ live
    BY DEF Ready
  <1> DEFINE i == slot[j]
  <1>0. /\ pc[j] \in {"slot", "upload", "put"} /\ pc \in [Jobs -> Labels]
        /\ row \in [Idx -> Content]
    BY <1>t, ReadyTypes DEF JobAcquireSem, JobUpload, JobPutChunk
  <1>1. i \in Idx /\ dirty[i] = Empty /\ Resting(i)
    BY <1>0, JobAlone DEF Busy
  <1>2. /\ data[j].n # 0 /\ staged[i].cur = data[j]
        /\ Sized(dirty[i]) /\ Sized(staged[i].cur)
    BY <1>0, <1>1, <1>t
    DEF Orderly, SizesKnown, JobsInOrder, Busy, StagedLabels
  <1>3. /\ UNCHANGED <<up, open, slot, data, packQ, packPc, scanDue, recTodo,
                       dropDue, expect, writes, staged, index, dirty>>
        /\ \/ /\ UNCHANGED row
              /\ Goto(j, "upload") \/ Goto(j, "put") \/ Goto(j, "fail")
           \/ row' = [row EXCEPT ![i] = data[j]] /\ Goto(j, "unstage")
    BY <1>t DEF JobAcquireSem, JobUpload, JobPutChunk, PutRow
  <1>4. PICK l \in {"upload", "put", "fail", "unstage"} :
           /\ Goto(j, l) /\ (l = "unstage" => row'[i] = data[j])
    BY <1>0, <1>1, <1>3
  <1>5. pc'[j] = l /\ l \in Labels
    BY <1>0, <1>4 DEF Goto, Labels
  <1>6. JobInOrder(j)'
    BY <1>2, <1>3, <1>4, <1>5 DEF JobInOrder
  <1>7. Sized(dirty[slot[j]])' /\ Sized(staged[slot[j]].cur)' /\ Resting(slot[j])'
    BY <1>1, <1>2, <1>3 DEF Sized, Resting
  <1>8. \A k \in Idx : k # i => row'[k] = row[k]
    BY <1>0, <1>3
  <1> QED
    BY <1>0, <1>3, <1>4, <1>5, <1>6, <1>7, <1>8, OrderlyJob

\* A staged file that is the only one of its slot is gone once deleted.
LEMMA DeleteOnly ==
  ASSUME NEW s \in Files, s.old = Empty, s.cur.n # 0
  PROVE  DeletePending(s, s.cur.n) = NoFiles
  BY DEF DeletePending, NoFiles, Files, Empty

\* The committed chunk's staged file goes.
LEMMA UnstageClears ==
  ASSUME Ready, Plain, NEW j \in Jobs, JobUnstage(j)
  PROVE  /\ slot[j] \in Idx /\ pc[j] = "unstage" /\ Goto(j, "exit")
         /\ staged'[slot[j]] = NoFiles /\ row[slot[j]] = data[j]
         /\ \A i \in Idx : i # slot[j] => /\ staged'[i] = staged[i]
                                          /\ index'[i] = index[i]
         /\ UNCHANGED <<up, live, open, op, todo, settled, dirty, slot, data,
                        packQ, packPc, row, scanDue, recTodo, dropDue, since,
                        expect, synced, writes>>
  <1> USE DEF handleVars, jobVars, packVars, diskVars, recVars, histVars, bounds
  <1> DEFINE i == slot[j]
  <1>0. staged \in [Idx -> Files] /\ index \in [Idx -> 0..2]
    BY ReadyTypes DEF Ready
  <1>1. /\ pc[j] = "unstage" /\ Goto(j, "exit")
        /\ staged' = [staged EXCEPT ![i] = DeletePending(@, data[j].n)]
        /\ index' = [index EXCEPT ![i] = 0]
        /\ UNCHANGED <<up, live, open, op, todo, settled, dirty, slot, data,
                        packQ, packPc, row, scanDue, recTodo, dropDue, since,
                        expect, synced, writes>>
    BY DEF JobUnstage, Plain
  <1>2. i \in Idx /\ Resting(i)
    BY <1>1, JobAlone
  <1>3. data[j].n # 0 /\ staged[i].cur = data[j] /\ row[i] = data[j]
    BY <1>1 DEF Ready, Orderly, JobsInOrder, Busy, StagedLabels
  <1>4. DeletePending(staged[i], data[j].n) = NoFiles
    BY <1>0, <1>2, <1>3, DeleteOnly DEF Resting
  <1> QED
    BY <1>0, <1>1, <1>2, <1>3, <1>4

\* Unstaging, and the restore of a failed upload.
LEMMA OrderlyFinish ==
  ASSUME Ready, Plain, NEW j \in Jobs, JobUnstage(j) \/ JobRestore(j)
  PROVE  Orderly'
  <1> USE DEF handleVars, jobVars, packVars, diskVars, recVars, histVars, bounds
  <1>t. TypeOK /\ Orderly
    BY DEF Ready
  <1> DEFINE i == slot[j]
  <1>0. /\ pc[j] \in {"unstage", "fail"} /\ pc \in [Jobs -> Labels]
        /\ dirty \in [Idx -> Content] /\ "exit" \in Labels
    BY <1>t, ReadyTypes DEF JobUnstage, JobRestore, Labels
  <1>1. i \in Idx /\ dirty[i] = Empty /\ Resting(i)
    BY <1>0, JobAlone DEF Busy
  <1>2. data[j].n # 0 /\ Sized(dirty[i]) /\ Sized(staged[i].cur)
    BY <1>0, <1>1, <1>t DEF Orderly, SizesKnown, JobsInOrder, Busy
  <1>3. ASSUME Goto(j, "exit") PROVE JobInOrder(j)'
    BY <1>0, <1>3 DEF Goto, JobInOrder, Busy, StagedLabels
  <1>4. CASE JobUnstage(j)
    <2>1. /\ Goto(j, "exit") /\ staged'[i] = NoFiles
          /\ \A k \in Idx : k # i => staged'[k] = staged[k] /\ index'[k] = index[k]
          /\ UNCHANGED <<up, open, dirty, slot, data, packQ, packPc, row,
                         scanDue, recTodo, dropDue, expect, writes>>
      BY <1>4, UnstageClears
    <2>2. Sized(dirty[slot[j]])' /\ Sized(staged[slot[j]].cur)' /\ Resting(slot[j])'
      BY <1>2, <2>1 DEF Sized, Resting, NoFiles
    <2> QED
      BY <1>0, <1>3, <2>1, <2>2, OrderlyJob
  <1>5. CASE JobRestore(j)
    <2>1. /\ Goto(j, "exit")
          /\ dirty' = dirty \/ dirty' = [dirty EXCEPT ![i] = data[j]]
          /\ UNCHANGED <<up, open, slot, data, packQ, packPc, row, staged,
                         index, scanDue, recTodo, dropDue, expect, writes>>
      BY <1>5 DEF JobRestore
    <2>2. /\ \A k \in Idx : k # i => dirty'[k] = dirty[k]
          /\ dirty'[i] = dirty[i] \/ dirty'[i] = data[j]
      BY <1>0, <1>1, <2>1
    <2>3. Sized(dirty[slot[j]])' /\ Sized(staged[slot[j]].cur)' /\ Resting(slot[j])'
      BY <1>1, <1>2, <2>1, <2>2 DEF Sized, Resting
    <2> QED
      BY <1>0, <1>3, <2>1, <2>2, <2>3, OrderlyJob
  <1> QED
    BY <1>4, <1>5

\* The end of a goroutine.
LEMMA OrderlyExit ==
  ASSUME Ready, NEW j \in Jobs, JobExit(j)
  PROVE  Orderly'
  <1> USE DEF handleVars, jobVars, packVars, diskVars, recVars, histVars, bounds
  <1>t. TypeOK /\ Orderly /\ Exclusive
    BY DEF Ready
  <1>0. /\ pc \in [Jobs -> Labels] /\ slot \in [Jobs -> Idx]
        /\ data \in [Jobs -> Content]
    BY <1>t, ReadyTypes
  <1>1. /\ pc[j] = "exit" /\ pc' = [pc EXCEPT ![j] = "none"]
        /\ slot' = [slot EXCEPT ![j] = HomeSlot]
        /\ data' = [data EXCEPT ![j] = Empty]
        /\ UNCHANGED <<up, open, dirty, packQ, packPc, row, staged, index,
                       scanDue, recTodo, dropDue, expect, writes>>
    BY DEF JobExit, Goto
  <1>2. /\ pc'[j] = "none"
        /\ \A k \in Jobs : k # j => /\ pc'[k] = pc[k] /\ slot'[k] = slot[k]
                                    /\ data'[k] = data[k]
    BY <1>0, <1>1
  <1>a. /\ up /\ ~scanDue /\ \A i \in Idx : recTodo[i] = 0
        /\ \A m \in 1..Len(packQ) : /\ packQ[m].job \in Jobs
                                    /\ packQ[m].job # j
                                    /\ WireInOrder(packQ[m])
    BY <1>1, JobAlone
  <1>3. JobsInOrder'
    <2>1. ASSUME NEW k \in Jobs PROVE JobInOrder(k)'
      <3>1. CASE k = j
        BY <3>1, <1>2 DEF JobInOrder, Busy, StagedLabels
      <3>2. CASE k # j
        <4>1. JobInOrder(k)
          BY <1>t DEF Orderly, JobsInOrder, JobInOrder
        <4> QED
          BY <3>2, <4>1, <1>1, <1>2 DEF JobInOrder, Busy, Recording
      <3> QED
        BY <3>1, <3>2
    <2> QED
      BY <2>1 DEF JobsInOrder, JobInOrder
  <1>4. FilesInOrder'
    <2>1. \A i \in Idx : RecordingOn(i) => RecordingOn(i)'
      BY <1>1, <1>2 DEF RecordingOn
    <2> QED
      BY <2>1, <1>1, <1>t DEF Orderly, FilesInOrder, Resting
  <1>5. WiresInOrder'
    <2> SUFFICES ASSUME NEW m \in 1..Len(packQ) PROVE WireInOrder(packQ[m])'
      BY <1>1 DEF WiresInOrder
    <2>1. /\ packQ[m].job \in Jobs /\ packQ[m].job # j /\ packQ[m].job # NoJob
          /\ WireInOrder(packQ[m])
      BY <1>a, PipelineAssumption
    <2> QED
      BY <2>1, <1>1, <1>2 DEF WireInOrder
  <1>6. RecoveryAlone'
    BY <1>1, <1>a DEF RecoveryAlone
  <1> QED
    BY <1>1, <1>3, <1>4, <1>5, <1>6, <1>t
    DEF Orderly, SizesKnown, Sized, WiresDistinct, HeadCommitted, Numbered

\* A wire of the packer: its slot has no other goroutine and no other wire.
LEMMA WireAlone ==
  ASSUME Ready, NEW m \in 1..Len(packQ)
  PROVE  /\ packQ[m].idx \in Idx /\ packQ[m].c \in Content
         /\ packQ[m].job \in Jobs \cup {NoJob} /\ WireInOrder(packQ[m])
         /\ \A n \in 1..Len(packQ) : n # m => packQ[n].idx # packQ[m].idx
         /\ \A k \in Jobs : pc[k] # "none" /\ k # packQ[m].job =>
                               slot[k] # packQ[m].idx
         /\ packQ[m].job \in Jobs => /\ pc[packQ[m].job] = "packwait"
                                     /\ slot[packQ[m].job] = packQ[m].idx
                                     /\ data[packQ[m].job] = packQ[m].c
         /\ packQ[m].job \notin Jobs => AllIdle
         /\ Resting(packQ[m].idx)
  <1>t. TypeOK /\ Orderly /\ Exclusive
    BY DEF Ready
  <1>1. /\ packQ[m].idx \in Idx /\ packQ[m].c \in Content
        /\ packQ[m].job \in Jobs \cup {NoJob}
    BY <1>t, ReadyTypes DEF Wires
  <1>2. WireInOrder(packQ[m])
    BY <1>t DEF Orderly, WiresInOrder
  <1>3. \A n \in 1..Len(packQ) : n # m => packQ[n].idx # packQ[m].idx
    BY <1>t DEF Orderly, WiresDistinct
  <1>4. packQ[m].job \in Jobs => /\ pc[packQ[m].job] = "packwait"
                                 /\ slot[packQ[m].job] = packQ[m].idx
                                 /\ data[packQ[m].job] = packQ[m].c
    BY <1>2, <1>t DEF WireInOrder, Exclusive, WaitersWait
  <1>5. packQ[m].job \notin Jobs => AllIdle
    BY <1>1, <1>2 DEF WireInOrder
  <1>6. ASSUME NEW k \in Jobs, pc[k] # "none", k # packQ[m].job
        PROVE  slot[k] # packQ[m].idx
    <2>1. packQ[m].job \in Jobs
      BY <1>5, <1>6 DEF AllIdle
    <2> QED
      BY <1>4, <1>6, <2>1, <1>t DEF Exclusive, OneJobPerSlot, Running
  <1>7. Resting(packQ[m].idx)
    <2>1. packQ # <<>>
      BY <1>t, ReadyTypes
    <2>2. up /\ ~scanDue /\ recTodo[packQ[m].idx] = 0
      BY <2>1, <1>2, <1>t DEF Orderly, RecoveryAlone, WireInOrder
    <2>3. ~RecordingOn(packQ[m].idx)
      <3> SUFFICES ASSUME NEW k \in Jobs, pc[k] = "record",
                          slot[k] = packQ[m].idx
                   PROVE  FALSE
        BY DEF RecordingOn
      <3>1. k = packQ[m].job
        BY <1>6
      <3> QED
        BY <1>4, <3>1
    <2> QED
      BY <1>1, <2>2, <2>3, <1>t DEF Orderly, FilesInOrder
  <1> QED
    BY <1>1, <1>2, <1>3, <1>4, <1>5, <1>6, <1>7

\* Wires leave the packer and their goroutines are answered; their slots may
\* lose the staged file.
LEMMA OrderlyAnswer ==
  ASSUME Ready, NEW S \in SUBSET (1..Len(packQ)), NEW l \in {"fail", "exit"},
         NEW d \in Nat, Answer(S, l), packQ # <<>>, packQ' \in Seq(Wires),
         \A m \in 1..Len(packQ') : /\ m + d \in 1..Len(packQ) \ S
                                   /\ packQ'[m] = packQ[m + d],
         packPc' # "unstage",
         \A i \in Idx : (\A m \in S : packQ[m].idx # i) =>
                           staged'[i] = staged[i] /\ index'[i] = index[i],
         \A i \in Idx : (\E m \in S : packQ[m].idx = i) =>
                           Sized(staged[i].cur)' /\ Resting(i)',
         UNCHANGED <<up, open, dirty, slot, data, row, scanDue, recTodo,
                     dropDue, expect, writes>>
  PROVE  Orderly'
  <1>t. TypeOK /\ Orderly /\ Exclusive
    BY DEF Ready
  <1>0. /\ pc \in [Jobs -> Labels] /\ slot \in [Jobs -> Idx]
        /\ Len(packQ) \in Nat /\ Len(packQ') \in Nat
    BY <1>t, ReadyTypes, LenProperties
  <1>a. ASSUME NEW m \in S
        PROVE  /\ m \in 1..Len(packQ) /\ packQ[m].idx \in Idx
               /\ WireInOrder(packQ[m])
               /\ \A n \in 1..Len(packQ) : n # m => packQ[n].idx # packQ[m].idx
               /\ \A k \in Jobs : pc[k] # "none" /\ k # packQ[m].job =>
                               slot[k] # packQ[m].idx
               /\ packQ[m].job \in Jobs => pc[packQ[m].job] = "packwait"
               /\ packQ[m].job \notin Jobs => AllIdle
    BY WireAlone
  <1>1. \A k \in Jobs : \/ pc'[k] = pc[k] /\ \A m \in S : packQ[m].job # k
                        \/ pc[k] = "packwait" /\ pc'[k] = l
    BY <1>0, <1>a DEF Answer
  <1>2. SizesKnown'
    <2>1. ASSUME NEW i \in Idx PROVE Sized(staged[i].cur)'
      <3>1. CASE \E m \in S : packQ[m].idx = i
        BY <3>1
      <3>2. CASE \A m \in S : packQ[m].idx # i
        BY <3>2, <1>t DEF Orderly, SizesKnown, Sized
      <3> QED
        BY <3>1, <3>2
    <2> QED
      BY <2>1, <1>t DEF Orderly, SizesKnown, Sized
  <1>3. up /\ ~scanDue
    BY <1>t DEF Orderly, RecoveryAlone
  <1>4. FilesInOrder'
    <2>1. ASSUME NEW i \in Idx
          PROVE  (Resting(i) \/ recTodo[i] # 0 \/ RecordingOn(i))'
      <3>1. CASE \E m \in S : packQ[m].idx = i
        BY <3>1
      <3>2. CASE \A m \in S : packQ[m].idx # i
        <4>1. Resting(i) \/ recTodo[i] # 0 \/ RecordingOn(i)
          BY <1>3, <1>t DEF Orderly, FilesInOrder
        <4>2. RecordingOn(i) => RecordingOn(i)'
          BY <1>1 DEF RecordingOn
        <4>3. Resting(i) => Resting(i)'
          BY <3>2 DEF Resting
        <4> QED
          BY <4>1, <4>2, <4>3
      <3> QED
        BY <3>1, <3>2
    <2> QED
      BY <2>1 DEF FilesInOrder
  <1>5. JobsInOrder'
    <2>1. ASSUME NEW k \in Jobs PROVE JobInOrder(k)'
      <3>0. JobInOrder(k)
        BY <1>t DEF Orderly, JobsInOrder, JobInOrder
      <3>1. CASE pc[k] = "packwait" /\ pc'[k] = l
        BY <3>0, <3>1 DEF JobInOrder, Busy, StagedLabels
      <3>2. CASE pc'[k] = pc[k] /\ pc[k] = "none"
        BY <3>2 DEF JobInOrder, Busy, StagedLabels
      <3>3. CASE /\ pc'[k] = pc[k] /\ \A m \in S : packQ[m].job # k
                 /\ pc[k] # "none"
        <4>1. \A m \in S : packQ[m].idx # slot[k]
          BY <1>a, <3>3
        <4>2. staged'[slot[k]] = staged[slot[k]] /\ index'[slot[k]] = index[slot[k]]
          BY <1>0, <4>1
        <4> QED
          BY <3>0, <3>3, <4>2 DEF JobInOrder, Busy, Recording
      <3> QED
        BY <1>1, <3>1, <3>2, <3>3
    <2> QED
      BY <2>1 DEF JobsInOrder, JobInOrder
  <1>6. AllIdle => AllIdle'
    BY <1>1 DEF AllIdle
  <1>7. WiresInOrder'
    <2> SUFFICES ASSUME NEW m \in 1..Len(packQ') PROVE WireInOrder(packQ[m])'
      BY DEF WiresInOrder
    <2> DEFINE n == m + d
    <2>1. n \in 1..Len(packQ) /\ n \notin S /\ packQ'[m] = packQ[n]
      OBVIOUS
    <2> HIDE DEF n
    <2>2. WireInOrder(packQ[n]) /\ packQ[n].idx \in Idx
      BY <2>1, WireAlone
    <2>3. \A x \in S : packQ[x].idx # packQ[n].idx
      BY <1>a, <2>1
    <2>4. staged'[packQ[n].idx] = staged[packQ[n].idx]
      BY <2>2, <2>3
    <2> QED
      BY <1>6, <2>1, <2>2, <2>4 DEF WireInOrder
  <1>8. WiresDistinct'
    <2> SUFFICES ASSUME NEW m \in 1..Len(packQ'), NEW n \in 1..Len(packQ'),
                        packQ'[m].idx = packQ'[n].idx
                 PROVE  m = n
      BY DEF WiresDistinct
    <2>1. m + d = n + d
      BY <1>t DEF Orderly, WiresDistinct
    <2> QED
      BY <2>1, <1>0
  <1>9. RecoveryAlone'
    <2>1. ASSUME NEW i \in Idx, recTodo[i] # 0
          PROVE  /\ AllIdle' /\ staged'[i].old = Empty
                 /\ staged'[i].cur.n = recTodo[i]
      <3>1. AllIdle /\ staged[i].old = Empty /\ staged[i].cur.n = recTodo[i]
        BY <2>1, <1>t DEF Orderly, RecoveryAlone
      <3>2. \A m \in S : packQ[m].idx # i
        BY <1>a, <2>1 DEF WireInOrder
      <3> QED
        BY <1>6, <3>1, <3>2
    <2> QED
      BY <1>3, <2>1 DEF RecoveryAlone
  <1> QED
    BY <1>2, <1>4, <1>5, <1>7, <1>8, <1>9, <1>t
    DEF Orderly, HeadCommitted, Numbered

\* The flusher settles the first wire of its batch.
LEMMA PopIs ==
  ASSUME TypeOK, packPc # "idle", NEW l, PackPop(l)
  PROVE  /\ 1 \in 1..Len(packQ) /\ packQ # <<>> /\ Head(packQ) = packQ[1]
         /\ {1} \in SUBSET (1..Len(packQ)) /\ Answer({1}, l)
         /\ packQ' \in Seq(Wires) /\ packPc' # "unstage"
         /\ \A m \in 1..Len(packQ') : /\ m + 1 \in 1..Len(packQ) \ {1}
                                      /\ packQ'[m] = packQ[m + 1]
  <1>1. /\ packQ # <<>> /\ Len(packQ) \in Nat \ {0} /\ Head(packQ) = packQ[1]
        /\ packQ \in Seq(Wires)
    BY PackQueueNonEmpty DEF TypeOK
  <1>2. packQ' = Tail(packQ) /\ Answer({1}, l) /\ packPc' # "unstage"
    BY DEF PackPop
  <1>3. /\ packQ' \in Seq(Wires) /\ Len(packQ') = Len(packQ) - 1
        /\ \A m \in 1..Len(packQ') : packQ'[m] = packQ[m + 1]
    BY <1>1, <1>2, HeadTailProperties
  <1>4. \A m \in 1..Len(packQ') : m + 1 \in 1..Len(packQ) \ {1}
    BY <1>1, <1>3
  <1> QED
    BY <1>1, <1>2, <1>3, <1>4

\* The row of the first wire landed: its slot's staged file goes with it.
LEMMA PackUnstageClears ==
  ASSUME Ready, PackUnstage
  PROVE  LET w == packQ[1]
         IN /\ 1 \in 1..Len(packQ) /\ packPc = "unstage" /\ PackPop("exit")
            /\ staged'[w.idx] = NoFiles /\ row[w.idx] = w.c
            /\ \A i \in Idx : i # w.idx => staged'[i] = staged[i] /\ index'[i] = index[i]
            /\ UNCHANGED <<up, live, open, op, todo, settled, dirty, slot, data,
                           row, scanDue, recTodo, dropDue, since, expect,
                           synced, writes>>
  <1> USE DEF handleVars, jobVars, packVars, diskVars, recVars, histVars, bounds
  <1>t. TypeOK /\ Orderly /\ live
    BY DEF Ready
  <1>0. staged \in [Idx -> Files] /\ index \in [Idx -> 0..2]
    BY <1>t, ReadyTypes
  <1>1. packPc = "unstage"
    BY <1>t DEF PackUnstage
  <1>2. 1 \in 1..Len(packQ) /\ Head(packQ) = packQ[1]
    BY <1>1, <1>t, PackQueueNonEmpty
  <1> DEFINE w == packQ[1]
  <1>3. /\ staged' = [staged EXCEPT ![w.idx] = DeletePending(@, w.c.n)]
        /\ index' = [index EXCEPT ![w.idx] = 0] /\ PackPop("exit")
        /\ UNCHANGED <<up, live, open, op, todo, settled, dirty, slot, data,
                           row, scanDue, recTodo, dropDue, since, expect,
                           synced, writes>>
    BY <1>2 DEF PackUnstage
  <1>4. /\ w.idx \in Idx /\ Resting(w.idx)
        /\ staged[w.idx].cur = w.c /\ w.c.n # 0
    BY <1>2, WireAlone DEF WireInOrder
  <1>5. DeletePending(staged[w.idx], w.c.n) = NoFiles
    BY <1>0, <1>4, DeleteOnly DEF Resting
  <1>6. row[w.idx] = w.c
    BY <1>1, <1>t DEF Orderly, HeadCommitted
  <1> QED
    BY <1>0, <1>1, <1>2, <1>3, <1>4, <1>5, <1>6

\* The flusher commits the first wire of its batch.
LEMMA PackPutCommits ==
  ASSUME Ready, PackPut
  PROVE  LET w == packQ[1]
         IN /\ 1 \in 1..Len(packQ) /\ packPc' = "unstage"
            /\ row'[w.idx] = w.c
            /\ \A i \in Idx : i # w.idx => row'[i] = row[i]
            /\ UNCHANGED <<up, live, open, op, todo, settled, dirty, pc, slot,
                           data, packQ, staged, index, scanDue, recTodo,
                           dropDue, since, expect, synced, writes>>
  <1> USE DEF handleVars, jobVars, packVars, diskVars, recVars, histVars, bounds
  <1>t. TypeOK /\ packPc # "idle" /\ row \in [Idx -> Content]
    BY DEF Ready, PackPut, TypeOK
  <1>1. 1 \in 1..Len(packQ) /\ Head(packQ) = packQ[1]
    BY <1>t, PackQueueNonEmpty
  <1>2. packQ[1].idx \in Idx
    BY <1>1, WireAlone
  <1> QED
    BY <1>t, <1>1, <1>2 DEF PackPut, PutRow

\* The flusher's steps keep the order.
LEMMA OrderlyPack ==
  ASSUME Ready, PackStep
  PROVE  Orderly'
  <1> USE DEF handleVars, jobVars, packVars, diskVars, recVars, histVars, bounds
  <1>t. TypeOK /\ Orderly /\ Exclusive /\ live
    BY DEF Ready
  <1>0. packQ \in Seq(Wires) /\ Len(packQ) \in Nat /\ taken \in 0..Len(packQ)
    BY <1>t, ReadyTypes DEF TypeOK
  <1>m. ASSUME packPc' # "unstage",
               UNCHANGED <<up, open, dirty, pc, slot, data, packQ, row,
                     staged, index, scanDue, recTodo, dropDue, expect, writes>>
        PROVE  Orderly'
    BY <1>m, <1>t
    DEF Orderly, SizesKnown, FilesInOrder, JobsInOrder, WiresInOrder,
        WireInOrder, WiresDistinct, HeadCommitted, RecoveryAlone, Numbered,
        Resting, Recording, RecordingOn, AllIdle, Busy, Sized
  <1>1. CASE PackTake
    BY <1>1, <1>m DEF PackTake
  <1>r. ASSUME NEW i \in Idx, \E m \in 1..Len(packQ) : packQ[m].idx = i,
               UNCHANGED <<staged, index>>
        PROVE  Sized(staged[i].cur)' /\ Resting(i)'
    <2>1. Resting(i)
      BY <1>r, WireAlone
    <2> QED
      BY <1>r, <2>1, <1>t DEF Orderly, SizesKnown, Sized, Resting
  <1>2. CASE PackUpload
    <2>1. CASE packPc' = "put" /\ UNCHANGED <<packQ, taken, pc>>
      BY <1>2, <2>1, <1>m DEF PackUpload
    <2>2. CASE /\ packPc' = "idle" /\ Answer(1..taken, "fail")
               /\ packQ' = SubSeq(packQ, taken + 1, Len(packQ))
      <3>1. /\ packQ' \in Seq(Wires)
            /\ Len(packQ') = Len(packQ) - taken
            /\ \A m \in 1..Len(packQ') : packQ'[m] = packQ[m + taken]
        BY <1>0, <2>2, SubSeqProperties
      <3>2. \A m \in 1..Len(packQ') : m + taken \in 1..Len(packQ) \ (1..taken)
        BY <1>0, <3>1
      <3>3. 1..taken \in SUBSET (1..Len(packQ)) /\ taken \in Nat
        BY <1>0
      <3>4. packQ # <<>>
        BY <1>2, <1>t, PackQueueNonEmpty DEF PackUpload
      <3>5. UNCHANGED <<up, open, dirty, slot, data, row, staged, index,
                        scanDue, recTodo, dropDue, expect, writes>>
        BY <1>2 DEF PackUpload
      <3>6. \A i \in Idx : (\E m \in 1..taken : packQ[m].idx = i) =>
                              Sized(staged[i].cur)' /\ Resting(i)'
        BY <1>r, <3>3, <3>5
      <3> QED
        BY <2>2, <3>1, <3>2, <3>3, <3>4, <3>5, <3>6, OrderlyAnswer
    <2> QED
      BY <1>2, <2>1, <2>2 DEF PackUpload
  <1>3. CASE PackPutFails
    <2>1. /\ packPc # "idle" /\ PackPop("fail")
          /\ UNCHANGED <<up, open, dirty, slot, data, row, staged, index,
                         scanDue, recTodo, dropDue, expect, writes>>
      BY <1>3 DEF PackPutFails
    <2>2. /\ 1 \in 1..Len(packQ) /\ packQ # <<>>
          /\ {1} \in SUBSET (1..Len(packQ)) /\ Answer({1}, "fail")
          /\ packQ' \in Seq(Wires) /\ packPc' # "unstage"
          /\ \A m \in 1..Len(packQ') : /\ m + 1 \in 1..Len(packQ) \ {1}
                                       /\ packQ'[m] = packQ[m + 1]
      BY <1>t, <2>1, PopIs
    <2>3. \A i \in Idx : (\E m \in {1} : packQ[m].idx = i) =>
                            Sized(staged[i].cur)' /\ Resting(i)'
      BY <1>r, <2>1, <2>2
    <2> QED
      BY <2>1, <2>2, <2>3, OrderlyAnswer
  <1>4. CASE PackPut
    <2> DEFINE w == packQ[1]
    <2>1. /\ 1 \in 1..Len(packQ) /\ packPc' = "unstage"
          /\ row'[w.idx] = w.c
          /\ \A i \in Idx : i # w.idx => row'[i] = row[i]
          /\ UNCHANGED <<up, open, dirty, pc, slot, data, packQ, staged, index,
                         scanDue, recTodo, dropDue, expect, writes>>
      BY <1>4, PackPutCommits
    <2>2. JobsInOrder'
      <3>1. ASSUME NEW k \in Jobs, pc[k] = "unstage"
            PROVE  row'[slot[k]] = data[k]
        <4>1. slot[k] \in Idx /\ slot[k] # w.idx
          BY <2>1, <3>1, <1>t, WireAlone, ReadyTypes
        <4>2. row[slot[k]] = data[k]
          BY <3>1, <1>t DEF Orderly, JobsInOrder
        <4> QED
          BY <2>1, <4>1, <4>2
      <3> QED
        BY <2>1, <3>1, <1>t DEF Orderly, JobsInOrder, Busy, Recording
    <2>3. HeadCommitted'
      BY <2>1 DEF HeadCommitted
    <2> QED
      BY <2>1, <2>2, <2>3, <1>t
      DEF Orderly, SizesKnown, FilesInOrder, WiresInOrder,
          WireInOrder, WiresDistinct, RecoveryAlone, Numbered,
          Resting, RecordingOn, AllIdle, Sized
  <1>5. CASE PackUnstage
    <2> DEFINE w == packQ[1]
    <2>1. /\ packPc # "idle" /\ PackPop("exit")
          /\ staged'[w.idx] = NoFiles
          /\ \A i \in Idx : i # w.idx => staged'[i] = staged[i] /\ index'[i] = index[i]
          /\ UNCHANGED <<up, open, dirty, slot, data, row, scanDue, recTodo,
                         dropDue, expect, writes>>
      BY <1>5, PackUnstageClears
    <2>2. /\ packQ # <<>>
          /\ {1} \in SUBSET (1..Len(packQ)) /\ Answer({1}, "exit")
          /\ packQ' \in Seq(Wires) /\ packPc' # "unstage"
          /\ \A m \in 1..Len(packQ') : /\ m + 1 \in 1..Len(packQ) \ {1}
                                       /\ packQ'[m] = packQ[m + 1]
      BY <1>t, <2>1, PopIs
    <2>3. \A i \in Idx : (\E m \in {1} : packQ[m].idx = i) =>
                            Sized(staged[i].cur)' /\ Resting(i)'
      BY <2>1 DEF NoFiles, Sized, Resting
    <2> QED
      BY <2>1, <2>2, <2>3, OrderlyAnswer
  <1> QED
    BY <1>1, <1>2, <1>3, <1>4, <1>5 DEF PackStep

\* Crash, mount and recoverPending keep the order; a file that is unlinked is
\* none of its business.
LEMMA OrderlyMount ==
  ASSUME Ready, MountStep, live'
  PROVE  Orderly'
  <1> USE DEF handleVars, jobVars, packVars, diskVars, recVars, histVars, bounds
  <1>t. TypeOK /\ Orderly /\ Exclusive /\ live
    BY DEF Ready
  <1>0. /\ staged \in [Idx -> Files] /\ index \in [Idx -> 0..2]
        /\ recTodo \in [Idx -> 0..2]
        /\ packQ \in Seq(Wires) /\ Len(packQ) \in Nat
    BY <1>t, ReadyTypes
  <1>1. CASE Unlink \/ DropInode
    BY <1>1, <1>t DEF Unlink, DropInode, Orderly
  <1>2. CASE Crash
    <2>1. /\ up' = FALSE /\ open' = FALSE /\ dirty' = [i \in Idx |-> Empty]
          /\ pc' = [j \in Jobs |-> "none"] /\ packQ' = <<>> /\ packPc' = "idle"
          /\ recTodo' = [i \in Idx |-> 0] /\ dropDue' = FALSE
          /\ expect' = [i \in Idx |-> expect[i] \cap Survivor(i).ids]
          /\ UNCHANGED <<staged, row, writes>>
      BY <1>2 DEF Crash
    <2>2. 1..Len(packQ') = {}
      BY <2>1
    <2>3. SizesKnown' /\ FilesInOrder' /\ HeadCommitted' /\ RecoveryAlone'
      BY <2>1, <1>t DEF Orderly, SizesKnown, Sized, FilesInOrder,
                        HeadCommitted, RecoveryAlone, AllIdle
    <2>4. JobsInOrder'
      BY <2>1 DEF JobsInOrder, Busy, StagedLabels
    <2>5. WiresInOrder' /\ WiresDistinct'
      BY <2>2 DEF WiresInOrder, WiresDistinct
    <2>6. Numbered'
      BY <2>1, <1>t DEF Orderly, Numbered
    <2> QED
      BY <2>1, <2>3, <2>4, <2>5, <2>6 DEF Orderly
  <1>3. CASE Mount
    <2>1. /\ ~up /\ scanDue'
          /\ UNCHANGED <<open, dirty, pc, slot, data, packQ, packPc, row,
                         staged, index, recTodo, dropDue, expect, writes>>
      BY <1>3 DEF Mount
    <2>2. AllIdle /\ packQ = <<>> /\ \A i \in Idx : recTodo[i] = 0
      BY <2>1, <1>t DEF Orderly, RecoveryAlone
    <2> QED
      BY <2>1, <2>2, <1>t
      DEF Orderly, SizesKnown, FilesInOrder, JobsInOrder, WiresInOrder,
          WireInOrder, WiresDistinct, HeadCommitted, RecoveryAlone, Numbered,
          Recording, AllIdle, Busy, Sized
  <1>4. CASE RecoverScan
    <2>1. /\ scanDue /\ ~scanDue'
          /\ staged' = [i \in Idx |-> [cur |-> staged[i].cur, old |-> Empty]]
          /\ recTodo' = [i \in Idx |-> staged[i].cur.n]
          /\ UNCHANGED <<up, open, dirty, pc, slot, data, packQ, packPc, row,
                         index, dropDue, expect, writes>>
      BY <1>4, <1>t DEF RecoverScan
    <2>2. AllIdle /\ packQ = <<>> /\ up
      BY <2>1, <1>4, <1>t DEF Orderly, RecoveryAlone, RecoverScan
    <2>3. \A i \in Idx : /\ staged'[i].cur = staged[i].cur
                         /\ staged'[i].old = Empty
                         /\ recTodo'[i] = staged[i].cur.n
      BY <2>1
    <2>4. AllIdle'
      BY <2>1, <2>2 DEF AllIdle
    <2>5. SizesKnown'
      BY <2>1, <2>3, <1>t DEF Orderly, SizesKnown, Sized
    <2>6. FilesInOrder'
      BY <2>3, <1>t DEF Orderly, SizesKnown, Sized, FilesInOrder, Resting
    <2>7. JobsInOrder'
      BY <2>4, <1>t DEF AllIdle, JobsInOrder, Busy, StagedLabels
    <2>8. 1..Len(packQ') = {} /\ packPc = "idle"
      <3>1. Len(packQ) = 0
        BY <2>2
      <3> QED
        BY <2>1, <3>1, <1>t DEF TypeOK
    <2>9. WiresInOrder' /\ WiresDistinct' /\ HeadCommitted'
      BY <2>1, <2>8 DEF WiresInOrder, WiresDistinct, HeadCommitted
    <2>10. RecoveryAlone'
      BY <2>1, <2>2, <2>3, <2>4 DEF RecoveryAlone
    <2> QED
      BY <2>1, <2>5, <2>6, <2>7, <2>9, <2>10, <1>t DEF Orderly, Numbered
  <1>5. CASE \E i \in Idx : RecoverSubmit(i)
    <2>1. PICK i \in Idx : RecoverSubmit(i)
      BY <1>5
    <2> DEFINE c == staged[i].cur
    <2>2. /\ AllIdle /\ staged[i].old = Empty /\ c.n = recTodo[i]
          /\ recTodo[i] # 0 /\ c \in Content
      BY <2>1, <1>0, <1>t DEF Orderly, RecoveryAlone, RecoverSubmit, Files
    <2>3. FileAt(staged[i], recTodo[i]) = c /\ c # Empty
      BY <2>2 DEF FileAt, Empty
    <2> DEFINE w == WireOf(i, c, NoJob)
    <2>4. /\ recTodo' = [recTodo EXCEPT ![i] = 0]
          /\ index' = [index EXCEPT ![i] = recTodo[i]]
          /\ packQ' = Append(packQ, w) /\ up
          /\ UNCHANGED <<up, open, dirty, pc, slot, data, packPc, row,
                         staged, scanDue, dropDue, expect, writes>>
      BY <2>1, <2>3 DEF RecoverSubmit
    <2>w. w \in Wires /\ w.idx = i /\ w.c = c /\ w.job = NoJob
      BY <2>2, WireType DEF WireOf
    <2>5. /\ Len(packQ') = Len(packQ) + 1
          /\ \A m \in 1..Len(packQ) : packQ'[m] = packQ[m]
          /\ packQ'[Len(packQ) + 1] = w
      BY <1>0, <2>4, <2>w, AppendProperties
    <2> HIDE DEF w, c
    <2>m. \A m \in 1..Len(packQ') : \/ m \in 1..Len(packQ) /\ packQ'[m] = packQ[m]
                                    \/ m = Len(packQ) + 1 /\ packQ'[m] = w
      BY <1>0, <2>5
    <2>6. AllIdle' /\ ~scanDue
      BY <2>2, <2>4, <1>t DEF AllIdle, Orderly, RecoveryAlone
    <2>7. /\ recTodo'[i] = 0 /\ index'[i] = recTodo[i]
          /\ \A k \in Idx : k # i => recTodo'[k] = recTodo[k] /\ index'[k] = index[k]
      BY <1>0, <2>4
    <2>8. FilesInOrder'
      <3>1. ASSUME NEW k \in Idx
            PROVE  (Resting(k) \/ recTodo[k] # 0 \/ RecordingOn(k))'
        <4>1. CASE k = i
          BY <4>1, <2>2, <2>4, <2>7 DEF Resting, c
        <4>2. CASE k # i
          <5>1. Resting(k) \/ recTodo[k] # 0 \/ RecordingOn(k)
            BY <2>4, <2>6, <1>t DEF Orderly, FilesInOrder
          <5> QED
            BY <4>2, <5>1, <2>4, <2>7 DEF Resting, RecordingOn
        <4> QED
          BY <4>1, <4>2
      <3> QED
        BY <3>1 DEF FilesInOrder
    <2>9. JobsInOrder'
      BY <2>6 DEF AllIdle, JobsInOrder, Busy, StagedLabels
    <2>10. \A m \in 1..Len(packQ) : WireInOrder(packQ[m]) /\ packQ[m].idx \in Idx
                                    /\ packQ[m].idx # i
      BY <2>2, WireAlone DEF WireInOrder
    <2>11. WiresInOrder'
      <3> SUFFICES ASSUME NEW m \in 1..Len(packQ') PROVE WireInOrder(packQ[m])'
        BY DEF WiresInOrder
      <3>1. CASE m \in 1..Len(packQ) /\ packQ'[m] = packQ[m]
        BY <3>1, <2>4, <2>6, <2>7, <2>10 DEF WireInOrder
      <3>2. CASE packQ'[m] = w
        <4>1. w.job \notin Jobs /\ staged'[w.idx].cur = w.c
          BY <2>w, <2>4, PipelineAssumption DEF c
        <4>2. w.c.n # 0 /\ recTodo'[w.idx] = 0
          BY <2>2, <2>7, <2>w
        <4> QED
          BY <3>2, <4>1, <4>2, <2>6 DEF WireInOrder
      <3> QED
        BY <2>m, <3>1, <3>2
    <2>12. WiresDistinct'
      <3> SUFFICES ASSUME NEW m \in 1..Len(packQ'), NEW n \in 1..Len(packQ'),
                          packQ'[m].idx = packQ'[n].idx
                   PROVE  m = n
        BY DEF WiresDistinct
      <3>1. CASE m \in 1..Len(packQ) /\ n \in 1..Len(packQ)
        BY <3>1, <2>5, <1>t DEF Orderly, WiresDistinct
      <3> QED
        BY <3>1, <2>m, <2>w, <2>10
    <2>13. HeadCommitted'
      <3> SUFFICES ASSUME packPc = "unstage"
                   PROVE  row[packQ'[1].idx] = packQ'[1].c
        BY <2>4 DEF HeadCommitted
      <3>1. 1 \in 1..Len(packQ)
        BY <1>t, PackQueueNonEmpty
      <3> QED
        BY <3>1, <2>5, <1>t DEF Orderly, HeadCommitted
    <2>14. RecoveryAlone'
      BY <2>4, <2>6, <2>7, <1>t DEF Orderly, RecoveryAlone
    <2> QED
      BY <2>4, <2>8, <2>9, <2>11, <2>12, <2>13, <2>14, <1>t
      DEF Orderly, SizesKnown, Sized, Numbered
  <1> QED
    BY <1>1, <1>2, <1>3, <1>4, <1>5 DEF MountStep

\* The file is born in order.
LEMMA OrderlyInit == Init => Orderly
  <1> SUFFICES ASSUME Init PROVE Orderly
    OBVIOUS
  <1>1. 1..Len(packQ) = {} /\ packQ = <<>> /\ packPc = "idle"
    BY DEF Init
  <1>2. \A i \in Idx : /\ dirty[i] = Empty /\ staged[i] = NoFiles
                       /\ recTodo[i] = 0 /\ expect[i] = {}
    BY DEF Init
  <1>3. up /\ ~scanDue /\ ~dropDue /\ \A j \in Jobs : pc[j] = "none"
    BY DEF Init
  <1>4. SizesKnown /\ FilesInOrder
    BY <1>2 DEF SizesKnown, FilesInOrder, Sized, Resting, NoFiles
  <1>5. JobsInOrder
    BY <1>3 DEF JobsInOrder, Busy, StagedLabels
  <1>6. WiresInOrder /\ WiresDistinct /\ HeadCommitted
    BY <1>1 DEF WiresInOrder, WiresDistinct, HeadCommitted
  <1>7. RecoveryAlone /\ Numbered
    BY <1>2, <1>3 DEF RecoveryAlone, Numbered
  <1> QED
    BY <1>3, <1>4, <1>5, <1>6, <1>7 DEF Orderly

\* Every request of the handle keeps the order.
LEMMA OrderlyHandle ==
  ASSUME Ready, Plain, HandleStep
  PROVE  Orderly'
  <1> USE DEF handleVars, jobVars, packVars, diskVars, recVars, histVars, bounds
  <1>t. Orderly
    BY DEF Ready
  <1>1. CASE NewWriter \/ Close
    BY <1>1, OrderlyNewWriter, OrderlyClose
  <1>2. CASE EvictDone \/ GateCanceled \/ FlushBegin \/ SyncBegin \/ FlushEnd
             \/ SyncEnd
    <2>1. UNCHANGED <<up, open, dirty, pc, slot, data, packQ, packPc, row,
                      staged, index, scanDue, recTodo, dropDue, expect, writes>>
      BY <1>2 DEF EvictDone, GateCanceled, FlushBegin, SyncBegin, Begin,
                  FlushEnd, SyncEnd
    <2> QED
      BY <2>1, <1>t, OrderlyFrame
  <1>3. ASSUME NEW i \in Idx, EvictOne(i) \/ DispatchNext(i) PROVE Orderly'
    <2>1. UNCHANGED <<up, open, packQ, packPc, row, staged, index, scanDue,
                      recTodo, dropDue, expect, writes>>
      BY <1>3 DEF EvictOne, DispatchNext
    <2>2. CASE Dispatch(i)
      BY <2>1, <2>2, OrderlyDispatch
    <2>3. CASE UNCHANGED <<dirty, jobVars>>
      BY <2>1, <2>3, <1>t, OrderlyFrame
    <2> QED
      BY <1>3, <2>2, <2>3 DEF EvictOne, DispatchNext
  <1>4. ASSUME NEW i \in Idx, NEW n \in SizeClass, WriteAt(i, n) PROVE Orderly'
    BY <1>4, OrderlyWriteAt
  <1>5. ASSUME NEW i \in Idx, NEW k \in Idx, Overwrite(i, row[k]) PROVE FALSE
    BY <1>5 DEF Overwrite, Plain
  <1>6. ASSUME NEW k \in {0} \cup {i + 1 : i \in Idx}, Truncate(k) PROVE Orderly'
    <2>1. k \in Nat
      BY PipelineAssumption
    <2> QED
      BY <1>6, <2>1, OrderlyTruncate
  <1> QED
    BY <1>1, <1>2, <1>3, <1>4, <1>5, <1>6 DEF HandleStep

\* Every step of uploadOne keeps it.
LEMMA OrderlyJobStep ==
  ASSUME Ready, Plain, NEW j \in Jobs, JobStep(j)
  PROVE  Orderly'
  <1>1. ~JobRecordBlob(j)
    BY DEF JobRecordBlob, Ready, Orderly, JobsInOrder
  <1> QED
    BY <1>1, OrderlyStage, OrderlyRecord, OrderlyUpload, OrderlyFinish,
       OrderlyExit DEF JobStep

-----------------------------------------------------------------------------
(* What a step can do to one slot, as seen by the copies of its content. *)

Kept(i) == /\ row'[i] = row[i] /\ dirty'[i] = dirty[i]
           /\ staged'[i].cur = staged[i].cur /\ Carried(i)' = Carried(i)
Wired(i) == /\ row'[i] = row[i] /\ dirty'[i] = dirty[i]
            /\ Carried(i)' = Carried(i) /\ Carried(i) = {staged'[i].cur}
Backed(i) == /\ staged[i].cur # Empty
             /\ \/ Carried(i) = {staged[i].cur}
                \/ Carried(i) = {} /\ ~open
Committed(i) == /\ Backed(i)
                /\ row'[i] = staged[i].cur /\ dirty'[i] = dirty[i]
                /\ staged'[i].cur = staged[i].cur /\ Carried(i)' = Carried(i)
Unstaged(i) == /\ Backed(i) /\ row[i] = staged[i].cur
               /\ row'[i] = row[i] /\ dirty'[i] = dirty[i]
               /\ staged'[i].cur = Empty /\ Carried(i)' = {}
GivenBack(i) ==
    \E j \in Jobs : /\ pc[j] = "fail" /\ slot[j] = i /\ data[j] # Empty
                    /\ Carried(i) = {data[j]} /\ Carried(i)' = {}
                    /\ dirty[i] = Empty
                    /\ dirty'[i] = IF open THEN data[j] ELSE Empty
                    /\ row'[i] = row[i] /\ staged'[i].cur = staged[i].cur

\* What the goroutines and the flusher can do to a slot.
Progress(i) == Kept(i) \/ Wired(i) \/ Committed(i) \/ Unstaged(i) \/ GivenBack(i)

\* What is in every copy of a slot stays there.
LEMMA ProgressEverywhere ==
  ASSUME NEW i, NEW S, Everywhere(i, S), Progress(i)
  PROVE  Everywhere(i, S)'
  <1>1. CASE Kept(i)
    BY <1>1 DEF Everywhere, Kept
  <1>2. CASE Wired(i)
    BY <1>2 DEF Everywhere, Wired
  <1>3. CASE Committed(i)
    BY <1>3 DEF Everywhere, Committed, Backed
  <1>4. CASE Unstaged(i)
    BY <1>4 DEF Everywhere, Unstaged, Backed
  <1>5. CASE GivenBack(i)
    BY <1>5 DEF Everywhere, GivenBack
  <1> QED
    BY <1>1, <1>2, <1>3, <1>4, <1>5 DEF Progress

\* What an open handle holds it keeps.
LEMMA ProgressHeld ==
  ASSUME NEW i, NEW S, Held(i, S), open, Progress(i)
  PROVE  Held(i, S)'
  <1>1. CASE Kept(i)
    BY <1>1 DEF Held, Kept
  <1>2. CASE Wired(i)
    BY <1>2 DEF Held, Wired
  <1>3. CASE Committed(i)
    BY <1>3 DEF Held, Committed, Backed
  <1>4. CASE Unstaged(i)
    BY <1>4 DEF Held, Unstaged, Backed
  <1>5. CASE GivenBack(i)
    BY <1>5 DEF Held, GivenBack
  <1> QED
    BY <1>1, <1>2, <1>3, <1>4, <1>5 DEF Progress

\* So does a closed file, if uploads fail only with their wire staged.
LEMMA ProgressHeldClosed ==
  ASSUME NEW i, NEW S, HeldClosed(i, S), ~open, FailStaged, Progress(i)
  PROVE  HeldClosed(i, S)'
  <1>1. CASE Kept(i)
    BY <1>1 DEF HeldClosed, Survivor, Kept
  <1>2. CASE Wired(i)
    BY <1>2 DEF HeldClosed, Survivor, Wired
  <1>3. CASE Committed(i)
    BY <1>3 DEF HeldClosed, Survivor, Committed, Backed
  <1>4. CASE Unstaged(i)
    BY <1>4 DEF HeldClosed, Survivor, Unstaged, Backed
  <1>5. CASE GivenBack(i)
    BY <1>5 DEF HeldClosed, Survivor, GivenBack, FailStaged
  <1> QED
    BY <1>1, <1>2, <1>3, <1>4, <1>5 DEF Progress

\* The carried chunk of a slot depends on its busy goroutines only.
LEMMA CarriedSame ==
  ASSUME NEW i,
         \A j \in Jobs : /\ j \in BusyOn(i)' <=> j \in BusyOn(i)
                         /\ j \in BusyOn(i) => data'[j] = data[j]
  PROVE  Carried(i)' = Carried(i)
  <1>1. BusyOn(i) \subseteq Jobs /\ BusyOn(i)' \subseteq Jobs
    BY DEF BusyOn
  <1> QED
    BY <1>1 DEF Carried

\* A slot's only goroutine carries its chunk.
LEMMA CarriedOne ==
  ASSUME Exclusive, NEW j \in Jobs, Busy(j), NEW i, i = slot[j]
  PROVE  Carried(i) = {data[j]}
  <1>1. BusyOn(i) = {j}
    BY DEF BusyOn, Busy, Exclusive, OneJobPerSlot, Running
  <1> QED
    BY <1>1 DEF Carried

\* A slot without a busy goroutine carries none.
LEMMA CarriedNone ==
  ASSUME NEW i, \A j \in Jobs : slot[j] = i => ~Busy(j)
  PROVE  Carried(i) = {}
  BY DEF Carried, BusyOn

\* A goroutine's step changes what its own slot carries, and that only when it
\* is done with the chunk.
LEMMA GotoCarried ==
  ASSUME Ready, NEW j \in Jobs, NEW l, Goto(j, l), UNCHANGED <<slot, data>>
  PROVE  /\ \A i \in Idx : i # slot[j] => Carried(i)' = Carried(i)
         /\ Busy(j) /\ l \notin {"none", "exit"} =>
               \A i \in Idx : Carried(i)' = Carried(i)
         /\ Busy(j) /\ l = "exit" => Carried(slot[j])' = {}
  <1>t. TypeOK /\ Exclusive
    BY DEF Ready
  <1>0. /\ pc'[j] = l /\ \A k \in Jobs : k # j => pc'[k] = pc[k]
    BY <1>t DEF Goto, TypeOK
  <1>1. ASSUME NEW i \in Idx, i # slot[j] PROVE Carried(i)' = Carried(i)
    BY <1>0, <1>1, CarriedSame DEF BusyOn, Busy
  <1>2. ASSUME Busy(j), l \notin {"none", "exit"}, NEW i \in Idx
        PROVE  Carried(i)' = Carried(i)
    BY <1>0, <1>2, CarriedSame DEF BusyOn, Busy
  <1>3. ASSUME Busy(j), l = "exit" PROVE Carried(slot[j])' = {}
    <2>1. \A k \in Jobs : slot[k] = slot[j] => ~Busy(k)'
      BY <1>0, <1>3, <1>t DEF Busy, Exclusive, OneJobPerSlot, Running
    <2> QED
      BY <2>1 DEF Carried, BusyOn
  <1> QED
    BY <1>1, <1>2, <1>3

\* What uploadOne does to a slot.
LEMMA JobProgress ==
  ASSUME Ready, Plain, NEW j \in Jobs, JobStep(j), NEW i \in Idx
  PROVE  Progress(i)
  <1> USE DEF handleVars, jobVars, packVars, diskVars, recVars, histVars, bounds
  <1>t. TypeOK /\ Orderly /\ Exclusive /\ live
    BY DEF Ready
  <1>0. slot[j] \in Idx /\ data[j] \in Content /\ staged \in [Idx -> Files]
        /\ row \in [Idx -> Content] /\ dirty \in [Idx -> Content]
        /\ \A k \in Idx : staged[k] \in Files
    BY <1>t, ReadyTypes
  <1>b. ASSUME Busy(j), i = slot[j] PROVE Carried(i) = {data[j]}
    BY <1>b, <1>t, CarriedOne
  <1>e. Busy(j) => data[j] # Empty
    BY <1>t DEF Orderly, JobsInOrder, Empty
  <1>1. CASE JobDedup(j) \/ JobAcquireSem(j) \/ JobUpload(j)
    <2>1. PICK l : Goto(j, l) /\ l \notin {"none", "exit"}
      BY <1>1 DEF JobDedup, JobAcquireSem, JobUpload, Plain
    <2>2. UNCHANGED <<slot, data, row, dirty, staged>> /\ Busy(j)
      BY <1>1 DEF JobDedup, JobAcquireSem, JobUpload, Plain, Busy
    <2>3. Carried(i)' = Carried(i)
      BY <2>1, <2>2, GotoCarried
    <2> QED
      BY <2>2, <2>3 DEF Progress, Kept
  <1>2. CASE JobStage(j)
    <2>1. UNCHANGED <<slot, data, row, dirty>> /\ Busy(j)
      BY <1>2 DEF JobStage, Busy
    <2>2. PICK l : Goto(j, l) /\ l \notin {"none", "exit"}
      BY <1>2 DEF JobStage
    <2>3. Carried(i)' = Carried(i)
      BY <2>1, <2>2, GotoCarried
    <2>4. CASE UNCHANGED staged
      BY <2>1, <2>3, <2>4 DEF Progress, Kept
    <2>5. CASE staged' = [staged EXCEPT ![slot[j]] = PersistPending(@, data[j])]
      <3>1. CASE i # slot[j]
        BY <2>1, <2>3, <2>5, <3>1, <1>0 DEF Progress, Kept
      <3>2. CASE i = slot[j]
        <4>1. staged'[i].cur = data[j]
          BY <2>5, <3>2, <1>0 DEF PersistPending
        <4> QED
          BY <4>1, <2>1, <2>3, <3>2, <1>b DEF Progress, Wired
      <3> QED
        BY <3>1, <3>2
    <2> QED
      BY <1>2, <2>4, <2>5 DEF JobStage
  <1>3. CASE JobRecord(j)
    <2>1. UNCHANGED <<slot, data, row, dirty>> /\ Busy(j) /\ pc[j] = "record"
      BY <1>3 DEF JobRecord, Busy
    <2>2. PICK l : Goto(j, l) /\ l \notin {"none", "exit"}
      BY <1>3 DEF JobRecord
    <2>3. Carried(i)' = Carried(i)
      BY <2>1, <2>2, GotoCarried
    <2>4. staged'[i].cur = staged[i].cur
      <3>1. CASE i = slot[j]
        <4>1. staged[i].cur = data[j]
          BY <2>1, <3>1, <1>t DEF Orderly, JobsInOrder, Recording
        <4>2. staged'[i] = [cur |-> data[j], old |-> Empty]
          BY <1>3, <3>1, RecordClears
        <4> QED
          BY <4>1, <4>2
      <3>2. CASE i # slot[j]
        BY <1>3, <3>2, RecordClears
      <3> QED
        BY <3>1, <3>2
    <2> QED
      BY <2>1, <2>3, <2>4 DEF Progress, Kept
  <1>4. CASE JobPutChunk(j)
    <2>1. UNCHANGED <<slot, data, staged, dirty>> /\ Busy(j) /\ pc[j] = "put"
      BY <1>4, <1>t DEF JobPutChunk, Busy
    <2>2. PICK l : Goto(j, l) /\ l \notin {"none", "exit"}
      BY <1>4, <1>t DEF JobPutChunk
    <2>3. Carried(i)' = Carried(i)
      BY <2>1, <2>2, GotoCarried
    <2>4. CASE row'[i] = row[i]
      BY <2>1, <2>3, <2>4 DEF Progress, Kept
    <2>5. CASE row' = [row EXCEPT ![slot[j]] = data[j]]
      <3>1. CASE i = slot[j]
        <4>1. staged[i].cur = data[j] /\ row'[i] = data[j]
          BY <2>1, <2>5, <3>1, <1>0, <1>t DEF Orderly, JobsInOrder, StagedLabels
        <4>2. Backed(i)
          BY <4>1, <2>1, <3>1, <1>b, <1>e DEF Backed
        <4> QED
          BY <4>1, <4>2, <2>1, <2>3 DEF Progress, Committed
      <3> QED
        BY <3>1, <2>4, <2>5, <1>0
    <2> QED
      BY <1>4, <1>t, <2>4, <2>5 DEF JobPutChunk, PutRow
  <1>5. CASE JobUnstage(j)
    <2>1. /\ UNCHANGED <<slot, data, row, dirty>> /\ Busy(j)
          /\ pc[j] = "unstage" /\ Goto(j, "exit")
      BY <1>5, UnstageClears DEF JobUnstage, Busy
    <2>2. CASE i # slot[j]
      <3>1. staged'[i] = staged[i]
        BY <1>5, <2>2, UnstageClears
      <3>2. Carried(i)' = Carried(i)
        BY <2>1, <2>2, GotoCarried
      <3> QED
        BY <2>1, <3>1, <3>2 DEF Progress, Kept
    <2>3. CASE i = slot[j]
      <3>1. staged'[i].cur = Empty /\ row[i] = data[j]
        BY <1>5, <2>3, UnstageClears DEF NoFiles
      <3>2. staged[i].cur = data[j]
        BY <2>1, <2>3, <1>t DEF Orderly, JobsInOrder, StagedLabels
      <3>3. Carried(i)' = {}
        BY <2>1, <2>3, GotoCarried
      <3>4. Backed(i)
        BY <3>2, <2>1, <2>3, <1>b, <1>e DEF Backed
      <3> QED
        BY <2>1, <3>1, <3>2, <3>3, <3>4 DEF Progress, Unstaged
    <2> QED
      BY <2>2, <2>3
  <1>6. CASE JobRestore(j)
    <2>1. /\ UNCHANGED <<slot, data, row, staged, open>> /\ Busy(j)
          /\ pc[j] = "fail" /\ Goto(j, "exit")
          /\ dirty' = IF open /\ dirty[slot[j]] = Empty
                      THEN [dirty EXCEPT ![slot[j]] = data[j]] ELSE dirty
      BY <1>6 DEF JobRestore, Busy
    <2>2. CASE i # slot[j]
      <3>1. dirty'[i] = dirty[i]
        BY <2>1, <2>2, <1>0
      <3>2. Carried(i)' = Carried(i)
        BY <2>1, <2>2, GotoCarried
      <3> QED
        BY <2>1, <3>1, <3>2 DEF Progress, Kept
    <2>3. CASE i = slot[j]
      <3>1. dirty[i] = Empty
        BY <2>1, <2>3, JobAlone
      <3>2. dirty'[i] = IF open THEN data[j] ELSE Empty
        BY <2>1, <2>3, <3>1, <1>0
      <3>3. Carried(i)' = {} /\ Carried(i) = {data[j]}
        BY <2>1, <2>3, <1>b, GotoCarried
      <3>4. GivenBack(i)
        BY <2>1, <2>3, <3>1, <3>2, <3>3, <1>e DEF GivenBack
      <3> QED
        BY <3>4 DEF Progress
    <2> QED
      BY <2>2, <2>3
  <1>7. CASE JobExit(j)
    <2>1. /\ pc[j] = "exit" /\ Goto(j, "none")
          /\ slot' = [slot EXCEPT ![j] = HomeSlot]
          /\ data' = [data EXCEPT ![j] = Empty]
          /\ UNCHANGED <<row, staged, dirty>>
      BY <1>7 DEF JobExit
    <2>2. ~Busy(j) /\ ~Busy(j)' /\ \A k \in Jobs : k # j =>
              pc'[k] = pc[k] /\ slot'[k] = slot[k] /\ data'[k] = data[k]
      BY <2>1, <1>t DEF Busy, Goto, TypeOK
    <2>3. Carried(i)' = Carried(i)
      BY <2>2, CarriedSame DEF BusyOn, Busy
    <2> QED
      BY <2>1, <2>3 DEF Progress, Kept
  <1>8. ~JobRecordBlob(j)
    BY <1>t DEF JobRecordBlob, Orderly, JobsInOrder
  <1> QED
    BY <1>1, <1>2, <1>3, <1>4, <1>5, <1>6, <1>7, <1>8 DEF JobStep

\* What the flusher does to a slot.
LEMMA PackProgress ==
  ASSUME Ready, PackStep, NEW i \in Idx
  PROVE  Progress(i)
  <1> USE DEF handleVars, jobVars, packVars, diskVars, recVars, histVars, bounds
  <1>t. TypeOK /\ Orderly /\ Exclusive /\ live
    BY DEF Ready
  <1>0. pc \in [Jobs -> Labels] /\ Len(packQ) \in Nat /\ taken \in 0..Len(packQ)
    BY <1>t, ReadyTypes DEF TypeOK
  <1>f. ASSUME NEW S \in SUBSET (1..Len(packQ)), Answer(S, "fail"),
               UNCHANGED <<slot, data, row, dirty, staged>>
        PROVE  Progress(i)
    <2>1. \A j \in Jobs : \/ pc'[j] = pc[j]
                          \/ pc[j] = "packwait" /\ pc'[j] = "fail"
      BY <1>f, <1>0, <1>t DEF Answer, Exclusive, WaitersWait
    <2>2. Carried(i)' = Carried(i)
      BY <2>1, <1>f, CarriedSame DEF BusyOn, Busy
    <2> QED
      BY <2>2, <1>f DEF Progress, Kept
  <1>k. ASSUME UNCHANGED <<pc, slot, data, row, dirty, staged>>
        PROVE  Progress(i)
    <2>1. Carried(i)' = Carried(i)
      BY <1>k, CarriedSame DEF BusyOn, Busy
    <2> QED
      BY <2>1, <1>k DEF Progress, Kept
  <1>1. CASE PackTake
    BY <1>1, <1>k DEF PackTake
  <1>2. CASE PackUpload
    <2>1. 1..taken \in SUBSET (1..Len(packQ))
      BY <1>0
    <2> QED
      BY <1>2, <1>f, <1>k, <2>1 DEF PackUpload
  <1>3. CASE PackPutFails
    <2>1. {1} \in SUBSET (1..Len(packQ)) /\ Answer({1}, "fail")
      BY <1>3, <1>t, PopIs DEF PackPutFails
    <2> QED
      BY <1>3, <1>f, <2>1 DEF PackPutFails
  <1> DEFINE w == packQ[1]
  <1>b. ASSUME 1 \in 1..Len(packQ), i = w.idx
        PROVE  Backed(i) /\ staged[i].cur = w.c
    <2>1. staged[i].cur = w.c /\ w.c.n # 0
      BY <1>b, WireAlone DEF WireInOrder
    <2>2. CASE w.job \in Jobs
      <3>1. Busy(w.job) /\ slot[w.job] = i /\ data[w.job] = w.c
        BY <1>b, <2>2, WireAlone DEF Busy
      <3>2. Carried(i) = {w.c}
        BY <2>2, <3>1, <1>t, CarriedOne
      <3> QED
        BY <2>1, <3>2 DEF Backed, Empty
    <2>3. CASE w.job \notin Jobs
      <3>1. AllIdle
        BY <1>b, <2>3, WireAlone
      <3>2. Carried(i) = {}
        BY <3>1, CarriedNone DEF AllIdle, Busy
      <3> QED
        BY <2>1, <3>1, <3>2 DEF Backed, Empty, AllIdle
    <2> QED
      BY <2>2, <2>3
  <1>4. CASE PackPut
    <2>1. /\ 1 \in 1..Len(packQ) /\ row'[w.idx] = w.c
          /\ i # w.idx => row'[i] = row[i]
          /\ UNCHANGED <<dirty, pc, slot, data, staged>>
      BY <1>4, PackPutCommits
    <2>2. Carried(i)' = Carried(i)
      BY <2>1, CarriedSame DEF BusyOn, Busy
    <2>3. CASE i = w.idx
      BY <2>1, <2>2, <2>3, <1>b DEF Progress, Committed
    <2>4. CASE i # w.idx
      BY <2>1, <2>2, <2>4 DEF Progress, Kept
    <2> QED
      BY <2>3, <2>4
  <1>5. CASE PackUnstage
    <2>1. /\ 1 \in 1..Len(packQ) /\ row[w.idx] = w.c /\ PackPop("exit")
          /\ staged'[w.idx] = NoFiles /\ packPc = "unstage"
          /\ i # w.idx => staged'[i] = staged[i]
          /\ UNCHANGED <<dirty, slot, data, row>>
      BY <1>5, PackUnstageClears
    <2>2. \A j \in Jobs : pc'[j] = IF w.job = j THEN "exit" ELSE pc[j]
      BY <2>1 DEF PackPop, Answer
    <2>a. \A j \in Jobs : w.job = j => slot[j] = w.idx
      BY <2>1, WireAlone
    <2>3. CASE i = w.idx
      <3>1. \A j \in Jobs : slot'[j] = i => ~Busy(j)'
        <4> SUFFICES ASSUME NEW j \in Jobs, slot'[j] = i, Busy(j)' PROVE FALSE
          OBVIOUS
        <4>1. w.job # j /\ pc[j] # "none"
          BY <2>2 DEF Busy
        <4>2. slot[j] # w.idx
          BY <2>1, <4>1, WireAlone
        <4> QED
          BY <4>2, <2>1, <2>3
      <3>2. Carried(i)' = {}
        BY <3>1 DEF Carried, BusyOn
      <3> QED
        BY <2>1, <2>3, <3>2, <1>b DEF Progress, Unstaged, NoFiles
    <2>4. CASE i # w.idx
      <3>1. Carried(i)' = Carried(i)
        BY <2>1, <2>2, <2>4, <2>a, CarriedSame DEF BusyOn, Busy
      <3> QED
        BY <2>1, <2>4, <3>1 DEF Progress, Kept
    <2> QED
      BY <2>3, <2>4
  <1> QED
    BY <1>1, <1>2, <1>3, <1>4, <1>5 DEF PackStep

\* Neither the goroutines nor the flusher touch the handle's history.
LEMMA WorkersQuiet ==
  ASSUME PackStep \/ \E j \in Jobs : JobStep(j)
  PROVE  UNCHANGED <<live, open, op, todo, settled, since, expect, synced>>
  BY DEF PackStep, PackTake, PackUpload, PackPutFails, PackPut, PackUnstage,
         JobStep, JobDedup, JobStage, JobRecord, JobAcquireSem, JobUpload,
         JobPutChunk, JobUnstage, JobRecordBlob, JobRestore, JobExit,
         handleVars, histVars

Written(i) == /\ Carried(i) = {} /\ Carried(i)' = {}
              /\ row'[i] = row[i] /\ staged'[i].cur = staged[i].cur
              /\ dirty'[i] # Empty
              /\ dirty'[i].ids = LoadForWrite(i).ids \cup {writes + 1}
Sent(i) == /\ dirty[i] # Empty /\ dirty'[i] = Empty
           /\ Carried(i)' = {dirty[i]}
           /\ row'[i] = row[i] /\ staged'[i].cur = staged[i].cur

\* What a request of the open handle can do to a slot, and to what is expected
\* of it.
Requested(i) ==
    \/ Kept(i) /\ expect'[i] = expect[i]
    \/ Sent(i) /\ expect'[i] = expect[i]
    \/ Written(i) /\ expect'[i] = expect[i] \cup {writes + 1}
    \/ expect'[i] = {} /\ synced'[i] = {}

\* What is in every copy stays there under a request, too.
LEMMA RequestEverywhere ==
  ASSUME NEW i, NEW S, Everywhere(i, S), Kept(i) \/ Sent(i) \/ Written(i)
  PROVE  Everywhere(i, S)'
  <1>1. CASE Kept(i)
    BY <1>1 DEF Everywhere, Kept
  <1>2. CASE Sent(i)
    BY <1>2 DEF Everywhere, Sent
  <1>3. CASE Written(i)
    BY <1>3 DEF Everywhere, Written, LoadForWrite
  <1> QED
    BY <1>1, <1>2, <1>3

\* A request keeps what the handle holds, and a write adds itself.
LEMMA RequestHeld ==
  ASSUME NEW i, NEW S, NEW T, Held(i, S),
         \/ Kept(i) /\ T \subseteq S
         \/ Sent(i) /\ T \subseteq S
         \/ Written(i) /\ T \subseteq S \cup {writes + 1}
         \/ T = {}
  PROVE  Held(i, T)'
  <1>1. CASE Kept(i) /\ T \subseteq S
    BY <1>1 DEF Held, Kept
  <1>2. CASE Sent(i) /\ T \subseteq S
    BY <1>2 DEF Held, Sent
  <1>3. CASE Written(i) /\ T \subseteq S \cup {writes + 1}
    <2>1. S \subseteq LoadForWrite(i).ids
      BY <1>3 DEF Held, Written, LoadForWrite
    <2> QED
      BY <1>3, <2>1 DEF Held, Written
  <1>4. CASE T = {}
    BY <1>4 DEF Held
  <1> QED
    BY <1>1, <1>2, <1>3, <1>4

\* Steps that touch no copy of a slot.
LEMMA KeptFrame ==
  ASSUME NEW i, UNCHANGED <<pc, slot, data>>, row'[i] = row[i],
         dirty'[i] = dirty[i], staged'[i].cur = staged[i].cur
  PROVE  Kept(i)
  <1>1. Carried(i)' = Carried(i)
    BY CarriedSame DEF BusyOn, Busy
  <1> QED
    BY <1>1 DEF Kept

\* dispatchFlushLocked hands the dirty chunk to the goroutine.
LEMMA DispatchSends ==
  ASSUME Ready, NEW k \in Idx, Dispatch(k), UNCHANGED <<row, staged>>,
         NEW i \in Idx
  PROVE  IF i = k THEN Sent(i) ELSE Kept(i)
  <1>t. TypeOK /\ Exclusive
    BY DEF Ready
  <1>0. /\ pc \in [Jobs -> Labels] /\ slot \in [Jobs -> Idx]
        /\ data \in [Jobs -> Content] /\ dirty \in [Idx -> Content]
    BY <1>t DEF TypeOK
  <1>1. PICK j \in Jobs : /\ pc[j] = "none"
                          /\ pc' = [pc EXCEPT ![j] = "start"]
                          /\ slot' = [slot EXCEPT ![j] = k]
                          /\ data' = [data EXCEPT ![j] = dirty[k]]
    BY DEF Dispatch
  <1>2. dirty[k] # Empty /\ dirty' = [dirty EXCEPT ![k] = Empty]
    BY DEF Dispatch
  <1>3. /\ pc'[j] = "start" /\ data'[j] = dirty[k] /\ slot'[j] = k
        /\ \A h \in Jobs : h # j => /\ pc'[h] = pc[h] /\ slot'[h] = slot[h]
                                    /\ data'[h] = data[h]
    BY <1>0, <1>1
  <1>4. CASE i = k
    <2>1. \A h \in Jobs : slot[h] = i => ~Busy(h)
      BY <1>2, <1>4, <1>t DEF Exclusive, DirtyIsIdle, Running, Busy
    <2>2. BusyOn(i)' = {j}
      BY <1>3, <1>4, <2>1 DEF BusyOn, Busy
    <2>3. Carried(i)' = {dirty[i]}
      BY <1>3, <1>4, <2>2 DEF Carried
    <2> QED
      BY <1>0, <1>2, <1>4, <2>3 DEF Sent
  <1>5. CASE i # k
    <2>1. Carried(i)' = Carried(i)
      BY <1>1, <1>3, <1>5, CarriedSame DEF BusyOn, Busy
    <2> QED
      BY <1>0, <1>2, <1>5, <2>1 DEF Kept
  <1> QED
    BY <1>4, <1>5

\* What the requests of the open handle do to a slot.
LEMMA RequestMoves ==
  ASSUME Ready, Plain, HandleStep, open' = open, NEW i \in Idx
  PROVE  /\ Requested(i) /\ since' = since
         /\ \/ synced'[i] = synced[i]
            \/ synced'[i] = {} /\ expect'[i] = {}
            \/ SyncEnd
  <1> USE DEF handleVars, jobVars, packVars, diskVars, recVars, histVars, bounds
  <1>t. TypeOK /\ Orderly /\ Exclusive /\ live
    BY DEF Ready
  <1>0. /\ expect \in [Idx -> SUBSET Writes] /\ dirty \in [Idx -> Content]
        /\ open \in BOOLEAN
    BY <1>t DEF TypeOK
  <1> DEFINE Goal == /\ Requested(i) /\ since' = since
                     /\ \/ synced'[i] = synced[i]
                        \/ synced'[i] = {} /\ expect'[i] = {}
                        \/ SyncEnd
  <1>n. ~NewWriter /\ ~Close
    BY <1>0 DEF NewWriter, Close
  <1>2. CASE EvictDone \/ GateCanceled \/ FlushBegin \/ SyncBegin \/ FlushEnd
             \/ SyncEnd
    <2>1. UNCHANGED <<dirty, pc, slot, data, row, staged, since, expect>>
      BY <1>2 DEF EvictDone, GateCanceled, FlushBegin, SyncBegin, Begin,
                  FlushEnd, SyncEnd
    <2>3. synced' = synced \/ SyncEnd
      BY <1>2 DEF EvictDone, GateCanceled, FlushBegin, SyncBegin, Begin,
                  FlushEnd
    <2>2. Kept(i)
      BY <2>1, KeptFrame
    <2> QED
      BY <2>1, <2>2, <2>3 DEF Requested
  <1>3. ASSUME NEW k \in Idx, EvictOne(k) \/ DispatchNext(k) PROVE Goal
    <2>1. UNCHANGED <<row, staged, since, expect, synced>>
      BY <1>3 DEF EvictOne, DispatchNext
    <2>2. CASE Dispatch(k)
      <3>1. Sent(i) \/ Kept(i)
        BY <2>1, <2>2, DispatchSends
      <3> QED
        BY <2>1, <3>1 DEF Requested
    <2>3. CASE UNCHANGED <<dirty, jobVars>>
      <3>1. Kept(i)
        BY <2>1, <2>3, KeptFrame
      <3> QED
        BY <2>1, <3>1 DEF Requested
    <2> QED
      BY <1>3, <2>2, <2>3 DEF EvictOne, DispatchNext
  <1>4. ASSUME NEW k \in Idx, NEW n \in SizeClass, WriteAt(k, n) PROVE Goal
    <2> DEFINE c == [ids |-> LoadForWrite(k).ids \cup {writes + 1},
                     n |-> Larger(LoadForWrite(k).n, n)]
    <2>1. /\ dirty' = [dirty EXCEPT ![k] = c] /\ open /\ Loadable(k)
          /\ expect' = [expect EXCEPT ![k] = @ \cup {writes + 1}]
          /\ UNCHANGED <<pc, slot, data, row, staged, since, synced>>
      BY <1>4 DEF WriteAt
    <2>2. c.ids = LoadForWrite(k).ids \cup {writes + 1} /\ c # Empty
      BY DEF Empty
    <2> HIDE DEF c
    <2>3. CASE i # k
      <3>1. Kept(i) /\ expect'[i] = expect[i]
        BY <1>0, <2>1, <2>3, KeptFrame
      <3> QED
        BY <2>1, <3>1 DEF Requested
    <2>4. CASE i = k
      <3>1. \A j \in Jobs : slot[j] = i => ~Busy(j)
        BY <2>1, <2>4, <1>t DEF Loadable, Exclusive, DirtyIsIdle,
                                RunningTracked, Running, Busy
      <3>2. Carried(i) = {}
        BY <3>1, CarriedNone
      <3>3. Carried(i)' = Carried(i)
        BY <2>1, CarriedSame DEF BusyOn, Busy
      <3>4. dirty'[i] = c /\ expect'[i] = expect[i] \cup {writes + 1}
        BY <1>0, <2>1, <2>4
      <3>5. Written(i)
        BY <2>1, <2>2, <2>4, <3>2, <3>3, <3>4 DEF Written
      <3> QED
        BY <2>1, <3>4, <3>5 DEF Requested
    <2> QED
      BY <2>3, <2>4
  <1>5. ASSUME NEW h \in Idx, NEW k \in Idx, Overwrite(h, row[k]) PROVE FALSE
    BY <1>5 DEF Overwrite, Plain
  <1>6. ASSUME NEW k \in {0} \cup {h + 1 : h \in Idx}, Truncate(k) PROVE Goal
    <2>1. UNCHANGED <<pc, slot, data, staged, since>>
      BY <1>6 DEF Truncate
    <2>2. CASE i < k
      <3>1. /\ dirty'[i] = dirty[i] /\ row'[i] = row[i]
            /\ expect'[i] = expect[i] /\ synced'[i] = synced[i]
        BY <1>6, <2>2 DEF Truncate
      <3>2. Kept(i)
        BY <2>1, <3>1, KeptFrame
      <3> QED
        BY <2>1, <3>1, <3>2 DEF Requested
    <2>3. CASE ~(i < k)
      <3>1. expect'[i] = {} /\ synced'[i] = {}
        BY <1>6, <2>3 DEF Truncate
      <3> QED
        BY <2>1, <3>1 DEF Requested
    <2> QED
      BY <2>2, <2>3
  <1> QED
    BY <1>n, <1>2, <1>3, <1>4, <1>5, <1>6 DEF HandleStep

\* The goroutines and the flusher keep what was promised.
LEMMA PromisedWorkers ==
  ASSUME Ready, Plain, Promised, PackStep \/ \E j \in Jobs : JobStep(j)
  PROVE  Promised'
  <1>1. UNCHANGED <<open, op, since, expect, synced>>
    BY WorkersQuiet
  <1>2. \A i \in Idx : Progress(i)
    BY PackProgress, JobProgress
  <1>3. SyncedEverywhere'
    <2> SUFFICES ASSUME NEW i \in Idx PROVE Everywhere(i, synced[i])'
      BY DEF SyncedEverywhere
    <2>1. \A S : S = synced[i] => Everywhere(i, S)'
      BY <1>2, ProgressEverywhere DEF Promised, SyncedEverywhere
    <2> QED
      BY <1>1, <2>1 DEF Everywhere
  <1>4. MineHeld'
    <2> SUFFICES ASSUME NEW i \in Idx, open PROVE Held(i, Mine(i))'
      BY <1>1 DEF MineHeld
    <2>1. \A S : S = Mine(i) => Held(i, S)'
      BY <1>2, ProgressHeld DEF Promised, MineHeld
    <2>2. Mine(i)' = Mine(i)
      BY <1>1 DEF Mine
    <2> QED
      BY <2>1, <2>2 DEF Held
  <1> QED
    BY <1>1, <1>3, <1>4 DEF Promised, RequestOpen

\* A Sync that succeeds has found every write of the handle in its row.
LEMMA SyncCovers ==
  ASSUME Ready, Promised, SyncEnd, NEW i \in Idx
  PROVE  Everywhere(i, synced[i])'
  <1> USE DEF handleVars, jobVars, packVars, diskVars, recVars, histVars, bounds
  <1>1. /\ UNCHANGED <<dirty, pc, slot, data, row, staged>>
        /\ \A j \in Jobs : pc[j] = "none"
        /\ open
    BY DEF SyncEnd, Promised, RequestOpen
  <1>2. Everywhere(i, synced[i]) /\ Held(i, Mine(i))
    BY <1>1 DEF Promised, SyncedEverywhere, MineHeld
  <1>3. CASE synced' = synced
    BY <1>1, <1>2, <1>3 DEF Everywhere, Carried, BusyOn, Busy
  <1>4. CASE DirtySlots = {} /\ synced' = [k \in Idx |-> synced[k] \cup Mine(k)]
    <2>1. dirty[i] = Empty /\ dirty'[i] = Empty
      BY <1>1, <1>4 DEF DirtySlots
    <2>2. Carried(i) = {} /\ Carried(i)' = {}
      BY <1>1 DEF Carried, BusyOn, Busy
    <2>3. Mine(i) \subseteq row[i].ids /\ (staged[i].cur # Empty => Mine(i) = {})
      BY <1>2, <2>1, <2>2 DEF Held
    <2>4. /\ synced[i] \subseteq row[i].ids
          /\ staged[i].cur # Empty => synced[i] \subseteq staged[i].cur.ids
      BY <1>2 DEF Everywhere
    <2>5. synced'[i] = synced[i] \cup Mine(i)
      BY <1>4
    <2> QED
      BY <1>1, <2>1, <2>2, <2>3, <2>4, <2>5 DEF Everywhere
  <1> QED
    BY <1>3, <1>4 DEF SyncEnd

\* Which requests leave the handle busy.
LEMMA RequestOpenHandle ==
  ASSUME RequestOpen, HandleStep
  PROVE  RequestOpen'
  <1> USE DEF handleVars, RequestOpen
  <1>1. CASE NewWriter \/ EvictDone \/ GateCanceled \/ FlushBegin \/ SyncBegin
             \/ FlushEnd \/ SyncEnd \/ Close
    BY <1>1 DEF NewWriter, EvictDone, GateCanceled, FlushBegin, SyncBegin,
                Begin, FlushEnd, SyncEnd, Close
  <1>2. ASSUME NEW i \in Idx, EvictOne(i) \/ DispatchNext(i) PROVE RequestOpen'
    BY <1>2 DEF EvictOne, DispatchNext
  <1>3. ASSUME NEW i \in Idx, NEW n \in SizeClass, WriteAt(i, n)
        PROVE  RequestOpen'
    BY <1>3 DEF WriteAt
  <1>4. ASSUME NEW i \in Idx, NEW k \in Idx, Overwrite(i, row[k])
        PROVE  RequestOpen'
    BY <1>4 DEF Overwrite
  <1>5. ASSUME NEW k, Truncate(k) PROVE RequestOpen'
    BY <1>5 DEF Truncate
  <1> QED
    BY <1>1, <1>2, <1>3, <1>4, <1>5 DEF HandleStep

\* The requests of the handle keep what was promised.
LEMMA PromisedHandle ==
  ASSUME Ready, Plain, Promised, HandleStep
  PROVE  Promised'
  <1> USE DEF handleVars, jobVars, packVars, diskVars, recVars, histVars, bounds
  <1>t. TypeOK /\ Orderly
    BY DEF Ready
  <1>o. RequestOpen'
    BY RequestOpenHandle DEF Promised
  <1>1. CASE NewWriter
    <2>1. /\ UNCHANGED <<dirty, pc, slot, data, row, staged, expect, synced>>
          /\ since' = writes
      BY <1>1 DEF NewWriter
    <2>2. SyncedEverywhere'
      BY <2>1 DEF Promised, SyncedEverywhere, Everywhere, Carried, BusyOn, Busy
    <2>3. \A i \in Idx : Mine(i)' = {}
      <3> SUFFICES ASSUME NEW i \in Idx, NEW w \in expect[i], w > writes
                   PROVE  FALSE
        BY <2>1 DEF Mine
      <3>1. w \in Nat /\ writes \in Nat
        BY <1>t, PipelineAssumption DEF TypeOK, Writes
      <3>2. w <= writes
        BY <1>t DEF Orderly, Numbered
      <3> QED
        BY <3>1, <3>2
    <2>4. MineHeld'
      BY <2>3 DEF MineHeld, Held
    <2> QED
      BY <1>o, <2>2, <2>4 DEF Promised
  <1>2. CASE Close
    <2>1. /\ UNCHANGED <<pc, slot, data, row, staged, synced>> /\ ~open'
          /\ dirty' = [i \in Idx |-> Empty]
      BY <1>2 DEF Close
    <2>2. SyncedEverywhere'
      BY <2>1 DEF Promised, SyncedEverywhere, Everywhere, Carried, BusyOn, Busy
    <2> QED
      BY <1>o, <2>1, <2>2 DEF Promised, MineHeld
  <1>3. CASE open' = open
    <2>1. SyncedEverywhere'
      <3> SUFFICES ASSUME NEW i \in Idx PROVE Everywhere(i, synced[i])'
        BY DEF SyncedEverywhere
      <3>1. /\ Requested(i)
            /\ \/ synced'[i] = synced[i]
               \/ synced'[i] = {}
               \/ SyncEnd
        BY <1>3, RequestMoves
      <3>2. CASE SyncEnd
        BY <3>2, SyncCovers
      <3>3. CASE synced'[i] = {}
        BY <3>3 DEF Everywhere
      <3>4. CASE synced'[i] = synced[i] /\ (Kept(i) \/ Sent(i) \/ Written(i))
        <4>1. \A S : S = synced[i] => Everywhere(i, S)'
          BY <3>4, RequestEverywhere DEF Promised, SyncedEverywhere
        <4> QED
          BY <3>4, <4>1 DEF Everywhere
      <3> QED
        BY <3>1, <3>2, <3>3, <3>4 DEF Requested
    <2>2. MineHeld'
      <3> SUFFICES ASSUME NEW i \in Idx, open PROVE Held(i, Mine(i))'
        BY <1>3 DEF MineHeld
      <3>1. Requested(i) /\ since' = since
        BY <1>3, RequestMoves
      <3>2. Held(i, Mine(i))
        BY DEF Promised, MineHeld
      <3> DEFINE T == {w \in expect'[i] : w > since}
      <3>3. \/ (Kept(i) \/ Sent(i)) /\ T \subseteq Mine(i)
            \/ Written(i) /\ T \subseteq Mine(i) \cup {writes + 1}
            \/ T = {}
        BY <3>1 DEF Requested, Mine
      <3>4. Mine(i)' = T
        BY <3>1 DEF Mine
      <3> HIDE DEF T
      <3>5. \A S : S = T => Held(i, S)'
        BY <3>2, <3>3, RequestHeld
      <3> QED
        BY <3>4, <3>5 DEF Held
    <2> QED
      BY <1>o, <2>1, <2>2 DEF Promised
  <1>4. NewWriter \/ Close \/ open' = open
    BY DEF HandleStep, EvictDone, GateCanceled, FlushBegin, SyncBegin, Begin,
           FlushEnd, SyncEnd, EvictOne, DispatchNext, WriteAt, Overwrite,
           Truncate
  <1> QED
    BY <1>1, <1>2, <1>3, <1>4

\* So do a crash, the next mount and recoverPending.
LEMMA PromisedMount ==
  ASSUME Ready, Promised, MountStep, live'
  PROVE  Promised'
  <1> USE DEF handleVars, jobVars, packVars, diskVars, recVars, histVars, bounds
  <1>t. TypeOK /\ Orderly /\ live
    BY DEF Ready
  <1>1. CASE Unlink \/ DropInode
    BY <1>1, <1>t DEF Unlink, DropInode, Orderly
  <1>2. CASE Crash
    <2>1. /\ UNCHANGED <<row, staged, synced>> /\ ~open' /\ op' = "idle"
          /\ dirty' = [i \in Idx |-> Empty] /\ pc' = [j \in Jobs |-> "none"]
      BY <1>2 DEF Crash
    <2>2. \A i \in Idx : Carried(i)' = {}
      BY <2>1 DEF Carried, BusyOn, Busy
    <2>3. SyncedEverywhere'
      BY <2>1, <2>2 DEF Promised, SyncedEverywhere, Everywhere
    <2> QED
      BY <2>1, <2>3 DEF Promised, MineHeld, RequestOpen
  <1>3. CASE Mount \/ RecoverScan \/ \E i \in Idx : RecoverSubmit(i)
    <2>1. /\ UNCHANGED <<row, synced, open, op, dirty, pc, slot, data, since,
                         expect>>
          /\ \A i \in Idx : staged'[i].cur = staged[i].cur
      BY <1>3, <1>t DEF Mount, RecoverScan, RecoverSubmit
    <2>2. SyncedEverywhere'
      BY <2>1 DEF Promised, SyncedEverywhere, Everywhere, Carried, BusyOn, Busy
    <2>3. MineHeld'
      BY <2>1 DEF Promised, MineHeld, Held, Mine, Carried, BusyOn, Busy
    <2> QED
      BY <2>1, <2>2, <2>3 DEF Promised, RequestOpen
  <1> QED
    BY <1>1, <1>2, <1>3 DEF MountStep

\* A file that is gone does not come back, and nothing is promised of it.
LEMMA GoneStaysGone ==
  ASSUME TypeOK, Next, ~live, \A i \in Idx : synced[i] = {}
  PROVE  ~live' /\ \A i \in Idx : synced'[i] = {}
  <1> USE DEF handleVars, jobVars, packVars, diskVars, recVars, histVars, bounds
  <1>1. CASE PackStep \/ \E j \in Jobs : JobStep(j)
    BY <1>1, WorkersQuiet
  <1>2. CASE MountStep
    BY <1>2 DEF MountStep, Unlink, DropInode, Crash, Mount, RecoverScan,
                RecoverSubmit
  <1>3. CASE HandleStep
    <2>0. synced \in [Idx -> SUBSET Writes]
      BY DEF TypeOK
    <2>1. CASE NewWriter \/ EvictDone \/ GateCanceled \/ FlushBegin
               \/ SyncBegin \/ FlushEnd \/ SyncEnd \/ Close
      BY <2>1 DEF NewWriter, EvictDone, GateCanceled, FlushBegin, SyncBegin,
                  Begin, FlushEnd, SyncEnd, Close
    <2>2. ASSUME NEW i \in Idx,
                 \/ EvictOne(i) \/ DispatchNext(i)
                 \/ \E n \in SizeClass : WriteAt(i, n)
          PROVE  UNCHANGED <<live, synced>>
      BY <2>2 DEF EvictOne, DispatchNext, WriteAt
    <2>3. ASSUME NEW i \in Idx, NEW k \in Idx, Overwrite(i, row[k])
          PROVE  ~live' /\ \A h \in Idx : synced'[h] = {}
      BY <2>0, <2>3 DEF Overwrite
    <2>4. ASSUME NEW k, Truncate(k)
          PROVE  ~live' /\ \A h \in Idx : synced'[h] = {}
      BY <2>4 DEF Truncate
    <2> QED
      BY <1>3, <2>1, <2>2, <2>3, <2>4 DEF HandleStep
  <1> QED
    BY <1>1, <1>2, <1>3 DEF Next

\* The first state keeps its promises.
LEMMA DurableInit == Init => Durable
  <1> SUFFICES ASSUME Init PROVE Durable
    OBVIOUS
  <1>1. /\ live /\ ~open /\ op = "idle" /\ \A i \in Idx : synced[i] = {}
    BY DEF Init
  <1> QED
    BY <1>1, OrderlyInit DEF Durable, Promised, SyncedEverywhere, Everywhere,
                             MineHeld, RequestOpen

\* Every step preserves Durable.
LEMMA DurableNext ==
  ASSUME Plain, TypeOK, Exclusive, Durable, [Next]_vars
  PROVE  Durable'
  <1> USE DEF handleVars, jobVars, packVars, diskVars, recVars, histVars, bounds
  <1>1. CASE UNCHANGED vars
    <2>1. Orderly => Orderly'
      BY <1>1, OrderlyFrame DEF vars
    <2>2. UNCHANGED <<live, open, op, since, expect, synced, row, dirty, staged,
                      pc, slot, data>>
      BY <1>1 DEF vars
    <2>3. Promised => Promised'
      BY <2>2 DEF Promised, SyncedEverywhere, Everywhere, MineHeld, Held, Mine,
                  RequestOpen, Carried, BusyOn, Busy
    <2> QED
      BY <2>1, <2>2, <2>3 DEF Durable
  <1>2. CASE Next /\ ~live
    BY <1>2, GoneStaysGone DEF Durable
  <1>3. CASE Next /\ live /\ live'
    <2>1. Ready /\ Promised
      BY <1>3 DEF Durable, Ready
    <2>2. Orderly'
      BY <1>3, <2>1, OrderlyHandle, OrderlyJobStep, OrderlyPack, OrderlyMount
      DEF Next
    <2>3. Promised'
      BY <1>3, <2>1, PromisedHandle, PromisedWorkers, PromisedMount DEF Next
    <2> QED
      BY <1>3, <2>2, <2>3 DEF Durable
  <1>4. CASE Next /\ live /\ ~live'
    <2>1. ~HandleStep /\ ~PackStep /\ ~\E j \in Jobs : JobStep(j)
      <3>1. HandleStep => live' = live
        BY DEF HandleStep, NewWriter, EvictDone, GateCanceled, FlushBegin,
               SyncBegin, Begin, FlushEnd, SyncEnd, Close, EvictOne,
               DispatchNext, WriteAt, Overwrite, Truncate
      <3> QED
        BY <1>4, <3>1, WorkersQuiet
    <2>2. Unlink
      BY <1>4, <2>1 DEF Next, MountStep, DropInode, Crash, Mount, RecoverScan,
                        RecoverSubmit
    <2> QED
      BY <1>4, <2>2 DEF Unlink, Durable
  <1> QED
    BY <1>1, <1>2, <1>3, <1>4

\* What Writer.Sync reported durable stays in the chunk_map rows, whatever
\* uploads fail, however the packer and the goroutines interleave, and through
\* crashes and recoverPending, for every number of slots, goroutines and
\* crashes -- as long as the file is not opened while an earlier mount's wires
\* are staged, the cipher is not deterministic and no dispatch hits the exit
\* window (run PipelineReopen shows what reopening does).
THEOREM SyncedStaysDurable ==
  ASSUME Plain
  PROVE  Spec => []SyncedIsDurable
  <1>1. TypeOK /\ Exclusive /\ Durable /\ [Next]_vars => Durable'
    BY DurableNext
  <1>2. Durable => SyncedIsDurable
    BY DEF Durable, Promised, SyncedEverywhere, Everywhere, SyncedIsDurable
  <1>3. "exitWindow" \notin Allow
    BY DEF Plain
  <1>4. Spec => []Exclusive
    BY <1>3, ExclusiveInvariant
  <1> QED
    BY DurableInit, TypeCorrect, <1>1, <1>2, <1>4, PTL DEF Spec

-----------------------------------------------------------------------------
(* No accepted write is lost while the daemon runs.  The strengthening: the  *)
(* copy a file works with has every write that is expected, an upload fails  *)
(* only with its wire staged, and a chunk that is dirty again after a FLUSH  *)
(* is staged as it is, so that close(2) may forget it.                       *)

NoFault == Plain /\ "localFault" \notin Allow

\* A slot whose chunk is on its way, or that has no handle, is not dirty.
LEMMA CarriedClean ==
  ASSUME Exclusive, NEW i \in Idx, Carried(i) # {} \/ ~open
  PROVE  dirty[i] = Empty
  <1>1. CASE ~open
    BY <1>1 DEF Exclusive, DirtyIsIdle
  <1>2. CASE Carried(i) # {}
    <2>1. PICK j \in Jobs : Busy(j) /\ slot[j] = i
      BY <1>2 DEF Carried, BusyOn
    <2> QED
      BY <2>1 DEF Exclusive, DirtyIsIdle, Busy, Running
  <1> QED
    BY <1>1, <1>2

\* A goroutine's step leaves the staged files of other slots alone, and it
\* fails only with its wire staged.
LEMMA FailStagedJob ==
  ASSUME Ready, NoFault, NEW j \in Jobs, JobStep(j), FailStaged
  PROVE  FailStaged'
  <1> USE DEF handleVars, jobVars, packVars, diskVars, recVars, histVars, bounds
  <1>t. TypeOK /\ Orderly /\ Exclusive /\ live /\ Plain
    BY DEF Ready, NoFault
  <1>0. /\ slot \in [Jobs -> Idx] /\ pc \in [Jobs -> Labels]
        /\ data \in [Jobs -> Content] /\ staged \in [Idx -> Files]
    BY <1>t, ReadyTypes
  <1>1. pc[j] \notin {"none", "packwait", "blob"}
    BY <1>t DEF JobStep, JobDedup, JobStage, JobRecord, JobAcquireSem,
                JobUpload, JobPutChunk, JobUnstage, JobRecordBlob, JobRestore,
                JobExit, Orderly, JobsInOrder
  <1>2. \A k \in Jobs : k # j /\ pc[k] # "none" => slot[k] # slot[j]
    BY <1>1, JobAlone
  <1>3. \A i \in Idx : i # slot[j] => staged'[i] = staged[i]
    <2>1. CASE JobStage(j)
      BY <2>1, <1>0 DEF JobStage
    <2>2. CASE JobRecord(j)
      BY <2>2, RecordClears
    <2>3. CASE JobUnstage(j)
      BY <2>3, <1>t, UnstageClears
    <2>4. CASE \/ JobDedup(j) \/ JobAcquireSem(j) \/ JobUpload(j)
               \/ JobPutChunk(j) \/ JobRestore(j) \/ JobExit(j)
      BY <2>4, <1>t DEF JobDedup, JobAcquireSem, JobUpload, JobPutChunk,
                        JobRestore, JobExit
    <2> QED
      BY <1>1, <2>1, <2>2, <2>3, <2>4 DEF JobStep, JobRecordBlob
  <1>4. \A k \in Jobs : k # j => /\ pc'[k] = pc[k] /\ slot'[k] = slot[k]
                                 /\ data'[k] = data[k]
    BY <1>0 DEF JobStep, JobDedup, JobStage, JobRecord, JobAcquireSem,
                JobUpload, JobPutChunk, JobUnstage, JobRecordBlob, JobRestore,
                JobExit, Goto
  <1>5. ASSUME pc'[j] = "fail" PROVE staged'[slot'[j]].cur = data'[j]
    <2>1. /\ pc[j] \in {"upload", "put"} /\ UNCHANGED <<slot, data, staged>>
      <3>1. JobUpload(j) \/ JobPutChunk(j)
        BY <1>0, <1>1, <1>5, <1>t DEF JobStep, JobDedup, JobStage, JobRecord,
              JobAcquireSem, JobUnstage, JobRecordBlob, JobRestore, JobExit,
              Goto, NoFault, Plain
      <3> QED
        BY <3>1, <1>t DEF JobUpload, JobPutChunk
    <2> QED
      BY <2>1, <1>t DEF Orderly, JobsInOrder, StagedLabels
  <1>6. ASSUME NEW k \in Jobs, k # j, pc'[k] = "fail"
        PROVE  staged'[slot'[k]].cur = data'[k]
    <2>1. slot[k] # slot[j] /\ slot[k] \in Idx /\ pc[k] = "fail"
      BY <1>0, <1>2, <1>4, <1>6
    <2> QED
      BY <2>1, <1>3, <1>4, <1>6 DEF FailStaged
  <1> QED
    BY <1>5, <1>6 DEF FailStaged

\* The packer fails wires that are staged.
LEMMA FailStagedPack ==
  ASSUME Ready, PackStep, FailStaged
  PROVE  FailStaged'
  <1> USE DEF handleVars, jobVars, packVars, diskVars, recVars, histVars, bounds
  <1>t. TypeOK /\ Orderly /\ Exclusive /\ live
    BY DEF Ready
  <1>0. /\ pc \in [Jobs -> Labels] /\ slot \in [Jobs -> Idx]
        /\ Len(packQ) \in Nat /\ taken \in 0..Len(packQ)
    BY <1>t, ReadyTypes DEF TypeOK
  <1>f. ASSUME NEW S \in SUBSET (1..Len(packQ)), Answer(S, "fail"),
               UNCHANGED <<slot, data, staged>>
        PROVE  FailStaged'
    <2>1. \A j \in Jobs : \/ pc'[j] = pc[j]
                          \/ pc[j] = "packwait" /\ pc'[j] = "fail"
      BY <1>f, <1>0, <1>t DEF Answer, Exclusive, WaitersWait
    <2>2. \A j \in Jobs : pc[j] = "packwait" => staged[slot[j]].cur = data[j]
      BY <1>t DEF Orderly, JobsInOrder, StagedLabels
    <2> QED
      BY <2>1, <2>2, <1>f DEF FailStaged
  <1>1. CASE PackTake \/ PackPut
    BY <1>1 DEF PackTake, PackPut, FailStaged
  <1>2. CASE PackUpload
    <2>1. 1..taken \in SUBSET (1..Len(packQ))
      BY <1>0
    <2>2. CASE UNCHANGED pc
      BY <1>2, <2>2 DEF PackUpload, FailStaged
    <2> QED
      BY <1>2, <1>f, <2>1, <2>2 DEF PackUpload
  <1>3. CASE PackPutFails
    <2>1. {1} \in SUBSET (1..Len(packQ)) /\ Answer({1}, "fail")
      BY <1>3, <1>t, PopIs DEF PackPutFails
    <2> QED
      BY <1>3, <1>f, <2>1 DEF PackPutFails
  <1>4. CASE PackUnstage
    <2> DEFINE w == packQ[1]
    <2>1. /\ 1 \in 1..Len(packQ) /\ PackPop("exit")
          /\ \A i \in Idx : i # w.idx => staged'[i] = staged[i]
          /\ UNCHANGED <<slot, data>>
      BY <1>4, PackUnstageClears
    <2>2. \A j \in Jobs : pc'[j] = IF w.job = j THEN "exit" ELSE pc[j]
      BY <2>1 DEF PackPop, Answer
    <2>3. ASSUME NEW j \in Jobs, pc'[j] = "fail"
          PROVE  staged'[slot'[j]].cur = data'[j]
      <3>1. pc[j] = "fail" /\ w.job # j
        BY <2>2, <2>3
      <3>2. slot[j] # w.idx /\ slot[j] \in Idx
        BY <1>0, <2>1, <3>1, WireAlone
      <3> QED
        BY <2>1, <3>1, <3>2 DEF FailStaged
    <2> QED
      BY <2>3 DEF FailStaged
  <1> QED
    BY <1>1, <1>2, <1>3, <1>4 DEF PackStep

\* The goroutines and the flusher lose no write.
LEMMA RetainedWorkers ==
  ASSUME Ready, NoFault, Intact, PackStep \/ \E j \in Jobs : JobStep(j)
  PROVE  Intact'
  <1>t. Exclusive /\ Plain
    BY DEF Ready, NoFault
  <1>1. UNCHANGED <<open, op, todo, settled, expect>>
    BY WorkersQuiet
  <1>2. \A i \in Idx : Progress(i)
    BY <1>t, PackProgress, JobProgress
  <1>3. FailStaged'
    BY FailStagedJob, FailStagedPack DEF Intact
  <1>4. ASSUME NEW i \in Idx, open PROVE Held(i, expect[i])'
    <2>1. \A S : S = expect[i] => Held(i, S)'
      BY <1>2, <1>4, ProgressHeld DEF Intact, ExpectHeld
    <2> QED
      BY <1>1, <2>1 DEF Held
  <1>5. ASSUME NEW i \in Idx, ~open PROVE HeldClosed(i, expect[i])'
    <2>1. \A S : S = expect[i] => HeldClosed(i, S)'
      BY <1>2, <1>5, ProgressHeldClosed DEF Intact, ExpectHeld
    <2> QED
      BY <1>1, <2>1 DEF HeldClosed
  <1>6. SettledStaged'
    <2> SUFFICES ASSUME NEW i \in Idx, dirty'[i] # Empty,
                        settled \/ (op = "flush" /\ i \notin todo)
                 PROVE  staged'[i].cur = dirty'[i]
      BY <1>1 DEF SettledStaged
    <2>1. dirty[i] # Empty => staged[i].cur = dirty[i]
      BY DEF Intact, SettledStaged
    <2>2. dirty[i] # Empty => Carried(i) = {} /\ open
      BY <1>t, CarriedClean
    <2>3. CASE Kept(i)
      BY <2>1, <2>3 DEF Kept
    <2>4. CASE Wired(i)
      BY <2>2, <2>4 DEF Wired
    <2>5. CASE Committed(i)
      BY <2>1, <2>5 DEF Committed
    <2>6. CASE Unstaged(i)
      BY <2>2, <2>6 DEF Unstaged, Backed
    <2>7. CASE GivenBack(i)
      BY <2>7 DEF GivenBack, Intact, FailStaged
    <2> QED
      BY <1>2, <2>3, <2>4, <2>5, <2>6, <2>7 DEF Progress
  <1> QED
    BY <1>1, <1>3, <1>4, <1>5, <1>6 DEF Intact, ExpectHeld

\* Without a handle the only request is to open one.
LEMMA ClosedHandle ==
  ASSUME HandleStep, RequestOpen, ~open
  PROVE  NewWriter
  <1>1. op = "idle"
    BY DEF RequestOpen
  <1>2. ASSUME NEW i \in Idx
        PROVE  /\ ~EvictOne(i) /\ ~DispatchNext(i)
               /\ \A n \in SizeClass : ~WriteAt(i, n)
               /\ \A k \in Idx : ~Overwrite(i, row[k])
    BY <1>1 DEF EvictOne, DispatchNext, WriteAt, Overwrite
  <1>3. ~EvictDone /\ ~GateCanceled /\ ~FlushEnd /\ ~SyncEnd
    BY <1>1 DEF EvictDone, GateCanceled, FlushEnd, SyncEnd
  <1>4. ~FlushBegin /\ ~SyncBegin /\ ~Close /\ \A k : ~Truncate(k)
    BY DEF FlushBegin, SyncBegin, Begin, Close, Truncate
  <1> QED
    BY <1>2, <1>3, <1>4 DEF HandleStep

\* Requests do not disturb failed uploads.
LEMMA FailStagedHandle ==
  ASSUME TypeOK, HandleStep, FailStaged
  PROVE  FailStaged'
  <1> USE DEF handleVars, jobVars, packVars, diskVars, recVars, histVars, bounds
  <1>1. ASSUME UNCHANGED <<pc, slot, data, staged>> PROVE FailStaged'
    BY <1>1 DEF FailStaged
  <1>2. ASSUME NEW i \in Idx, Dispatch(i), UNCHANGED staged PROVE FailStaged'
    <2>1. PICK j \in Jobs : /\ pc' = [pc EXCEPT ![j] = "start"]
                            /\ slot' = [slot EXCEPT ![j] = i]
                            /\ data' = [data EXCEPT ![j] = dirty[i]]
      BY <1>2 DEF Dispatch
    <2>2. /\ pc'[j] = "start"
          /\ \A h \in Jobs : h # j => /\ pc'[h] = pc[h] /\ slot'[h] = slot[h]
                                      /\ data'[h] = data[h]
      BY <2>1 DEF TypeOK
    <2> QED
      BY <1>2, <2>2 DEF FailStaged
  <1>3. CASE NewWriter \/ EvictDone \/ GateCanceled \/ FlushBegin \/ SyncBegin
             \/ FlushEnd \/ SyncEnd \/ Close
    BY <1>1, <1>3 DEF NewWriter, EvictDone, GateCanceled, FlushBegin,
                      SyncBegin, Begin, FlushEnd, SyncEnd, Close
  <1>4. ASSUME NEW i \in Idx, EvictOne(i) \/ DispatchNext(i) PROVE FailStaged'
    BY <1>1, <1>2, <1>4 DEF EvictOne, DispatchNext
  <1>5. ASSUME NEW i \in Idx, \/ \E n \in SizeClass : WriteAt(i, n)
                              \/ \E k \in Idx : Overwrite(i, row[k])
        PROVE  FailStaged'
    BY <1>1, <1>5 DEF WriteAt, Overwrite
  <1>6. ASSUME NEW k, Truncate(k) PROVE FailStaged'
    BY <1>1, <1>6 DEF Truncate
  <1> QED
    BY <1>3, <1>4, <1>5, <1>6 DEF HandleStep

\* A FLUSH leaves a chunk dirty only if it is staged as it is.
LEMMA SettledHandle ==
  ASSUME Ready, Plain, HandleStep, SettledStaged
  PROVE  SettledStaged'
  <1> USE DEF handleVars, jobVars, packVars, diskVars, recVars, histVars, bounds
  <1>t. TypeOK /\ Exclusive
    BY DEF Ready
  <1>0. dirty \in [Idx -> Content]
    BY <1>t DEF TypeOK
  <1>1. CASE NewWriter
    <2>1. ~open /\ dirty' = dirty
      BY <1>1 DEF NewWriter
    <2>2. \A i \in Idx : dirty'[i] = Empty
      BY <2>1, <1>t DEF Exclusive, DirtyIsIdle
    <2> QED
      BY <2>2 DEF SettledStaged
  <1>2. CASE EvictDone \/ GateCanceled \/ SyncBegin \/ SyncEnd
    BY <1>2 DEF EvictDone, GateCanceled, SyncBegin, Begin, SyncEnd,
                SettledStaged
  <1>3. CASE FlushBegin
    BY <1>3 DEF FlushBegin, Begin, DirtySlots, SettledStaged
  <1>4. CASE FlushEnd
    BY <1>4 DEF FlushEnd, SettledStaged
  <1>5. CASE Close
    BY <1>5 DEF Close, SettledStaged
  <1>6. ASSUME NEW i \in Idx, EvictOne(i) \/ DispatchNext(i)
        PROVE  SettledStaged'
    <2>1. /\ UNCHANGED <<op, settled, staged>>
          /\ todo' = todo \/ (todo' = todo \ {i} /\ dirty'[i] = Empty)
          /\ dirty' = [dirty EXCEPT ![i] = Empty] \/ dirty' = dirty
      BY <1>6, <1>0 DEF EvictOne, DispatchNext, Dispatch
    <2>2. ASSUME NEW k \in Idx, dirty'[k] # Empty,
                 settled \/ (op = "flush" /\ k \notin todo')
          PROVE  staged'[k].cur = dirty'[k]
      <3>1. dirty'[k] = dirty[k]
        BY <2>1, <2>2, <1>0
      <3>2. settled \/ (op = "flush" /\ k \notin todo)
        BY <2>1, <2>2
      <3> QED
        BY <2>1, <2>2, <3>1, <3>2 DEF SettledStaged
    <2> QED
      BY <2>1, <2>2 DEF SettledStaged
  <1>7. ASSUME NEW i \in Idx, NEW n \in SizeClass, WriteAt(i, n)
        PROVE  SettledStaged'
    BY <1>7 DEF WriteAt, SettledStaged
  <1>8. ASSUME NEW i \in Idx, NEW k \in Idx, Overwrite(i, row[k]) PROVE FALSE
    BY <1>8 DEF Overwrite, Plain
  <1>9. ASSUME NEW k, Truncate(k) PROVE SettledStaged'
    <2>1. /\ UNCHANGED <<op, settled, todo, staged>>
          /\ \A i \in Idx : dirty'[i] = dirty[i] \/ dirty'[i] = Empty
      BY <1>9 DEF Truncate
    <2> QED
      BY <2>1 DEF SettledStaged
  <1> QED
    BY <1>1, <1>2, <1>3, <1>4, <1>5, <1>6, <1>7, <1>8, <1>9 DEF HandleStep

\* The requests of the handle lose no write.
LEMMA RetainedHandle ==
  ASSUME Ready, Plain, Intact, RequestOpen, HandleStep
  PROVE  Intact'
  <1> USE DEF handleVars, jobVars, packVars, diskVars, recVars, histVars, bounds
  <1>t. TypeOK /\ Exclusive
    BY DEF Ready
  <1>0. FailStaged' /\ SettledStaged'
    BY <1>t, FailStagedHandle, SettledHandle DEF Intact
  <1>1. CASE NewWriter
    <2>1. /\ UNCHANGED <<dirty, pc, slot, data, row, staged, expect>>
          /\ ~open /\ open' /\ \A j \in Jobs : pc[j] = "none"
          /\ \A i \in Idx : staged[i] = NoFiles
      BY <1>1 DEF NewWriter, NothingStaged, Plain
    <2>2. ASSUME NEW i \in Idx PROVE Held(i, expect[i])'
      <3>1. Carried(i) = {} /\ Carried(i)' = {}
        BY <2>1 DEF Carried, BusyOn, Busy
      <3>2. dirty[i] = Empty /\ staged[i].cur = Empty
        BY <2>1, <1>t, CarriedClean DEF NoFiles
      <3>3. expect[i] \subseteq row[i].ids
        BY <2>1, <3>1, <3>2 DEF Intact, ExpectHeld, HeldClosed, Survivor
      <3> QED
        BY <2>1, <3>1, <3>2, <3>3 DEF Held
    <2> QED
      BY <1>0, <2>1, <2>2 DEF Intact, ExpectHeld
  <1>2. CASE Close
    <2>1. /\ UNCHANGED <<pc, slot, data, row, staged, expect>>
          /\ open /\ ~open' /\ settled
      BY <1>2 DEF Close
    <2>2. ASSUME NEW i \in Idx PROVE HeldClosed(i, expect[i])'
      <3>1. Carried(i)' = Carried(i)
        BY <2>1, CarriedSame DEF BusyOn, Busy
      <3>2. Held(i, expect[i])
        BY <2>1 DEF Intact, ExpectHeld
      <3>3. dirty[i] # Empty => staged[i].cur = dirty[i]
        BY <2>1 DEF Intact, SettledStaged
      <3> QED
        BY <2>1, <3>1, <3>2, <3>3 DEF Held, HeldClosed, Survivor
    <2> QED
      BY <1>0, <2>1, <2>2 DEF Intact, ExpectHeld
  <1>3. CASE open' = open /\ open
    <2>1. ASSUME NEW i \in Idx PROVE Held(i, expect[i])'
      <3>1. Requested(i)
        BY <1>3, RequestMoves
      <3>2. Held(i, expect[i])
        BY <1>3 DEF Intact, ExpectHeld
      <3>3. \/ (Kept(i) \/ Sent(i)) /\ expect'[i] \subseteq expect[i]
            \/ Written(i) /\ expect'[i] \subseteq expect[i] \cup {writes + 1}
            \/ expect'[i] = {}
        BY <3>1 DEF Requested
      <3>4. \A S : S = expect'[i] => Held(i, S)'
        BY <3>2, <3>3, RequestHeld
      <3> QED
        BY <3>4 DEF Held
    <2> QED
      BY <1>0, <1>3, <2>1 DEF Intact, ExpectHeld
  <1>4. NewWriter \/ Close \/ (open' = open /\ open)
    <2>1. NewWriter \/ Close \/ open' = open
      BY DEF HandleStep, EvictDone, GateCanceled, FlushBegin, SyncBegin, Begin,
             FlushEnd, SyncEnd, EvictOne, DispatchNext, WriteAt, Overwrite,
             Truncate
    <2> QED
      BY <2>1, ClosedHandle
  <1> QED
    BY <1>1, <1>2, <1>3, <1>4

\* What survives a crash is all that is expected after it, and recoverPending
\* keeps that.
LEMMA RetainedMount ==
  ASSUME Ready, Intact, MountStep, live'
  PROVE  Intact'
  <1> USE DEF handleVars, jobVars, packVars, diskVars, recVars, histVars, bounds
  <1>t. TypeOK /\ Orderly /\ live
    BY DEF Ready
  <1>1. CASE Unlink \/ DropInode
    BY <1>1, <1>t DEF Unlink, DropInode, Orderly
  <1>2. CASE Crash
    <2>1. /\ UNCHANGED <<row, staged>> /\ ~open'
          /\ dirty' = [i \in Idx |-> Empty] /\ pc' = [j \in Jobs |-> "none"]
          /\ expect' = [i \in Idx |-> expect[i] \cap Survivor(i).ids]
      BY <1>2 DEF Crash
    <2>2. ASSUME NEW i \in Idx PROVE HeldClosed(i, expect[i])'
      <3>1. Carried(i)' = {}
        BY <2>1 DEF Carried, BusyOn, Busy
      <3>2. expect'[i] \subseteq Survivor(i).ids /\ Survivor(i)' = Survivor(i)
        BY <2>1 DEF Survivor
      <3> QED
        BY <3>1, <3>2 DEF HeldClosed
    <2> QED
      BY <2>1, <2>2 DEF Intact, ExpectHeld, FailStaged, SettledStaged
  <1>3. CASE Mount \/ RecoverScan \/ \E i \in Idx : RecoverSubmit(i)
    <2>1. /\ UNCHANGED <<row, open, op, todo, settled, dirty, pc, slot, data,
                         expect>>
          /\ \A i \in Idx : staged'[i].cur = staged[i].cur
      BY <1>3, <1>t DEF Mount, RecoverScan, RecoverSubmit
    <2>2. \A j \in Jobs : slot[j] \in Idx
      BY <1>t DEF TypeOK
    <2>3. ExpectHeld'
      BY <2>1 DEF Intact, ExpectHeld, Held, HeldClosed, Survivor, Carried,
                  BusyOn, Busy
    <2>4. FailStaged' /\ SettledStaged'
      BY <2>1, <2>2 DEF Intact, FailStaged, SettledStaged
    <2> QED
      BY <2>3, <2>4 DEF Intact
  <1> QED
    BY <1>1, <1>2, <1>3 DEF MountStep

\* An empty file has lost nothing.
LEMMA RetainedInit == Init => Retained
  <1> SUFFICES ASSUME Init PROVE Intact
    BY DEF Retained
  <1>1. /\ ~open /\ \A i \in Idx : expect[i] = {} /\ dirty[i] = Empty
        /\ \A j \in Jobs : pc[j] = "none"
    BY DEF Init
  <1>2. ExpectHeld
    BY <1>1 DEF ExpectHeld, HeldClosed
  <1> QED
    BY <1>1, <1>2 DEF Intact, FailStaged, SettledStaged

\* Every step preserves Retained.
LEMMA RetainedNext ==
  ASSUME NoFault, TypeOK, Exclusive, Durable, Retained, [Next]_vars
  PROVE  Retained'
  <1> USE DEF handleVars, jobVars, packVars, diskVars, recVars, histVars, bounds
  <1>1. CASE UNCHANGED vars
    <2>1. UNCHANGED <<live, open, op, todo, settled, expect, row, dirty, staged,
                      pc, slot, data>>
      BY <1>1 DEF vars
    <2>2. ExpectHeld => ExpectHeld'
      BY <2>1 DEF ExpectHeld, Held, HeldClosed, Survivor, Carried, BusyOn, Busy
    <2> QED
      BY <2>1, <2>2 DEF Retained, Intact, FailStaged, SettledStaged
  <1>2. CASE Next /\ ~live
    <2>1. ~live'
      BY <1>2, GoneStaysGone DEF Durable
    <2> QED
      BY <2>1 DEF Retained
  <1>3. CASE Next /\ live /\ live'
    <2>1. Ready /\ Intact /\ RequestOpen /\ Plain
      BY <1>3 DEF Durable, Promised, Retained, Ready, NoFault
    <2> QED
      BY <1>3, <2>1, RetainedHandle, RetainedWorkers, RetainedMount
      DEF Next, Retained
  <1> QED
    BY <1>1, <1>2, <1>3 DEF Retained

\* What is retained is in the freshest copy.
LEMMA RetainedIsFresh ==
  ASSUME Exclusive, Retained
  PROVE  NoLostWrite
  <1> SUFFICES ASSUME live, NEW i \in Idx
               PROVE  expect[i] \subseteq Freshest(i).ids
    BY DEF NoLostWrite
  <1>1. ASSUME BusyOn(i) # {}
        PROVE  data[CHOOSE j \in BusyOn(i) : TRUE] \in Carried(i)
    BY <1>1 DEF Carried
  <1>2. BusyOn(i) = {} => Carried(i) = {}
    BY DEF Carried
  <1>3. CASE open
    <2>1. Held(i, expect[i])
      BY <1>3 DEF Retained, Intact, ExpectHeld
    <2> QED
      BY <1>1, <1>2, <2>1 DEF Held, Freshest, Survivor
  <1>4. CASE ~open
    <2>1. HeldClosed(i, expect[i]) /\ dirty[i] = Empty
      BY <1>4, CarriedClean DEF Retained, Intact, ExpectHeld
    <2> QED
      BY <1>1, <1>2, <2>1 DEF HeldClosed, Freshest
  <1> QED
    BY <1>3, <1>4

\* No write(2) the Writer accepted disappears while the daemon runs, through
\* failed uploads, eager dispatch, close(2) before the uploads are through and
\* recoverPending, for every number of slots, goroutines and crashes -- where
\* the local disk and database do not fail before a wire is staged, and under
\* the conditions of SyncedStaysDurable.
THEOREM NoWriteLost ==
  ASSUME NoFault
  PROVE  Spec => []NoLostWrite
  <1>0. Plain /\ "exitWindow" \notin Allow
    BY DEF NoFault, Plain
  <1>1. TypeOK /\ Exclusive /\ Durable /\ [Next]_vars => Durable'
    BY <1>0, DurableNext
  <1>2. TypeOK /\ Exclusive /\ Durable /\ Retained /\ [Next]_vars => Retained'
    BY RetainedNext
  <1>3. Exclusive /\ Retained => NoLostWrite
    BY RetainedIsFresh
  <1>4. Spec => []Exclusive
    BY <1>0, ExclusiveInvariant
  <1> QED
    BY DurableInit, RetainedInit, TypeCorrect, <1>1, <1>2, <1>3, <1>4, PTL
    DEF Spec

=============================================================================
