------------------------------ MODULE Documents ------------------------------
(***************************************************************************)
(* Downloading the document of one channel message (internal/tg/session.go)*)
(* through the cache of documents and their file references: the whole     *)
(* document or a byte range of it, split into aligned parts that are       *)
(* fetched in any order and stitched together.  Telegram is external: it   *)
(* accepts one file reference at a time and rotates it, and answers a part *)
(* with the bytes the document has there.  Sizes are in units of half the  *)
(* alignment, so that a request may start and end inside an aligned block. *)
(***************************************************************************)
EXTENDS Integers, Sequences, FiniteSets

CONSTANTS
  Whole,          \* calls of DownloadDocument
  Ranged,         \* calls of DownloadDocumentRange
  Size,           \* length of the document
  Alignment,      \* rangeAlignment
  PartSize,       \* rangePartSize, also the boundary no part may cross
  Offsets,        \* offsets and
  Lengths,        \*   lengths that are asked for
  MaxRotations    \* bound: rotations of the message's file reference

ASSUME DocumentsConstants ==
  /\ {Size, Alignment, PartSize} \subseteq Nat \ {0}
  /\ PartSize % Alignment = 0
  /\ Offsets \subseteq Nat /\ Lengths \subseteq Nat \ {0}
  /\ MaxRotations \in Nat
  /\ Whole \cap Ranged = {}

VARIABLES
  down,      \* the calls
  docCache,  \* file reference cached for the message, or NoDoc
  fileRef    \* the file reference Telegram accepts now

documentVars == <<down, docCache, fileRef>>

Calls == Whole \cup Ranged
NoDoc == -1

Idle == [pc |-> "idle", ref |-> NoDoc, retried |-> FALSE, off |-> 0, len |-> Size,
         got |-> {}, out |-> << >>, rotated |-> FALSE]

DocumentsInit ==
  /\ down = [d \in Calls |-> Idle]
  /\ docCache = NoDoc
  /\ fileRef = 0

----------------------------------------------------------------------------
(* Splitting a range and putting it together again.                        *)

Least(a, b) == IF a < b THEN a ELSE b

AlignedStart(off) == (off \div Alignment) * Alignment
AlignedEnd(end) == ((end + Alignment - 1) \div Alignment) * Alignment

(* Parts of the aligned range, in order, each within one block.            *)
planRangeParts(start, end) ==
  LET part[cur \in 0..end] ==
        IF cur >= end THEN << >>
        ELSE LET boundary == (cur \div PartSize + 1) * PartSize
                 limit == Least(Least(PartSize, end - cur), boundary - cur)
             IN  <<[offset |-> cur, limit |-> limit]>> \o part[cur + limit]
  IN  part[start]

Parts(d) == planRangeParts(AlignedStart(down[d].off), AlignedEnd(down[d].off + down[d].len))

(* The bytes from..to-1 of the document, each named by its position.       *)
Bytes(from, to) == [i \in 1..(IF to > from THEN to - from ELSE 0) |-> from + i - 1]

(* External: the answer to one part, short at the end of the document.     *)
PartBytes(p) == Bytes(p.offset, Least(p.offset + p.limit, Size))

\* Mutant: the surplus before the offset is kept.
StitchUntrimmed(parts, off, len) ==
  LET from[i \in 1..(Len(parts) + 1)] == [wanted \in 0..len |->
        IF i > Len(parts) \/ wanted = 0 THEN << >>
        ELSE LET b == PartBytes(parts[i])
                 w == SubSeq(b, 1, Least(wanted, Len(b)))
             IN  w \o from[i + 1][wanted - Len(w)]]
  IN  from[1][len]

(* The in-order stitch: drop the surplus before the offset from the first  *)
(* part and the surplus after the length, stop at a short part.            *)
Stitch(parts, off, len) ==
  LET surplus == off - AlignedStart(off)
      from[i \in 1..(Len(parts) + 1)] == [wanted \in 0..len |->
        IF i > Len(parts) \/ wanted = 0 THEN << >>
        ELSE LET b == PartBytes(parts[i])
                 kept == IF i = 1 THEN SubSeq(b, surplus + 1, Len(b)) ELSE b
                 w == SubSeq(kept, 1, Least(wanted, Len(kept)))
             IN  IF i = 1 /\ surplus > 0 /\ Len(b) <= surplus THEN from[2][wanted]
                 ELSE IF w = << >> THEN << >>
                 ELSE IF Len(b) < parts[i].limit THEN w
                 ELSE w \o from[i + 1][wanted - Len(w)]]
  IN  from[1][len]

----------------------------------------------------------------------------
(* fetchDocument: the cached document while it is young, else the message  *)
(* is fetched.                                                             *)
FetchDocument(d) ==
  /\ down[d].pc = "idle"
  /\ \E off \in (IF d \in Ranged THEN Offsets ELSE {0}),
        len \in (IF d \in Ranged THEN Lengths ELSE {Size}) :
       down' = [down EXCEPT ![d] = [Idle EXCEPT
         !.pc = IF docCache # NoDoc THEN "get" ELSE "refresh",
         !.ref = docCache, !.off = off, !.len = len]]
  /\ UNCHANGED <<docCache, fileRef>>

(* refreshDocument: the answer carries the reference of that moment; the   *)
(* document is cached once the answer has arrived.                         *)
MessageReturns(d) ==
  /\ down[d].pc = "refresh"
  /\ down' = [down EXCEPT ![d].pc = "store", ![d].ref = fileRef]
  /\ UNCHANGED <<docCache, fileRef>>

StoreDocument(d) ==
  /\ down[d].pc = "store"
  /\ docCache' = down[d].ref
  /\ down' = [down EXCEPT ![d].pc = "get"]
  /\ UNCHANGED fileRef

(* streamDocument: gotd fetches the parts into one buffer.                 *)
WholeReturns(d) ==
  /\ d \in Whole
  /\ down[d].pc = "get" /\ down[d].ref = fileRef
  /\ down' = [down EXCEPT ![d].pc = "done", ![d].out = Bytes(0, Size)]
  /\ UNCHANGED <<docCache, fileRef>>

(* streamDocumentRange: the parts arrive in any order; nothing is written  *)
(* before the last one.                                                    *)
PartReturns(d) ==
  /\ d \in Ranged
  /\ down[d].pc = "get" /\ down[d].ref = fileRef
  /\ \E i \in DOMAIN Parts(d) \ down[d].got :
       down' = [down EXCEPT ![d].got = @ \cup {i}]
  /\ UNCHANGED <<docCache, fileRef>>

RangeReturns(d) ==
  /\ d \in Ranged
  /\ down[d].pc = "get" /\ down[d].got = DOMAIN Parts(d)
  /\ down' = [down EXCEPT ![d].pc = "done", ![d].got = {},
                          ![d].out = Stitch(Parts(d), down[d].off, down[d].len)]
  /\ UNCHANGED <<docCache, fileRef>>

\* Mutant: the retry goes through the cache.
AfterExpiryCached(d) ==
  [down[d] EXCEPT !.pc = IF docCache # NoDoc THEN "get" ELSE "refresh",
                  !.ref = docCache, !.retried = TRUE, !.got = {}]

(* FILE_REFERENCE_EXPIRED: drop the cached document, fetch the message     *)
(* again whatever the cache holds by then, and retry once.                 *)
AfterExpiry(d) == [down[d] EXCEPT !.pc = "refresh", !.retried = TRUE, !.got = {}]

ReferenceExpired(d) ==
  /\ down[d].pc = "get" /\ down[d].ref # fileRef
  /\ d \in Ranged => down[d].got # DOMAIN Parts(d)
  /\ IF down[d].retried
     THEN down' = [down EXCEPT ![d].pc = "expired"] /\ UNCHANGED docCache
     ELSE down' = [down EXCEPT ![d] = AfterExpiry(d)] /\ docCache' = NoDoc
  /\ UNCHANGED fileRef

(* Any other error of an RPC, a closed client or none: no retry here.      *)
DownloadFails(d) ==
  /\ down[d].pc \in {"refresh", "get"}
  /\ down' = [down EXCEPT ![d] = [Idle EXCEPT !.pc = "failed"]]
  /\ UNCHANGED <<docCache, fileRef>>

(* The reader asks again.                                                  *)
DownloadAgain(d) ==
  /\ down[d].pc \in {"done", "failed", "expired"}
  /\ down' = [down EXCEPT ![d] = Idle]
  /\ UNCHANGED <<docCache, fileRef>>

(* The cached document passes its age: fetchDocument ignores it, the sweep *)
(* after a later store deletes it.                                         *)
DocumentAges ==
  /\ docCache # NoDoc
  /\ docCache' = NoDoc
  /\ UNCHANGED <<down, fileRef>>

(* External: Telegram hands out a new reference and refuses the old one.   *)
RotateReference ==
  /\ fileRef < MaxRotations
  /\ fileRef' = fileRef + 1
  /\ down' = [d \in Calls |-> [down[d] EXCEPT !.rotated = @ \/ down[d].pc \in {"refresh", "store", "get"}]]
  /\ UNCHANGED docCache

DocumentsNext ==
  \/ \E d \in Calls :
       \/ FetchDocument(d) \/ MessageReturns(d) \/ StoreDocument(d)
       \/ WholeReturns(d) \/ PartReturns(d) \/ RangeReturns(d)
       \/ ReferenceExpired(d) \/ DownloadFails(d) \/ DownloadAgain(d)
  \/ DocumentAges \/ RotateReference

----------------------------------------------------------------------------
(* A download that succeeds returns the bytes of the document it was asked *)
(* for, no more and no less, wherever the range starts, ends or runs past  *)
(* the end, and whatever was rotated between its parts (session.go:597).   *)
DownloadExact ==
  \A d \in Calls : down[d].pc = "done" =>
    down[d].out = Bytes(down[d].off, Least(down[d].off + down[d].len, Size))

(* A download reports an expired reference only when the reference was     *)
(* rotated during the call: a stale cached document, also one that another *)
(* download stores late, costs one retry (session.go:484, 844).            *)
ExpiredOnlyIfRotated == \A d \in Calls : down[d].pc = "expired" => down[d].rotated
=============================================================================
