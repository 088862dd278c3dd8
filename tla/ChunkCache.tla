----------------------------- MODULE ChunkCache -----------------------------
(***************************************************************************)
(* chunk.Cache, the disk LRU of decoded chunks keyed by slot, with the     *)
(* in-memory tier in front of it (MemCache) and the singleflight group     *)
(* that merges concurrent misses.  A call of Get, of PutDecoded or of      *)
(* Invalidate is a sequence of steps of the calling process, cut where the *)
(* code gives up a lock or makes a system call.                            *)
(*                                                                         *)
(* A chunk's bytes are the version (message) they were fetched from, and   *)
(* whether they are whole: os.WriteFile truncates before it writes.  All   *)
(* chunks have one size, so capacities count chunks.                       *)
(***************************************************************************)
EXTENDS Naturals, Sequences, FiniteSets

CONSTANTS
    Idx,        \* slots of the file
    Procs,      \* processes that call Get or PutDecoded
    NoProc,     \* leader of a slot nobody fetches
    DiskCap,    \* capBytes of Cache, in chunks
    MemCap,     \* capBytes of MemCache, in chunks; 0 = no memory tier
    MaxVer      \* bound: versions of a slot

ASSUME CacheAssumption ==
    /\ Idx \subseteq Nat /\ Idx # {} /\ IsFiniteSet(Idx)
    /\ IsFiniteSet(Procs) /\ NoProc \notin Procs
    /\ DiskCap \in Nat \ {0} /\ MemCap \in Nat
    /\ MaxVer \in Nat \ {0}     \* a file may have been uploaded before

VARIABLES
    order,    \* Cache.entries in LRU order, most recent first
    file,     \* files of the cache directory
    mem,      \* MemCache.entries in LRU order, most recent first
    flight,   \* Cache.misses: the process that executes each slot's miss
    gpc,      \* where each process is in its call
    gkey,     \* the slot it asked for
    gmsg,     \* the message its caller's row named
    gdata,    \* the bytes it has
    tries,    \* Get's attempt counter
    canceled  \* processes whose context is canceled

cacheVars == <<order, file, mem, flight>>
getVars == <<gpc, gkey, gmsg, gdata, tries, canceled>>

Versions == 0..MaxVer
Data == [ver : Versions, whole : BOOLEAN]
None == [ver |-> 0, whole |-> TRUE]          \* nil slice, no file
Cached(k) == \E m \in 1..Len(order) : order[m] = k
MemHit(k) == \E m \in 1..Len(mem) : mem[m].key = k
MemData(k) == mem[CHOOSE m \in 1..Len(mem) : mem[m].key = k].data
FileExists(k) == file[k] # None
Canceled(p) == p \in canceled

\* list.Remove of the m-th element, and of the element of slot k if there is
\* one: a list has at most one.
Removed(s, m) == [i \in 1..(Len(s) - 1) |-> IF i < m THEN s[i] ELSE s[i + 1]]
Without(s, k) ==
    IF \E m \in 1..Len(s) : s[m] = k
    THEN Removed(s, CHOOSE m \in 1..Len(s) : s[m] = k) ELSE s
MemWithout(s, k) ==
    IF \E m \in 1..Len(s) : s[m].key = k
    THEN Removed(s, CHOOSE m \in 1..Len(s) : s[m].key = k) ELSE s
Clamp(s, n) == IF Len(s) > n THEN SubSeq(s, 1, n) ELSE s

\* evictLocked, as the list of entries that stay.
Evict(s) == Clamp(s, DiskCap)

MemPut(s, k, d) ==
    IF d = None THEN s
    ELSE Clamp(<<[key |-> k, data |-> d]>> \o MemWithout(s, k), MemCap)

AnyIdx == CHOOSE k \in Idx : TRUE

CacheInit ==
    /\ order = <<>> /\ mem = <<>>
    /\ file = [k \in Idx |-> None]
    /\ flight = [k \in Idx |-> NoProc]
    /\ gpc = [p \in Procs |-> "idle"]
    /\ gkey = [p \in Procs |-> AnyIdx]
    /\ gmsg = [p \in Procs |-> 0]
    /\ gdata = [p \in Procs |-> None]
    /\ tries = [p \in Procs |-> 0]
    /\ canceled = {}

-----------------------------------------------------------------------------
(* Get *)

Step(p, from, to) == gpc[p] = from /\ gpc' = [gpc EXCEPT ![p] = to]

\* The call: process p enters at label l for slot k, whose row names m.
Enter(p, k, m, l) ==
    /\ gpc[p] = "idle"
    /\ gpc' = [gpc EXCEPT ![p] = l]
    /\ gkey' = [gkey EXCEPT ![p] = k]
    /\ gmsg' = [gmsg EXCEPT ![p] = m]
    /\ gdata' = [gdata EXCEPT ![p] = None]
    /\ tries' = [tries EXCEPT ![p] = 0]

\* The caller takes the result; the call's locals go.
Leave(p) ==
    /\ gpc' = [gpc EXCEPT ![p] = "idle"]
    /\ gkey' = [gkey EXCEPT ![p] = AnyIdx]
    /\ gmsg' = [gmsg EXCEPT ![p] = 0]
    /\ gdata' = [gdata EXCEPT ![p] = None]
    /\ tries' = [tries EXCEPT ![p] = 0]
    /\ canceled' = canceled \ {p}

\* Tier 0: a hit moves the entry to the front.
MemGet(p) ==
    LET k == gkey[p]
    IN /\ \/ /\ MemHit(k)
             /\ Step(p, "mem", "done")
             /\ gdata' = [gdata EXCEPT ![p] = MemData(k)]
             /\ mem' = MemPut(mem, k, MemData(k))
          \/ /\ ~MemHit(k)
             /\ Step(p, "mem", "lookup")
             /\ UNCHANGED <<gdata, mem>>
       /\ UNCHANGED <<order, file, flight, gkey, gmsg, tries, canceled>>

\* The LRU lookup under the lock.
Lookup(p) ==
    LET k == gkey[p]
    IN /\ \/ /\ Cached(k) /\ Step(p, "lookup", "read")
             /\ order' = <<k>> \o Without(order, k)
          \/ /\ ~Cached(k) /\ Step(p, "lookup", "miss")
             /\ UNCHANGED order
       /\ UNCHANGED <<file, mem, flight, gkey, gmsg, gdata, tries, canceled>>

\* os.ReadFile, outside the lock.
ReadFile(p) ==
    LET k == gkey[p]
    IN /\ \/ /\ FileExists(k) /\ Step(p, "read", "promote")
             /\ gdata' = [gdata EXCEPT ![p] = file[k]]
          \/ /\ ~FileExists(k) /\ Step(p, "read", "drop")
             /\ UNCHANGED gdata
       /\ UNCHANGED <<cacheVars, gkey, gmsg, tries, canceled>>

\* A hit on disk is promoted into the memory tier.
Promote(p) ==
    /\ Step(p, "promote", "done")
    /\ mem' = MemPut(mem, gkey[p], gdata[p])
    /\ UNCHANGED <<order, file, flight, gkey, gmsg, gdata, tries, canceled>>

\* The file behind the entry is gone: forget the entry.
DropEntry(p) ==
    /\ Step(p, "drop", "miss") \/ Step(p, "redrop", "fetch")
    /\ order' = Without(order, gkey[p])
    /\ UNCHANGED <<file, mem, flight, gkey, gmsg, gdata, tries, canceled>>

\* misses.Do: wait for the process that runs the slot's miss, or run it and
\* look the slot up again.
Miss(p) ==
    LET k == gkey[p]
    IN /\ \/ /\ flight[k] # NoProc /\ Step(p, "miss", "joined")
             /\ UNCHANGED <<flight, order>>
          \/ /\ flight[k] = NoProc /\ ~Cached(k) /\ Step(p, "miss", "fetch")
             /\ flight' = [flight EXCEPT ![k] = p]
             /\ UNCHANGED order
          \/ /\ flight[k] = NoProc /\ Cached(k) /\ Step(p, "miss", "reread")
             /\ flight' = [flight EXCEPT ![k] = p]
             /\ order' = <<k>> \o Without(order, k)
       /\ UNCHANGED <<file, mem, gkey, gmsg, gdata, tries, canceled>>

\* The leader of k and the processes that share its result.
Sharers(k, p) == {p} \cup {q \in Procs : gpc[q] = "joined" /\ gkey[q] = k}

\* A failed fetch is shared too.  A canceled fetch is not ours when our own
\* context is alive, and a dead connection comes back: both are tried again,
\* three times at most.
MaxAttempt == 3
Retries(q, err) ==
    /\ ~Canceled(q) /\ tries[q] < MaxAttempt
    /\ err \in {"canceled", "transient"}

FailWith(p, err) ==
    LET S == Sharers(gkey[p], p)
    IN /\ gpc' = [q \in Procs |->
                     IF q \notin S THEN gpc[q]
                     ELSE IF Retries(q, err) THEN "lookup" ELSE "error"]
       /\ tries' = [q \in Procs |->
                       IF q \in S /\ Retries(q, err) THEN tries[q] + 1
                       ELSE tries[q]]
       /\ flight' = [flight EXCEPT ![gkey[p]] = NoProc]
       /\ UNCHANGED <<order, file, mem, gkey, gmsg, gdata, canceled>>

\* Fetch or FetchRange, decrypt, decompress.  A canceled context makes it fail.
FetchOK(p) ==
    /\ Step(p, "fetch", "write")
    /\ gdata' = [gdata EXCEPT ![p] = [ver |-> gmsg[p], whole |-> TRUE]]
    /\ UNCHANGED <<cacheVars, gkey, gmsg, tries, canceled>>

FetchFails(p) ==
    /\ gpc[p] = "fetch"
    /\ \E err \in IF Canceled(p) THEN {"canceled"} ELSE {"transient", "fatal"} :
          FailWith(p, err)

Writing(k) == {p \in Procs : gpc[p] = "writing" /\ gkey[p] = k}

\* os.WriteFile opens with O_TRUNC ...
WriteBegin(p) ==
    /\ Step(p, "write", "writing")
    /\ file' = [file EXCEPT ![gkey[p]] = [gdata[p] EXCEPT !.whole = FALSE]]
    /\ UNCHANGED <<order, mem, flight, gkey, gmsg, gdata, tries, canceled>>

\* ... and fills the file; one that was removed meanwhile stays removed.
WriteEnd(p) ==
    LET k == gkey[p]
    IN /\ Step(p, "writing", "insert")
       /\ file' = IF FileExists(k)
                  THEN [file EXCEPT ![k] =
                           [gdata[p] EXCEPT !.whole = Writing(k) = {p}]]
                  ELSE file
       /\ UNCHANGED <<order, mem, flight, gkey, gmsg, gdata, tries, canceled>>

\* The leader's result reaches everyone who waits for it.
Land(p, d) ==
    LET S == IF flight[gkey[p]] = p THEN Sharers(gkey[p], p) ELSE {p}
    IN /\ gpc' = [q \in Procs |-> IF q \in S THEN "done" ELSE gpc[q]]
       /\ gdata' = [q \in Procs |-> IF q \in S THEN d ELSE gdata[q]]
       /\ flight' = IF flight[gkey[p]] = p
                    THEN [flight EXCEPT ![gkey[p]] = NoProc] ELSE flight

\* The second look found an entry: its file is the result, if it is there.
Reread(p) ==
    LET k == gkey[p]
    IN /\ gpc[p] = "reread"
       /\ IF FileExists(k) THEN Land(p, file[k])
          ELSE Step(p, "reread", "redrop") /\ UNCHANGED <<gdata, flight>>
       /\ UNCHANGED <<order, file, mem, gkey, gmsg, tries, canceled>>

\* The insertion under the lock, the eviction it causes, and the memory tier.
Insert(p) ==
    LET k == gkey[p]
        longer == <<k>> \o Without(order, k)
        kept == IF Cached(k) THEN longer ELSE Evict(longer)
    IN /\ gpc[p] = "insert"
       /\ order' = kept
       /\ file' = [i \in Idx |-> IF Cached(i) /\ \A m \in 1..Len(kept) : kept[m] # i
                                 THEN None ELSE file[i]]
       /\ mem' = IF Cached(k) THEN mem ELSE MemPut(mem, k, gdata[p])
       /\ Land(p, gdata[p])
       /\ UNCHANGED <<gkey, gmsg, tries, canceled>>

GetStep(p) ==
    \/ MemGet(p) \/ Lookup(p) \/ ReadFile(p) \/ Promote(p) \/ DropEntry(p)
    \/ Miss(p) \/ FetchOK(p) \/ FetchFails(p) \/ WriteBegin(p) \/ WriteEnd(p)
    \/ Reread(p) \/ Insert(p)

-----------------------------------------------------------------------------
(* PutDecoded enters at "write"; Invalidate is two steps of the uploader *)

InvalidateMem(k) ==
    /\ mem' = MemWithout(mem, k)
    /\ UNCHANGED <<order, file, flight>>

\* Mutant: the entry stays.
InvalidateDiskForgets(k) == UNCHANGED cacheVars

InvalidateDisk(k) ==
    /\ order' = Without(order, k)
    /\ file' = IF Cached(k) THEN [file EXCEPT ![k] = None] ELSE file
    /\ UNCHANGED <<mem, flight>>

\* NewCache on an old directory: files become entries in directory order, the
\* ones beyond the capacity are deleted.  An empty file, which an interrupted
\* write may have left, is passed over.
AdoptExisting ==
    \E found \in SUBSET {k \in Idx : FileExists(k)} :
    \E s \in [1..Cardinality(found) -> found] :
       /\ \A k \in Idx \ found : FileExists(k) => ~file[k].whole
       /\ \A m, n \in DOMAIN s : m < n => s[m] < s[n]
       /\ order' = Evict(s)
       /\ file' = [k \in Idx |->
                      IF k \in found /\ \A m \in 1..Len(Evict(s)) : s[m] # k
                      THEN None ELSE file[k]]
       /\ mem' = <<>>
       /\ flight' = [k \in Idx |-> NoProc]

CacheTypeOK ==
    /\ order \in Seq(Idx) /\ Len(order) <= DiskCap
    /\ \A m, n \in 1..Len(order) : order[m] = order[n] => m = n
    /\ file \in [Idx -> Data]
    /\ mem \in Seq([key : Idx, data : Data]) /\ Len(mem) <= MemCap
    /\ flight \in [Idx -> Procs \cup {NoProc}]
    /\ gpc \in [Procs -> {"idle", "mem", "lookup", "read", "promote", "drop",
                          "miss", "reread", "redrop", "joined",
                          "fetch", "write", "writing", "insert",
                          "done", "error"}]
    /\ gkey \in [Procs -> Idx]
    /\ gmsg \in [Procs -> Versions]
    /\ gdata \in [Procs -> Data]
    /\ tries \in [Procs -> 0..MaxAttempt]
    /\ canceled \subseteq Procs

=============================================================================
