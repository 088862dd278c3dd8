--------------------------- MODULE ReadPathProofs ---------------------------
(***************************************************************************)
(* The read path for any number of slots, readers and prefetchers:         *)
(* whoever waits has a waker, a chunk is reported lost only after a failed *)
(* upload, and the cache follows the rows.                                 *)
(***************************************************************************)
EXTENDS ReadPath, SequenceTheorems, FiniteSetTheorems, FunctionTheorems, TLAPS

-----------------------------------------------------------------------------
(* The inductive invariant *)

Entry == [key : Idx, data : Data]
Unique(s) == \A m, n \in 1..Len(s) : s[m].key = s[n].key => m = n

GetLabels == {"idle", "mem", "lookup", "read", "promote", "drop", "miss", "reread",
              "redrop", "joined", "fetch", "write", "writing", "insert", "done", "error"}
UploadLabels == {"idle", "dispatched", "staged", "committed", "unstaged", "invalidating",
                 "invalid", "failed"}
ReadLabels == {"idle", "row", "get", "stage", "barrier", "parked", "rerow", "restage",
               "decoded", "eof", "canceled", "lost"}

\* The types the proofs need.
CacheTypes ==
    /\ order \in Seq(Idx) /\ file \in [Idx -> Data]
    /\ mem \in Seq(Entry) /\ Unique(mem)
    /\ flight \in [Idx -> Procs \cup {NoProc}]
GetTypes ==
    /\ gpc \in [Procs -> GetLabels] /\ gkey \in [Procs -> Idx]
    /\ gmsg \in [Procs -> Versions] /\ gdata \in [Procs -> Data]
FileTypes ==
    /\ row \in [Idx -> Versions] /\ uver \in [Idx -> Versions]
    /\ upc \in [Idx -> UploadLabels] /\ count \in Nat /\ drain \in Nat
ReadTypes ==
    /\ rpc \in [Readers -> ReadLabels] /\ parked \in [Readers -> Nat]
    /\ queue \in Seq([msg : Versions, from : Idx])
    /\ todo \in Seq([key : Idx, msg : Versions])
Types == CacheTypes /\ GetTypes /\ FileTypes /\ ReadTypes

\* A miss that is under way has a leader at work on it, and whoever has joined
\* one waits for such a leader.
Leading == {"reread", "redrop", "fetch", "write", "writing", "insert"}
FlightLed ==
    \A k \in Idx : flight[k] # NoProc => gpc[flight[k]] \in Leading /\ gkey[flight[k]] = k
JoinedBacked == \A p \in Procs : gpc[p] = "joined" => flight[gkey[p]] # NoProc

\* A read is inside Get only where it says so.
ReadersQuiet == \A r \in Readers : rpc[r] # "get" => gpc[r] = "idle"

\* PendingInodes counts the uploads under way; while it is positive, the
\* channel a read waits for is still to be closed.
Active == {k \in Idx : upc[k] \notin {"idle", "failed"}}
CountExact == count = Cardinality(Active)
ParkedBacked ==
    \A r \in Readers : rpc[r] = "parked" =>
        parked[r] <= drain /\ (parked[r] = drain => count > 0)

Waits == FlightLed /\ JoinedBacked /\ ReadersQuiet /\ CountExact /\ ParkedBacked

\* A slot that was dispatched once has a row, an upload before its row, or has
\* failed; and what a read that found no row knows of its slot.
Settled(k) == row[k] # 0 \/ k \in failed
Accepted ==
    \A k \in Idx :
        /\ upc[k] # "idle" \/ k \in sized => uver[k] # 0
        /\ uver[k] # 0 => Settled(k) \/ upc[k] \in {"dispatched", "staged"}
        /\ upc[k] = "failed" => k \in failed
LookingAt(r) ==
    /\ r \in inSize \/ rpc[r] \in {"stage", "barrier", "parked"} => uver[gkey[r]] # 0
    /\ rpc[r] = "parked" /\ parked[r] # drain => Settled(gkey[r])
    /\ rpc[r] = "rerow" => Settled(gkey[r])
    /\ rpc[r] \in {"restage", "lost"} => gkey[r] \in failed
Looking == \A r \in Readers : LookingAt(r)

NotLost == Accepted /\ Looking

\* A slot without a race: file and memory have the row's bytes, or their
\* invalidation is to come and will find them; whoever is at work on the slot
\* has the row's message or its bytes.
Asking == {"mem", "lookup", "read", "drop", "miss", "joined", "reread", "redrop", "fetch"}
Holding == {"promote", "write", "writing", "insert"}
StoredFresh(k) ==
    /\ FileExists(k) => file[k].ver = row[k]
    /\ \A m \in 1..Len(mem) : mem[m].key = k => mem[m].data.ver = row[k]
ToInvalidate(k) ==
    /\ FileExists(k) => Cached(k)
    /\ upc[k] = "invalidating" => ~MemHit(k)
UsersFresh(k) ==
    /\ \A p \in Procs : gkey[p] = k =>
          /\ gpc[p] \in Asking => gmsg[p] = row[k]
          /\ gpc[p] \in Holding => gdata[p].ver = row[k]
    /\ \A m \in 1..Len(todo) : todo[m].key = k => todo[m].msg = row[k]
Clean(k) ==
    /\ ~Replacing(k) => StoredFresh(k)
    /\ Replacing(k) => ToInvalidate(k)
    /\ UsersFresh(k)
AllClean == \A k \in Idx \ raced : Clean(k)

-----------------------------------------------------------------------------
(* LRU lists *)

\* Where the i-th element was before the m-th one went.
Was(i, m) == IF i < m THEN i ELSE i + 1

\* t is s, a list over S, without its m-th element.
IsWithoutAt(t, s, m, S) ==
    /\ t \in Seq(S) /\ Len(t) = Len(s) - 1
    /\ \A i \in 1..(Len(s) - 1) : Was(i, m) \in 1..Len(s) \ {m} /\ t[i] = s[Was(i, m)]
    /\ \A j \in 1..Len(s) \ {m} : \E i \in 1..(Len(s) - 1) : t[i] = s[j]

\* list.Remove takes one element and closes the gap.
LEMMA RemovedIs ==
  ASSUME NEW S, NEW s \in Seq(S), NEW m \in 1..Len(s)
  PROVE  IsWithoutAt(Removed(s, m), s, m, S)
  <1> DEFINE t == Removed(s, m)
             n == Len(s)
  <1>1. n \in Nat /\ m \in 1..n /\ \A i \in 1..n : s[i] \in S
    OBVIOUS
  <1> HIDE DEF n
  <1>2. \A i \in 1..(n - 1) : Was(i, m) \in 1..n \ {m}
    BY <1>1 DEF Was
  <1>3. t = [i \in 1..(n - 1) |-> IF i < m THEN s[i] ELSE s[i + 1]]
    BY DEF Removed, n
  <1>4. \A i \in 1..(n - 1) : t[i] = s[Was(i, m)]
    BY <1>3 DEF Was
  <1>5. \A i \in 1..(n - 1) : t[i] \in S
    BY <1>1, <1>2, <1>4
  <1>6. n - 1 \in Nat
    BY <1>1
  <1>7. t \in [1..(n - 1) -> S]
    BY <1>3, <1>5
  <1>8. t \in Seq(S) /\ Len(t) = n - 1
    <2>1. \A x \in Nat : \A f \in [1..x -> S] : f \in Seq(S) /\ Len(f) = x
      OBVIOUS
    <2> HIDE DEF t
    <2> QED BY <1>6, <1>7, <2>1
  <1>9. ASSUME NEW j \in 1..n \ {m} PROVE \E i \in 1..(n - 1) : t[i] = s[j]
    <2>1. CASE j < m
      <3>1. j \in 1..(n - 1) /\ Was(j, m) = j
        BY <1>1, <2>1 DEF Was
      <3> QED BY <1>4, <3>1
    <2>2. CASE ~(j < m)
      <3>1. j - 1 \in 1..(n - 1) /\ Was(j - 1, m) = j
        BY <1>1, <2>2 DEF Was
      <3> QED BY <1>4, <3>1
    <2> QED BY <2>1, <2>2
  <1> HIDE DEF t
  <1> QED BY <1>2, <1>4, <1>8, <1>9 DEF t, n, IsWithoutAt

\* The list t has every slot of s but perhaps k.
KeepsOthers(t, s, k) ==
    /\ t \in Seq(Idx)
    /\ \A i \in Idx \ {k} : (\E m \in 1..Len(s) : s[m] = i) => \E m \in 1..Len(t) : t[m] = i

\* The memory tier t has entries of s only, and none of slot k.
FreeOf(t, s, k) ==
    /\ t \in Seq(Entry) /\ Unique(t)
    /\ \A i \in 1..Len(t) : t[i].key # k /\ \E j \in 1..Len(s) : t[i] = s[j]

\* Without takes the slot away and nothing else.
LEMMA WithoutIs ==
  ASSUME NEW s \in Seq(Idx), NEW k \in Idx
  PROVE  KeepsOthers(Without(s, k), s, k)
  <1>1. CASE \E m \in 1..Len(s) : s[m] = k
    <2> DEFINE m == CHOOSE m \in 1..Len(s) : s[m] = k
    <2>1. m \in 1..Len(s) /\ s[m] = k
      BY <1>1
    <2>2. Without(s, k) = Removed(s, m)
      BY <1>1 DEF Without
    <2> HIDE DEF m
    <2>3. IsWithoutAt(Removed(s, m), s, m, Idx)
      BY <2>1, RemovedIs
    <2> DEFINE t == Removed(s, m)
    <2> HIDE DEF t
    <2>4. IsWithoutAt(t, s, m, Idx) /\ Without(s, k) = t
      BY <2>2, <2>3 DEF t
    <2>5. /\ t \in Seq(Idx) /\ Len(t) = Len(s) - 1
          /\ \A j \in 1..Len(s) \ {m} : \E i \in 1..Len(t) : t[i] = s[j]
      BY <2>4 DEF IsWithoutAt
    <2>6. ASSUME NEW i \in Idx \ {k}, NEW j \in 1..Len(s), s[j] = i
          PROVE  \E x \in 1..Len(t) : t[x] = i
      <3>1. j \in 1..Len(s) \ {m}
        BY <2>1, <2>6
      <3> QED BY <2>5, <2>6, <3>1
    <2>7. KeepsOthers(t, s, k)
      BY <2>5, <2>6 DEF KeepsOthers
    <2> QED BY <2>4, <2>7
  <1>2. CASE ~\E m \in 1..Len(s) : s[m] = k
    BY <1>2 DEF Without, KeepsOthers
  <1> QED BY <1>1, <1>2

\* The memory tier without a slot.
LEMMA MemWithoutIs ==
  ASSUME NEW s \in Seq(Entry), Unique(s), NEW k \in Idx
  PROVE  FreeOf(MemWithout(s, k), s, k)
  <1> DEFINE t == MemWithout(s, k)
  <1>1. CASE \E m \in 1..Len(s) : s[m].key = k
    <2> DEFINE m == CHOOSE m \in 1..Len(s) : s[m].key = k
    <2>1. m \in 1..Len(s) /\ s[m].key = k
      BY <1>1
    <2>2. t = Removed(s, m)
      BY <1>1 DEF MemWithout
    <2> HIDE DEF m
    <2>3. IsWithoutAt(Removed(s, m), s, m, Entry)
      BY <2>1, RemovedIs
    <2>4. IsWithoutAt(t, s, m, Entry)
      BY <2>2, <2>3
    <2> HIDE DEF t
    <2>f. t \in Seq(Entry) /\ Len(t) = Len(s) - 1
          /\ \A i \in 1..Len(t) : Was(i, m) \in 1..Len(s) \ {m} /\ t[i] = s[Was(i, m)]
      BY <2>4 DEF IsWithoutAt
    <2>5. \A i \in 1..Len(t) : t[i].key # k
      BY <2>1, <2>f DEF Unique
    <2>6. Unique(t)
      <3> SUFFICES ASSUME NEW i \in 1..Len(t), NEW j \in 1..Len(t), t[i].key = t[j].key
                   PROVE  i = j
        BY DEF Unique
      <3>1. Was(i, m) = Was(j, m)
        BY <2>f DEF Unique
      <3>2. i \in Nat /\ j \in Nat /\ m \in Nat
        BY <2>1, <2>f
      <3> QED BY <3>1, <3>2 DEF Was
    <2>7. \A i \in 1..Len(t) : \E j \in 1..Len(s) : t[i] = s[j]
      BY <2>f
    <2>8. FreeOf(t, s, k)
      BY <2>f, <2>5, <2>6, <2>7 DEF FreeOf
    <2> QED BY <2>8 DEF t
  <1>2. CASE ~\E m \in 1..Len(s) : s[m].key = k
    <2>1. t = s
      BY <1>2 DEF MemWithout
    <2>2. FreeOf(s, s, k)
      BY <1>2 DEF FreeOf
    <2> QED BY <2>1, <2>2
  <1> QED BY <1>1, <1>2

\* Eviction takes the end of a list away.
LEMMA ClampIs ==
  ASSUME NEW S, NEW s \in Seq(S), NEW n \in Nat
  PROVE  /\ Clamp(s, n) \in Seq(S) /\ Len(Clamp(s, n)) <= Len(s)
         /\ \A i \in 1..Len(Clamp(s, n)) : i \in 1..Len(s) /\ Clamp(s, n)[i] = s[i]
  <1>1. Len(s) \in Nat /\ \A i \in 1..Len(s) : s[i] \in S
    OBVIOUS
  <1>2. CASE Len(s) > n
    <2> DEFINE t == SubSeq(s, 1, n)
    <2>1. 1 \in Int /\ n \in Int /\ \A i \in 1..n : i \in 1..Len(s) /\ s[i] \in S
      BY <1>1, <1>2
    <2>2. /\ t \in Seq(S) /\ Len(t) = IF 1 <= n THEN n - 1 + 1 ELSE 0
          /\ \A i \in 1..(n - 1 + 1) : t[i] = s[1 + i - 1]
      BY <2>1, SubSeqProperties
    <2> HIDE DEF t
    <2>3. Len(t) = n /\ \A i \in 1..n : t[i] = s[i]
      BY <2>2
    <2>4. Clamp(s, n) = t
      BY <1>2 DEF Clamp, t
    <2> QED BY <1>1, <1>2, <2>1, <2>2, <2>3, <2>4
  <1>3. CASE ~(Len(s) > n)
    BY <1>1, <1>3 DEF Clamp
  <1> QED BY <1>2, <1>3

\* An element pushed to the front.
LEMMA PushedIs ==
  ASSUME NEW S, NEW s \in Seq(S), NEW e \in S
  PROVE  /\ <<e>> \o s \in Seq(S) /\ Len(<<e>> \o s) = Len(s) + 1
         /\ (<<e>> \o s)[1] = e
         /\ \A i \in 1..Len(s) : (<<e>> \o s)[i + 1] = s[i]
         /\ \A i \in 1..(Len(s) + 1) : i = 1 \/ (i - 1 \in 1..Len(s) /\ (<<e>> \o s)[i] = s[i - 1])
  <1> DEFINE t == <<e>> \o s
  <1>1. <<e>> \in Seq(S) /\ Len(<<e>>) = 1 /\ <<e>>[1] = e /\ Len(s) \in Nat
    OBVIOUS
  <1>2. /\ t \in Seq(S) /\ Len(t) = 1 + Len(s)
        /\ \A i \in 1..(1 + Len(s)) : t[i] = IF i <= 1 THEN <<e>>[i] ELSE s[i - 1]
    BY <1>1, ConcatProperties
  <1> HIDE DEF t
  <1>3. Len(t) = Len(s) + 1 /\ t[1] = e
    BY <1>1, <1>2
  <1>4. \A i \in 1..(Len(s) + 1) : i = 1 \/ (i - 1 \in 1..Len(s) /\ t[i] = s[i - 1])
    BY <1>1, <1>2
  <1>5. ASSUME NEW i \in 1..Len(s) PROVE t[i + 1] = s[i]
    <2>1. i + 1 \in 1..(1 + Len(s)) /\ ~(i + 1 <= 1) /\ (i + 1) - 1 = i
      BY <1>1
    <2> QED BY <1>2, <2>1
  <1> QED BY <1>2, <1>3, <1>4, <1>5 DEF t

\* MemCache.Put: entries of other slots stay what they were, or go.
LEMMA MemPutIs ==
  ASSUME NEW s \in Seq(Entry), Unique(s), NEW k \in Idx, NEW d \in Data
  PROVE  /\ MemPut(s, k, d) \in Seq(Entry) /\ Unique(MemPut(s, k, d))
         /\ \A i \in 1..Len(MemPut(s, k, d)) :
               \/ MemPut(s, k, d)[i] = [key |-> k, data |-> d]
               \/ \E j \in 1..Len(s) : MemPut(s, k, d)[i] = s[j]
  <1> DEFINE t == MemWithout(s, k)
             e == [key |-> k, data |-> d]
             u == <<e>> \o t
             v == Clamp(u, MemCap)
  <1>1. CASE d = None
    <2>1. MemPut(s, k, d) = s
      BY <1>1 DEF MemPut
    <2> QED BY <2>1
  <1>2. CASE d # None
    <2>0. FreeOf(t, s, k)
      BY MemWithoutIs
    <2>2. e \in Entry /\ e.key = k
      BY DEF Entry
    <2> HIDE DEF e, t
    <2>1. /\ t \in Seq(Entry) /\ Unique(t)
          /\ \A i \in 1..Len(t) : t[i].key # k /\ \E j \in 1..Len(s) : t[i] = s[j]
      BY <2>0 DEF FreeOf
    <2>3. /\ u \in Seq(Entry) /\ Len(u) = Len(t) + 1 /\ u[1] = e
          /\ \A i \in 1..(Len(t) + 1) : i = 1 \/ (i - 1 \in 1..Len(t) /\ u[i] = t[i - 1])
      BY <2>1, <2>2, PushedIs
    <2> HIDE DEF u
    <2>4. ASSUME NEW i \in 1..Len(u) PROVE u[i] = e \/ \E j \in 1..Len(s) : u[i] = s[j]
      <3>1. i = 1 \/ (i - 1 \in 1..Len(t) /\ u[i] = t[i - 1])
        BY <2>3
      <3>2. CASE i = 1
        BY <2>3, <3>2
      <3>3. CASE i - 1 \in 1..Len(t) /\ u[i] = t[i - 1]
        <4>1. \E j \in 1..Len(s) : t[i - 1] = s[j]
          BY <2>1, <3>3
        <4> QED BY <3>3, <4>1
      <3> QED BY <3>1, <3>2, <3>3
    <2>5. Unique(u)
      <3> SUFFICES ASSUME NEW i \in 1..Len(u), NEW j \in 1..Len(u), u[i].key = u[j].key
                   PROVE  i = j
        BY DEF Unique
      <3>0. Len(t) \in Nat /\ i \in Nat /\ j \in Nat
        BY <2>1, <2>3
      <3>1. CASE i = 1 /\ j = 1
        BY <3>1
      <3>2. CASE i # 1 /\ j # 1
        <4>1. i - 1 \in 1..Len(t) /\ j - 1 \in 1..Len(t) /\ t[i - 1].key = t[j - 1].key
          BY <2>3, <3>2
        <4>2. i - 1 = j - 1
          BY <2>1, <4>1 DEF Unique
        <4> QED BY <3>0, <4>2
      <3>3. CASE i = 1 /\ j # 1
        BY <2>1, <2>2, <2>3, <3>3
      <3>4. CASE i # 1 /\ j = 1
        BY <2>1, <2>2, <2>3, <3>4
      <3> QED BY <3>1, <3>2, <3>3, <3>4
    <2>6. /\ v \in Seq(Entry)
          /\ \A i \in 1..Len(v) : i \in 1..Len(u) /\ v[i] = u[i]
      BY <2>3, CacheAssumption, ClampIs
    <2> HIDE DEF v
    <2>7. Unique(v)
      BY <2>5, <2>6 DEF Unique
    <2>8. MemPut(s, k, d) = v
      BY <1>2 DEF MemPut, v, u, e, t
    <2>9. \A i \in 1..Len(v) : v[i] = e \/ \E j \in 1..Len(s) : v[i] = s[j]
      BY <2>4, <2>6
    <2> QED BY <2>6, <2>7, <2>8, <2>9 DEF e
  <1> QED BY <1>1, <1>2

-----------------------------------------------------------------------------
(* Uploads *)

\* PendingInodes counts one upload more.
LEMMA CountUp ==
  ASSUME FileTypes, CountExact, NEW k \in Idx, NEW l \in UploadLabels \ {"idle", "failed"},
         upc[k] \in {"idle", "failed"}, upc' = [upc EXCEPT ![k] = l], count' = count + 1
  PROVE  CountExact' /\ count' \in Nat /\ count' > 0
  <1>1. Active' = Active \cup {k} /\ k \notin Active
    BY DEF Active, FileTypes
  <1>2. IsFiniteSet(Active)
    <2>1. Active \subseteq Idx
      BY DEF Active
    <2> QED BY <2>1, CacheAssumption, FS_Subset
  <1>3. Cardinality(Active \cup {k}) = Cardinality(Active) + 1
    BY <1>1, <1>2, FS_AddElement
  <1>4. count' = Cardinality(Active')
    BY <1>1, <1>3 DEF CountExact
  <1> QED BY <1>4 DEF CountExact, FileTypes

\* PendingInodes counts one upload fewer; after the last one, none is left.
LEMMA CountDown ==
  ASSUME FileTypes, CountExact, NEW k \in Idx, NEW l \in {"idle", "failed"},
         upc[k] \notin {"idle", "failed"}, upc' = [upc EXCEPT ![k] = l], count' = count - 1
  PROVE  /\ CountExact' /\ count' \in Nat /\ count \in Nat \ {0}
         /\ count = 1 => \A i \in Idx : upc'[i] \in {"idle", "failed"}
  <1>1. Active' = Active \ {k} /\ k \in Active
    BY DEF Active, FileTypes
  <1>2. IsFiniteSet(Active)
    <2>1. Active \subseteq Idx
      BY DEF Active
    <2> QED BY <2>1, CacheAssumption, FS_Subset
  <1>3. Cardinality(Active \ {k}) = Cardinality(Active) - 1 /\ IsFiniteSet(Active \ {k})
    BY <1>1, <1>2, FS_RemoveElement
  <1>4. count' = Cardinality(Active') /\ IsFiniteSet(Active')
    BY <1>1, <1>3 DEF CountExact
  <1>5. count' \in Nat
    BY <1>4, FS_CardinalityType
  <1>6. count \in Nat /\ count # 0
    BY <1>5 DEF FileTypes
  <1>7. ASSUME count = 1 PROVE \A i \in Idx : upc'[i] \in {"idle", "failed"}
    <2>1. count' = 0
      BY <1>7
    <2>2. Active' = {}
      BY <1>4, <2>1, FS_EmptySet
    <2> QED BY <2>2 DEF Active
  <1> QED BY <1>4, <1>5, <1>6, <1>7 DEF CountExact

\* PendingInodes counts as before.
LEMMA CountSame ==
  ASSUME CountExact, UNCHANGED count,
         \A k \in Idx : upc'[k] \in {"idle", "failed"} <=> upc[k] \in {"idle", "failed"}
  PROVE  CountExact'
  <1>1. Active' = Active
    BY DEF Active
  <1> QED BY <1>1 DEF CountExact

\* What an upload leaves alone.
LEMMA UploadFrame ==
  ASSUME Types, Waits, UNCHANGED <<flight, gpc, gkey, gmsg, gdata, rpc, parked, queue, todo>>
  PROVE  GetTypes' /\ ReadTypes' /\ FlightLed' /\ JoinedBacked' /\ ReadersQuiet'
  <1>1. GetTypes' /\ ReadTypes'
    BY DEF Types, GetTypes, ReadTypes
  <1>2. FlightLed' /\ JoinedBacked' /\ ReadersQuiet'
    BY DEF Waits, FlightLed, JoinedBacked, ReadersQuiet
  <1> QED BY <1>1, <1>2

\* A read stays backed while the count stays positive, or its channel closes.
LEMMA ParkedKept ==
  ASSUME Types, ParkedBacked, UNCHANGED <<rpc, parked>>, count \in Nat, count' \in Nat,
         \/ drain' = drain /\ (count > 0 => count' > 0)
         \/ drain' = drain + 1
  PROVE  ParkedBacked'
  <1>1. drain \in Nat /\ \A r \in Readers : parked[r] \in Nat
    BY DEF Types, FileTypes, ReadTypes
  <1>2. \A x, y \in Nat : x <= y => x <= y + 1 /\ x # y + 1
    OBVIOUS
  <1> SUFFICES ASSUME NEW r \in Readers, rpc[r] = "parked"
               PROVE  parked[r] <= drain' /\ (parked[r] = drain' => count' > 0)
    BY DEF ParkedBacked
  <1>3. parked[r] <= drain /\ (parked[r] = drain => count > 0)
    BY DEF ParkedBacked
  <1> QED BY <1>1, <1>2, <1>3

\* What a read knows of its slot stays true, and a channel closes only when
\* every upload is over.
LEMMA LookingKept ==
  ASSUME Types, Looking, Accepted', UNCHANGED <<rpc, gkey, inSize, parked>>,
         \A k \in Idx : uver[k] # 0 => uver'[k] # 0,
         \A k \in Idx : row[k] # 0 => row'[k] # 0,
         failed \subseteq failed',
         drain' = drain \/ \A k \in Idx : upc'[k] \in {"idle", "failed"}
  PROVE  Looking'
  <1> SUFFICES ASSUME NEW r \in Readers
               PROVE  /\ r \in inSize \/ rpc[r] \in {"stage", "barrier", "parked"} => uver'[gkey[r]] # 0
                      /\ rpc[r] = "parked" /\ parked[r] # drain' => Settled(gkey[r])'
                      /\ rpc[r] = "rerow" => Settled(gkey[r])'
                      /\ rpc[r] \in {"restage", "lost"} => gkey[r] \in failed'
    BY DEF Looking, LookingAt, Settled
  <1>1. gkey[r] \in Idx
    BY ReadAssumption DEF Types, GetTypes
  <1>2. Settled(gkey[r]) => Settled(gkey[r])'
    BY <1>1 DEF Settled
  <1>3. /\ r \in inSize \/ rpc[r] \in {"stage", "barrier", "parked"} => uver'[gkey[r]] # 0
        /\ rpc[r] = "rerow" => Settled(gkey[r])'
        /\ rpc[r] \in {"restage", "lost"} => gkey[r] \in failed'
    BY <1>1, <1>2 DEF Looking, LookingAt
  <1>4. ASSUME rpc[r] = "parked", parked[r] # drain' PROVE Settled(gkey[r])'
    <2>1. CASE drain' = drain
      BY <1>2, <1>4, <2>1 DEF Looking, LookingAt
    <2>2. CASE \A k \in Idx : upc'[k] \in {"idle", "failed"}
      BY <1>1, <1>3, <1>4, <2>2 DEF Accepted, Settled
    <2> QED BY <2>1, <2>2
  <1> QED BY <1>3, <1>4

\* An upload step that touches neither rows nor cache.
LEMMA CleanKept ==
  ASSUME Types, AllClean,
         UNCHANGED <<order, file, mem, row, gpc, gkey, gmsg, gdata, todo, raced>>,
         \A k \in Idx : /\ Replacing(k)' <=> Replacing(k)
                        /\ upc'[k] = "invalidating" => upc[k] = "invalidating"
  PROVE  AllClean'
  BY DEF AllClean, Clean, StoredFresh, ToInvalidate, UsersFresh, FileExists, Cached, MemHit

\* The invariant, in its two halves.
WaitInv == Types /\ Waits
ReadInv == WaitInv /\ NotLost /\ AllClean

\* Dispatch and Redispatch.
LEMMA DispatchKeeps ==
  ASSUME WaitInv, NEW k \in Idx, Dispatch(k) \/ Redispatch(k)
  PROVE  WaitInv' /\ (ReadInv => ReadInv')
  <1>1. /\ UNCHANGED <<order, file, mem, flight, gpc, gkey, gmsg, gdata, row, staged, sized, drain>>
        /\ UNCHANGED <<rpc, inSize, parked, covered, queue, todo, raced, failed>>
        /\ upc[k] \in {"idle", "failed"} /\ upc' = [upc EXCEPT ![k] = "dispatched"]
        /\ count' = count + 1
    BY DEF Dispatch, Redispatch, cacheVars, getVars, readVars, blobVars, histVars
  <1>2. /\ uver' \in [Idx -> Versions]
        /\ \A i \in Idx : uver[i] # 0 => uver'[i] # 0
        /\ \A i \in Idx \ {k} : uver'[i] = uver[i]
        /\ ReadInv => uver'[k] # 0
    <2>1. CASE Dispatch(k)
      <3>1. uver' = [uver EXCEPT ![k] = @ + 1] /\ uver[k] < MaxVer /\ uver \in [Idx -> Versions]
        BY <2>1 DEF Dispatch, WaitInv, Types, FileTypes
      <3>2. uver[k] \in Nat /\ uver[k] + 1 \in Versions /\ uver[k] + 1 # 0
        BY <3>1, CacheAssumption DEF Versions
      <3> QED BY <3>1, <3>2
    <2>2. CASE Redispatch(k)
      <3>1. UNCHANGED uver /\ upc[k] = "failed"
        BY <2>2 DEF Redispatch
      <3>2. ReadInv => uver[k] # 0
        BY <3>1 DEF ReadInv, NotLost, Accepted
      <3> QED BY <3>1, <3>2 DEF WaitInv, Types, FileTypes
    <2> QED BY <2>1, <2>2
  <1>3. CountExact' /\ count' \in Nat /\ count' > 0 /\ count \in Nat
    <2>1. "dispatched" \in UploadLabels \ {"idle", "failed"}
      BY DEF UploadLabels
    <2> QED BY <1>1, <2>1, CountUp DEF WaitInv, Types, Waits, FileTypes
  <1>4. /\ upc \in [Idx -> UploadLabels] /\ upc' \in [Idx -> UploadLabels]
        /\ upc'[k] = "dispatched" /\ \A i \in Idx \ {k} : upc'[i] = upc[i]
    BY <1>1 DEF WaitInv, Types, FileTypes, UploadLabels
  <1>5. Types'
    <2>1. FileTypes'
      BY <1>1, <1>2, <1>3, <1>4 DEF WaitInv, Types, FileTypes
    <2>2. CacheTypes'
      BY <1>1 DEF WaitInv, Types, CacheTypes
    <2> QED BY <1>1, <2>1, <2>2, UploadFrame DEF WaitInv, Types
  <1>6. Waits'
    <2>1. ParkedBacked'
      BY <1>1, <1>3, ParkedKept DEF WaitInv, Waits
    <2> QED BY <1>1, <1>3, <2>1, UploadFrame DEF WaitInv, Waits
  <1>7. ASSUME ReadInv PROVE NotLost' /\ AllClean'
    <2>1. Accepted'
      BY <1>1, <1>2, <1>4, <1>7 DEF ReadInv, NotLost, Accepted, Settled
    <2>2. Looking'
      BY <1>1, <1>2, <1>7, <2>1, LookingKept DEF ReadInv, WaitInv, NotLost
    <2>3. \A i \in Idx : /\ Replacing(i)' <=> Replacing(i)
                         /\ upc'[i] = "invalidating" => upc[i] = "invalidating"
      BY <1>1, <1>4 DEF Replacing
    <2>4. AllClean'
      BY <1>1, <1>7, <2>3, CleanKept DEF ReadInv, WaitInv
    <2> QED BY <2>1, <2>2, <2>4 DEF NotLost
  <1> QED BY <1>5, <1>6, <1>7 DEF WaitInv, ReadInv

\* SetSize, Stage and Unstage.
LEMMA StageKeeps ==
  ASSUME WaitInv, NEW k \in Idx, SetSize(k) \/ Stage(k) \/ Unstage(k)
  PROVE  WaitInv' /\ (ReadInv => ReadInv')
  <1>1. /\ UNCHANGED <<order, file, mem, flight, gpc, gkey, gmsg, gdata, row, uver, count, drain>>
        /\ UNCHANGED <<rpc, inSize, parked, covered, queue, todo, raced, failed>>
        /\ \/ UNCHANGED upc /\ sized' = sized \cup {k} /\ uver[k] # 0
           \/ /\ upc[k] = "dispatched" /\ upc' = [upc EXCEPT ![k] = "staged"] /\ UNCHANGED sized
           \/ /\ upc[k] = "committed" /\ upc' = [upc EXCEPT ![k] = "unstaged"] /\ UNCHANGED sized
    BY DEF SetSize, Stage, Unstage, UploadStep, cacheVars, getVars, readVars, blobVars, histVars
  <1>2. upc \in [Idx -> UploadLabels]
    BY DEF WaitInv, Types, FileTypes
  <1>3. /\ upc' \in [Idx -> UploadLabels]
        /\ \A i \in Idx : \/ upc'[i] = upc[i]
                          \/ upc[i] = "dispatched" /\ upc'[i] = "staged"
                          \/ upc[i] = "committed" /\ upc'[i] = "unstaged"
    BY <1>1, <1>2 DEF UploadLabels
  <1>4. CountExact'
    BY <1>1, <1>3, CountSame DEF WaitInv, Waits
  <1>5. Types'
    <2>1. FileTypes'
      BY <1>1, <1>3 DEF WaitInv, Types, FileTypes
    <2>2. CacheTypes'
      BY <1>1 DEF WaitInv, Types, CacheTypes
    <2> QED BY <1>1, <2>1, <2>2, UploadFrame DEF WaitInv, Types
  <1>6. Waits'
    <2>1. ParkedBacked'
      BY <1>1, ParkedKept DEF WaitInv, Types, FileTypes, Waits
    <2> QED BY <1>1, <1>4, <2>1, UploadFrame DEF WaitInv, Waits
  <1>7. ASSUME ReadInv PROVE NotLost' /\ AllClean'
    <2>1. Accepted'
      BY <1>1, <1>3, <1>7 DEF ReadInv, NotLost, Accepted, Settled
    <2>2. Looking'
      BY <1>1, <1>7, <2>1, LookingKept DEF ReadInv, WaitInv, NotLost
    <2>3. \A i \in Idx : /\ Replacing(i)' <=> Replacing(i)
                         /\ upc'[i] = "invalidating" => upc[i] = "invalidating"
      BY <1>3 DEF Replacing
    <2>4. AllClean'
      BY <1>1, <1>7, <2>3, CleanKept DEF ReadInv, WaitInv
    <2> QED BY <2>1, <2>2, <2>4 DEF NotLost
  <1> QED BY <1>5, <1>6, <1>7 DEF WaitInv, ReadInv

\* Release and UploadFails: the last one closes the channel.
LEMMA EndKeeps ==
  ASSUME WaitInv, NEW k \in Idx, Release(k) \/ UploadFails(k)
  PROVE  WaitInv' /\ (ReadInv => ReadInv')
  <1>1. /\ UNCHANGED <<order, file, mem, flight, gpc, gkey, gmsg, gdata, row, uver, sized>>
        /\ UNCHANGED <<rpc, inSize, parked, covered, queue, todo, raced>>
        /\ count' = count - 1 /\ drain' = IF count = 1 THEN drain + 1 ELSE drain
        /\ \/ upc[k] = "invalid" /\ upc' = [upc EXCEPT ![k] = "idle"] /\ UNCHANGED failed
           \/ upc[k] = "staged" /\ upc' = [upc EXCEPT ![k] = "failed"] /\ failed' = failed \cup {k}
    BY DEF Release, UploadFails, UploadStep, End, cacheVars, getVars, readVars, blobVars, histVars
  <1>2. upc \in [Idx -> UploadLabels] /\ count \in Nat /\ drain \in Nat
    BY DEF WaitInv, Types, FileTypes
  <1>3. /\ upc' \in [Idx -> UploadLabels]
        /\ \A i \in Idx : \/ upc'[i] = upc[i]
                          \/ upc[i] = "invalid" /\ upc'[i] = "idle"
                          \/ upc[i] = "staged" /\ upc'[i] = "failed" /\ i \in failed'
    BY <1>1, <1>2 DEF UploadLabels
  <1>4. /\ CountExact' /\ count' \in Nat /\ count \in Nat \ {0}
        /\ count = 1 => \A i \in Idx : upc'[i] \in {"idle", "failed"}
    BY <1>1, CountDown DEF WaitInv, Types, Waits
  <1>5. (drain' = drain /\ count' > 0) \/ (drain' = drain + 1 /\ count = 1)
    BY <1>1, <1>4
  <1>6. Types'
    <2>1. FileTypes'
      BY <1>1, <1>2, <1>3, <1>4, <1>5 DEF WaitInv, Types, FileTypes
    <2>2. CacheTypes'
      BY <1>1 DEF WaitInv, Types, CacheTypes
    <2> QED BY <1>1, <2>1, <2>2, UploadFrame DEF WaitInv, Types
  <1>7. Waits'
    <2>1. ParkedBacked'
      BY <1>1, <1>2, <1>4, <1>5, ParkedKept DEF WaitInv, Waits
    <2> QED BY <1>1, <1>4, <2>1, UploadFrame DEF WaitInv, Waits
  <1>8. ASSUME ReadInv PROVE NotLost' /\ AllClean'
    <2>1. failed \subseteq failed'
      BY <1>1
    <2>2. \A i \in Idx : upc[i] = "invalid" /\ uver[i] # 0 => Settled(i)
      BY <1>8 DEF ReadInv, NotLost, Accepted
    <2>3. Accepted'
      BY <1>1, <1>3, <1>8, <2>1, <2>2 DEF ReadInv, NotLost, Accepted, Settled
    <2>4. Looking'
      BY <1>1, <1>4, <1>5, <1>8, <2>1, <2>3, LookingKept DEF ReadInv, WaitInv, NotLost
    <2>5. \A i \in Idx : /\ Replacing(i)' <=> Replacing(i)
                         /\ upc'[i] = "invalidating" => upc[i] = "invalidating"
      BY <1>3 DEF Replacing
    <2>6. AllClean'
      BY <1>1, <1>8, <2>5, CleanKept DEF ReadInv, WaitInv
    <2> QED BY <2>3, <2>4, <2>6 DEF NotLost
  <1> QED BY <1>6, <1>7, <1>8 DEF WaitInv, ReadInv

\* PutChunk: a slot nobody is at work on is clean, its entry to be invalidated.
LEMMA PutChunkKeeps ==
  ASSUME WaitInv, NEW k \in Idx, PutChunk(k)
  PROVE  WaitInv' /\ (ReadInv => ReadInv')
  <1>1. /\ UNCHANGED <<order, file, mem, flight, gpc, gkey, gmsg, gdata, uver, sized, count, drain>>
        /\ UNCHANGED <<rpc, inSize, parked, covered, queue, todo, failed>>
        /\ upc[k] = "staged" /\ upc' = [upc EXCEPT ![k] = "committed"]
        /\ row' = [row EXCEPT ![k] = uver[k]]
        /\ raced' = IF Using(k) # {} \/ Orphan(k) THEN raced \cup {k} ELSE raced \ {k}
    BY DEF PutChunk, UploadStep, cacheVars, getVars, readVars, blobVars
  <1>2. /\ upc \in [Idx -> UploadLabels] /\ row \in [Idx -> Versions] /\ uver \in [Idx -> Versions]
    BY DEF WaitInv, Types, FileTypes
  <1>3. /\ upc' \in [Idx -> UploadLabels] /\ row' \in [Idx -> Versions]
        /\ upc'[k] = "committed" /\ row'[k] = uver[k]
        /\ \A i \in Idx \ {k} : upc'[i] = upc[i] /\ row'[i] = row[i]
    BY <1>1, <1>2 DEF UploadLabels
  <1>4. CountExact'
    BY <1>1, <1>3, CountSame DEF WaitInv, Waits
  <1>5. Types'
    <2>1. FileTypes'
      BY <1>1, <1>3 DEF WaitInv, Types, FileTypes
    <2>2. CacheTypes'
      BY <1>1 DEF WaitInv, Types, CacheTypes
    <2> QED BY <1>1, <2>1, <2>2, UploadFrame DEF WaitInv, Types
  <1>6. Waits'
    <2>1. ParkedBacked'
      BY <1>1, ParkedKept DEF WaitInv, Types, FileTypes, Waits
    <2> QED BY <1>1, <1>4, <2>1, UploadFrame DEF WaitInv, Waits
  <1>7. ASSUME ReadInv PROVE NotLost'
    <2>1. uver[k] # 0
      BY <1>1, <1>7 DEF ReadInv, NotLost, Accepted
    <2>2. \A i \in Idx : row[i] # 0 => row'[i] # 0
      BY <1>3, <2>1
    <2>3. Accepted'
      BY <1>1, <1>3, <1>7, <2>1, <2>2 DEF ReadInv, NotLost, Accepted, Settled
    <2>4. Looking'
      BY <1>1, <1>7, <2>2, <2>3, LookingKept DEF ReadInv, WaitInv, NotLost
    <2> QED BY <2>3, <2>4 DEF NotLost
  <1>8. ASSUME ReadInv PROVE AllClean'
    <2> SUFFICES ASSUME NEW i \in Idx, i \notin raced' PROVE Clean(i)'
      BY DEF AllClean
    <2>1. CASE i = k
      <3>1. Using(k) = {} /\ ~Orphan(k)
        BY <1>1, <2>1
      <3>2. \A p \in Procs : gkey[p] = k => gpc[p] = "idle"
        BY <3>1 DEF Using
      <3>3. \A m \in 1..Len(todo) : todo[m].key # k
        BY <3>1 DEF Using
      <3>4. UsersFresh(i)'
        BY <1>1, <2>1, <3>2, <3>3 DEF UsersFresh, Asking, Holding
      <3>5. Replacing(i)' /\ ToInvalidate(i)'
        BY <1>1, <1>3, <2>1, <3>1 DEF Replacing, ToInvalidate, Orphan, FileExists, Cached
      <3> QED BY <3>4, <3>5 DEF Clean
    <2>2. CASE i # k
      <3>1. i \notin raced /\ row'[i] = row[i] /\ upc'[i] = upc[i]
        BY <1>1, <1>3, <2>2
      <3>2. Clean(i)
        BY <1>8, <3>1 DEF ReadInv, AllClean
      <3> QED BY <1>1, <3>1, <3>2 DEF Clean, StoredFresh, ToInvalidate, UsersFresh, FileExists,
                                      Cached, MemHit, Replacing
    <2> QED BY <2>1, <2>2
  <1> QED BY <1>5, <1>6, <1>7, <1>8 DEF WaitInv, ReadInv

\* Invalidate: what it leaves behind of the slot is fresh, unless raced.
LEMMA InvalidateKeeps ==
  ASSUME WaitInv, NEW k \in Idx, Invalidate(k)
  PROVE  WaitInv' /\ (ReadInv => ReadInv')
  <1>1. /\ UNCHANGED <<flight, gpc, gkey, gmsg, gdata, row, uver, sized, count, drain>>
        /\ UNCHANGED <<rpc, inSize, parked, covered, queue, todo, failed>>
        /\ raced' = IF Using(k) # {} THEN raced \cup {k} ELSE raced
        /\ \/ /\ upc[k] = "unstaged" /\ upc' = [upc EXCEPT ![k] = "invalidating"]
              /\ mem' = MemWithout(mem, k) /\ UNCHANGED <<order, file>>
           \/ /\ upc[k] = "invalidating" /\ upc' = [upc EXCEPT ![k] = "invalid"]
              /\ order' = Without(order, k) /\ UNCHANGED mem
              /\ file' = IF Cached(k) THEN [file EXCEPT ![k] = None] ELSE file
    BY DEF Invalidate, UploadStep, InvalidateMem, InvalidateDisk, getVars, readVars, blobVars
  <1>2. /\ upc \in [Idx -> UploadLabels] /\ order \in Seq(Idx) /\ file \in [Idx -> Data]
        /\ mem \in Seq(Entry) /\ Unique(mem)
    BY DEF WaitInv, Types, FileTypes, CacheTypes
  <1>3. /\ upc' \in [Idx -> UploadLabels] /\ \A i \in Idx \ {k} : upc'[i] = upc[i]
        /\ \/ upc[k] = "unstaged" /\ upc'[k] = "invalidating"
           \/ upc[k] = "invalidating" /\ upc'[k] = "invalid"
    BY <1>1, <1>2 DEF UploadLabels
  <1>4. /\ mem' \in Seq(Entry) /\ Unique(mem')
        /\ \A m \in 1..Len(mem') : \E j \in 1..Len(mem) : mem'[m] = mem[j]
        /\ upc'[k] = "invalidating" => \A m \in 1..Len(mem') : mem'[m].key # k
    <2>1. CASE mem' = MemWithout(mem, k)
      <3>1. FreeOf(MemWithout(mem, k), mem, k)
        BY <1>2, MemWithoutIs
      <3>2. FreeOf(mem', mem, k)
        BY <2>1, <3>1
      <3> QED BY <3>2 DEF FreeOf
    <2>2. CASE UNCHANGED mem /\ upc'[k] = "invalid"
      BY <1>2, <2>2
    <2> QED BY <1>1, <1>2, <1>3, <2>1, <2>2
  <1>5. /\ order' \in Seq(Idx)
        /\ \A i \in Idx \ {k} : Cached(i) => Cached(i)'
    <2>1. CASE order' = Without(order, k)
      <3>1. KeepsOthers(Without(order, k), order, k)
        BY <1>2, WithoutIs
      <3>2. KeepsOthers(order', order, k)
        BY <2>1, <3>1
      <3> QED BY <3>2 DEF KeepsOthers, Cached
    <2>2. CASE order' = order
      BY <1>2, <2>2 DEF Cached
    <2> QED BY <1>1, <2>1, <2>2
  <1>6. /\ file' \in [Idx -> Data] /\ \A i \in Idx \ {k} : file'[i] = file[i]
        /\ upc'[k] = "invalidating" => UNCHANGED <<file, order>>
        /\ upc'[k] = "invalid" => UNCHANGED mem /\ (FileExists(k)' => FileExists(k) /\ ~Cached(k))
    <2>1. None \in Data
      BY CacheAssumption DEF None, Data, Versions
    <2> QED BY <1>1, <1>2, <1>3, <2>1 DEF FileExists
  <1>7. CountExact'
    BY <1>1, <1>3, CountSame DEF WaitInv, Waits
  <1>8. Types'
    <2>1. FileTypes'
      BY <1>1, <1>3 DEF WaitInv, Types, FileTypes
    <2>2. CacheTypes'
      BY <1>1, <1>4, <1>5, <1>6 DEF WaitInv, Types, CacheTypes
    <2> QED BY <1>1, <2>1, <2>2, UploadFrame DEF WaitInv, Types
  <1>9. Waits'
    <2>1. ParkedBacked'
      BY <1>1, ParkedKept DEF WaitInv, Types, FileTypes, Waits
    <2> QED BY <1>1, <1>7, <2>1, UploadFrame DEF WaitInv, Waits
  <1>10. ASSUME ReadInv PROVE NotLost'
    <2>1. Accepted'
      BY <1>1, <1>3, <1>10 DEF ReadInv, NotLost, Accepted, Settled
    <2>2. Looking'
      BY <1>1, <1>10, <2>1, LookingKept DEF ReadInv, WaitInv, NotLost
    <2> QED BY <2>1, <2>2 DEF NotLost
  <1>11. ASSUME ReadInv PROVE AllClean'
    <2> SUFFICES ASSUME NEW i \in Idx, i \notin raced' PROVE Clean(i)'
      BY DEF AllClean
    <2>1. Clean(i)
      BY <1>1, <1>11 DEF ReadInv, AllClean
    <2>2. UsersFresh(i)'
      BY <1>1, <2>1 DEF Clean, UsersFresh
    <2>3. CASE i # k
      <3>1. (Replacing(i)' <=> Replacing(i)) /\ upc'[i] = upc[i] /\ file'[i] = file[i] /\ row'[i] = row[i]
        BY <1>1, <1>3, <1>6, <2>3 DEF Replacing
      <3>2. ~Replacing(i)' => StoredFresh(i)'
        BY <1>4, <2>1, <3>1 DEF Clean, StoredFresh, FileExists
      <3>3. MemHit(i)' => MemHit(i)
        BY <1>4 DEF MemHit
      <3>4. Replacing(i)' => ToInvalidate(i)'
        BY <1>5, <2>1, <2>3, <3>1, <3>3 DEF Clean, ToInvalidate, FileExists
      <3> QED BY <2>2, <3>2, <3>4 DEF Clean
    <2>4. CASE i = k /\ upc'[k] = "invalidating"
      <3>1. Replacing(i) /\ Replacing(i)' /\ UNCHANGED <<file, order>>
        BY <1>3, <1>6, <2>4 DEF Replacing
      <3>2. ToInvalidate(i)'
        BY <1>4, <2>1, <2>4, <3>1 DEF Clean, ToInvalidate, FileExists, Cached, MemHit
      <3> QED BY <2>2, <3>1, <3>2 DEF Clean
    <2>5. CASE i = k /\ upc'[k] = "invalid"
      <3>1. Replacing(i) /\ ~Replacing(i)' /\ upc[i] = "invalidating"
        BY <1>3, <2>5 DEF Replacing
      <3>2. StoredFresh(i)'
        BY <1>6, <2>1, <2>5, <3>1 DEF Clean, ToInvalidate, StoredFresh, MemHit
      <3> QED BY <2>2, <3>1, <3>2 DEF Clean
    <2> QED BY <1>3, <2>3, <2>4, <2>5
  <1> QED BY <1>8, <1>9, <1>10, <1>11 DEF WaitInv, ReadInv

-----------------------------------------------------------------------------
(* Calls that begin and end *)

\* Steps of a read or a prefetch outside the cache: what stays, the readers
\* that are not concerned, the processes that move, and what they carry.
ReadFrame == UNCHANGED <<order, file, mem, flight, row, uver, upc, sized, count, drain, raced, failed>>
Elsewhere(R) ==
    \A r \in Readers \ R : /\ rpc'[r] = rpc[r] /\ gkey'[r] = gkey[r] /\ gpc'[r] = gpc[r]
                           /\ parked'[r] = parked[r] /\ (r \in inSize' => r \in inSize)
Moving ==
    \A p \in Procs : \/ gpc'[p] = gpc[p] /\ gkey'[p] = gkey[p]
                     \/ gpc[p] \notin Leading \cup {"joined"} /\ gpc'[p] # "joined"
Carrying ==
    \A p \in Procs : gkey'[p] \notin raced =>
        \/ gpc'[p] = gpc[p] /\ gkey'[p] = gkey[p] /\ gmsg'[p] = gmsg[p] /\ gdata'[p] = gdata[p]
        \/ gpc'[p] \notin Asking \cup Holding
        \/ gpc'[p] = "mem" /\ gmsg'[p] = row[gkey'[p]]
        \/ gpc'[p] = "write" /\ gdata'[p].ver = row[gkey'[p]]
Spanning ==
    \A m \in 1..Len(todo') : \/ \E j \in 1..Len(todo) : todo'[m] = todo[j]
                             \/ todo'[m].msg = row[todo'[m].key]

\* Such a step keeps the invariant.
LEMMA CallKeeps ==
  ASSUME WaitInv, NEW R \in SUBSET Readers, ReadFrame, Elsewhere(R), Moving, GetTypes', ReadTypes',
         \A r \in R : /\ rpc'[r] # "get" => gpc'[r] = "idle"
                      /\ rpc'[r] = "parked" => parked'[r] = drain /\ count > 0,
         ReadInv => Carrying /\ Spanning /\ \A r \in R : LookingAt(r)'
  PROVE  WaitInv' /\ (ReadInv => ReadInv')
  <1>1. /\ UNCHANGED <<order, file, mem, flight, row, uver, upc>>
        /\ UNCHANGED <<sized, count, drain, raced, failed>>
    BY DEF ReadFrame
  <1>2. Types'
    <2>1. CacheTypes' /\ FileTypes'
      BY <1>1 DEF WaitInv, Types, CacheTypes, FileTypes
    <2> QED BY <2>1 DEF Types
  <1>3. CountExact'
    BY <1>1 DEF WaitInv, Waits, CountExact, Active
  <1>4. FlightLed' /\ JoinedBacked'
    <2>1. \A k \in Idx : flight[k] \in Procs \cup {NoProc}
      BY DEF WaitInv, Types, CacheTypes
    <2> QED BY <1>1, <2>1 DEF WaitInv, Waits, FlightLed, JoinedBacked, Moving
  <1>5. ReadersQuiet'
    BY DEF WaitInv, Waits, ReadersQuiet, Elsewhere
  <1>6. ParkedBacked'
    <2> SUFFICES ASSUME NEW r \in Readers, rpc'[r] = "parked"
                 PROVE  parked'[r] <= drain /\ (parked'[r] = drain => count > 0)
      BY <1>1 DEF ParkedBacked
    <2>1. CASE r \in R
      BY <2>1 DEF WaitInv, Types, FileTypes
    <2>2. CASE r \notin R
      BY <2>2 DEF WaitInv, Waits, ParkedBacked, Elsewhere
    <2> QED BY <2>1, <2>2
  <1>7. ASSUME ReadInv PROVE NotLost'
    <2>1. Accepted'
      BY <1>1, <1>7 DEF ReadInv, NotLost, Accepted, Settled
    <2>2. ASSUME NEW r \in Readers PROVE LookingAt(r)'
      <3>1. CASE r \in R
        BY <1>7, <3>1
      <3>2. CASE r \notin R
        <4>1. LookingAt(r)
          BY <1>7 DEF ReadInv, NotLost, Looking
        <4> QED BY <1>1, <3>2, <4>1 DEF LookingAt, Elsewhere, Settled
      <3> QED BY <3>1, <3>2
    <2> QED BY <2>1, <2>2 DEF NotLost, Looking
  <1>8. ASSUME ReadInv PROVE AllClean'
    <2> SUFFICES ASSUME NEW k \in Idx, k \notin raced PROVE Clean(k)'
      BY <1>1 DEF AllClean
    <2>1. Clean(k)
      BY <1>8 DEF ReadInv, AllClean
    <2>2. (~Replacing(k)' => StoredFresh(k)') /\ (Replacing(k)' => ToInvalidate(k)')
      BY <1>1, <2>1 DEF Clean, Replacing, StoredFresh, ToInvalidate, FileExists, Cached, MemHit
    <2>3. ASSUME NEW p \in Procs, gkey'[p] = k
          PROVE  /\ gpc'[p] \in Asking => gmsg'[p] = row[k]
                 /\ gpc'[p] \in Holding => gdata'[p].ver = row[k]
      BY <1>8, <2>1, <2>3 DEF Carrying, Clean, UsersFresh, Asking, Holding
    <2>4. ASSUME NEW m \in 1..Len(todo'), todo'[m].key = k PROVE todo'[m].msg = row[k]
      BY <1>8, <2>1, <2>4 DEF Spanning, Clean, UsersFresh
    <2>5. UsersFresh(k)'
      BY <1>1, <2>3, <2>4 DEF UsersFresh
    <2> QED BY <2>2, <2>5 DEF Clean
  <1> QED BY <1>2, <1>3, <1>4, <1>5, <1>6, <1>7, <1>8 DEF WaitInv, Waits, ReadInv

\* Note queues at most one span.
LEMMA NoteIs ==
  ASSUME WaitInv, NEW k \in Idx, Note(k, row[k])
  PROVE  queue' \in Seq([msg : Versions, from : Idx]) /\ UNCHANGED todo
  <1> DEFINE e == [msg |-> row[k], from |-> k]
             Span == [msg : Versions, from : Idx]
  <1>1. queue \in Seq(Span) /\ row[k] \in Versions
    BY DEF WaitInv, Types, ReadTypes, FileTypes
  <1>2. e \in Span
    BY <1>1
  <1>3. UNCHANGED todo /\ (queue' = queue \/ queue' = Append(queue, e))
    BY DEF Note, blobVars
  <1> HIDE DEF e, Span
  <1>4. Append(queue, e) \in Seq(Span)
    BY <1>1, <1>2, AppendProperties
  <1>5. queue' \in Seq(Span)
    <2>1. CASE queue' = queue
      BY <1>1, <2>1
    <2>2. CASE queue' = Append(queue, e)
      BY <1>4, <2>2
    <2> QED BY <1>3, <2>1, <2>2
  <1> QED BY <1>3, <1>5 DEF Span

\* ReadAt starts a read and at most one prefetch, both idle before.
LEMMA ReadAtKeeps ==
  ASSUME WaitInv, NEW r \in Readers, NEW k \in Idx, NEW seek \in BOOLEAN, ReadAt(r, k, seek)
  PROVE  WaitInv' /\ (ReadInv => ReadInv')
  <1> DEFINE ahead == {q \in Ahead : gpc[q] = "idle"}
             go == Schedulable(k) /\ ahead # {}
             q == CHOOSE q \in ahead : TRUE
             hit == row[k] # 0
             starts == (IF hit THEN {r} ELSE {}) \cup (IF go THEN {q} ELSE {})
             slotOf(p) == IF p = r THEN k ELSE k + 1
  <1>1. /\ rpc[r] = "idle" /\ rpc' = [rpc EXCEPT ![r] = IF hit THEN "get" ELSE "row"]
        /\ inSize' = IF k \in sized THEN inSize \cup {r} ELSE inSize \ {r}
        /\ gpc' = [p \in Procs |-> IF p \in starts THEN "mem" ELSE gpc[p]]
        /\ gkey' = [p \in Procs |-> IF p \in starts \cup {r} THEN slotOf(p) ELSE gkey[p]]
        /\ gmsg' = [p \in Procs |-> IF p \in starts THEN row[slotOf(p)] ELSE gmsg[p]]
        /\ gdata' = [p \in Procs |-> IF p \in starts THEN None ELSE gdata[p]]
        /\ IF hit THEN Note(k, row[k]) ELSE UNCHANGED blobVars
        /\ UNCHANGED <<cacheVars, fileVars, parked, histVars>>
    BY DEF ReadAt
  <1>2. r \in Procs /\ r \notin Ahead /\ Ahead \subseteq Procs /\ Readers \subseteq Procs
        /\ Readers \cap Ahead = {}
    BY ReadAssumption
  <1>3. gpc[r] = "idle"
    BY <1>1 DEF WaitInv, Waits, ReadersQuiet
  <1>4. /\ starts \subseteq {r} \cup Ahead
        /\ r \in starts <=> hit
        /\ \A p \in starts : gpc[p] = "idle" /\ slotOf(p) \in Idx
    BY <1>2, <1>3 DEF Schedulable
  <1> HIDE DEF starts, ahead, q, go
  <1>5. GetTypes'
    <2>1. /\ gpc \in [Procs -> GetLabels] /\ gkey \in [Procs -> Idx] /\ gmsg \in [Procs -> Versions]
          /\ gdata \in [Procs -> Data] /\ row \in [Idx -> Versions]
      BY DEF WaitInv, Types, GetTypes, FileTypes
    <2>2. gpc' \in [Procs -> GetLabels]
      BY <1>1, <2>1 DEF GetLabels
    <2>3. gkey' \in [Procs -> Idx]
      BY <1>1, <1>4, <2>1
    <2>4. gmsg' \in [Procs -> Versions]
      BY <1>1, <1>4, <2>1
    <2>5. gdata' \in [Procs -> Data]
      <3>1. None \in Data
        BY CacheAssumption DEF None, Data, Versions
      <3> QED BY <1>1, <2>1, <3>1
    <2> QED BY <2>2, <2>3, <2>4, <2>5 DEF GetTypes
  <1>6. ReadTypes' /\ UNCHANGED todo
    <2>1. rpc' \in [Readers -> ReadLabels] /\ UNCHANGED parked
      BY <1>1 DEF WaitInv, Types, ReadTypes, ReadLabels
    <2>2. queue' \in Seq([msg : Versions, from : Idx]) /\ UNCHANGED todo
      BY <1>1, NoteIs DEF blobVars, WaitInv, Types, ReadTypes
    <2> QED BY <2>1, <2>2 DEF WaitInv, Types, ReadTypes
  <1>7. ReadFrame
    BY <1>1 DEF ReadFrame, cacheVars, fileVars, histVars
  <1>8. Elsewhere({r})
    <2> SUFFICES ASSUME NEW s \in Readers \ {r}
                 PROVE  /\ rpc'[s] = rpc[s] /\ gkey'[s] = gkey[s] /\ gpc'[s] = gpc[s]
                        /\ parked'[s] = parked[s] /\ (s \in inSize' => s \in inSize)
      BY DEF Elsewhere
    <2>1. s \in Procs /\ s \notin starts \cup {r}
      BY <1>2, <1>4
    <2>2. rpc'[s] = rpc[s]
      BY <1>1 DEF WaitInv, Types, ReadTypes
    <2> QED BY <1>1, <2>1, <2>2
  <1>9. Moving
    <2> SUFFICES ASSUME NEW p \in Procs
                 PROVE  \/ gpc'[p] = gpc[p] /\ gkey'[p] = gkey[p]
                        \/ gpc[p] \notin Leading \cup {"joined"} /\ gpc'[p] # "joined"
      BY DEF Moving
    <2>1. CASE p \in starts \cup {r}
      BY <1>1, <1>3, <1>4, <2>1 DEF Leading
    <2>2. CASE p \notin starts \cup {r}
      BY <1>1, <2>2
    <2> QED BY <2>1, <2>2
  <1>10. /\ rpc'[r] # "get" => gpc'[r] = "idle"
         /\ rpc'[r] # "parked" /\ rpc'[r] \in {"get", "row"}
    <2>1. rpc'[r] = IF hit THEN "get" ELSE "row"
      BY <1>1 DEF WaitInv, Types, ReadTypes
    <2> QED BY <1>1, <1>2, <1>3, <1>4, <2>1
  <1>11. ASSUME ReadInv PROVE Carrying /\ Spanning /\ LookingAt(r)'
    <2>1. Carrying
      <3> SUFFICES ASSUME NEW p \in Procs
                   PROVE  \/ /\ gpc'[p] = gpc[p] /\ gkey'[p] = gkey[p] /\ gmsg'[p] = gmsg[p]
                             /\ gdata'[p] = gdata[p]
                          \/ gpc'[p] \notin Asking \cup Holding
                          \/ gpc'[p] = "mem" /\ gmsg'[p] = row[gkey'[p]]
        BY DEF Carrying
      <3>1. CASE p \in starts
        BY <1>1, <3>1
      <3>2. CASE p = r /\ p \notin starts
        BY <1>1, <1>3, <3>2 DEF Asking, Holding
      <3>3. CASE p \notin starts \cup {r}
        BY <1>1, <3>3
      <3> QED BY <3>1, <3>2, <3>3
    <2>2. Spanning
      BY <1>6 DEF Spanning
    <2>3. gkey'[r] = k /\ (r \in inSize' => k \in sized) /\ UNCHANGED <<uver, row, failed>>
      BY <1>1, <1>2, <1>7 DEF ReadFrame
    <2>4. r \in inSize' => uver[k] # 0
      BY <1>11, <2>3 DEF ReadInv, NotLost, Accepted
    <2>5. LookingAt(r)'
      BY <1>10, <2>3, <2>4 DEF LookingAt
    <2> QED BY <2>1, <2>2, <2>5
  <1> QED BY <1>5, <1>6, <1>7, <1>8, <1>9, <1>10, <1>11, CallKeeps

\* GetChunk asks the cache for the row it found, or goes on to the next tier.
LEMMA GetChunkKeeps ==
  ASSUME WaitInv, NEW r \in Readers, GetChunk(r)
  PROVE  WaitInv' /\ (ReadInv => ReadInv')
  <1> DEFINE k == gkey[r]
             next == IF rpc[r] = "rerow" THEN "restage"
                     ELSE IF r \in inSize THEN "stage" ELSE "eof"
  <1>1. /\ rpc[r] \in {"row", "rerow"}
        /\ \/ /\ row[k] # 0 /\ gpc' = [gpc EXCEPT ![r] = "mem"] /\ gkey' = [gkey EXCEPT ![r] = k]
              /\ gmsg' = [gmsg EXCEPT ![r] = row[k]] /\ gdata' = [gdata EXCEPT ![r] = None]
              /\ rpc' = [rpc EXCEPT ![r] = "get"]
              /\ Note(k, row[k]) \/ UNCHANGED blobVars
           \/ /\ row[k] = 0 /\ rpc' = [rpc EXCEPT ![r] = next]
              /\ UNCHANGED <<gpc, gkey, gmsg, gdata, blobVars>>
        /\ UNCHANGED <<cacheVars, fileVars, inSize, parked, histVars>>
    BY DEF GetChunk, Enter
  <1>2. r \in Procs /\ Readers \subseteq Procs
    BY ReadAssumption
  <1>3. gpc[r] = "idle"
    BY <1>1 DEF WaitInv, Waits, ReadersQuiet
  <1>4. /\ gpc \in [Procs -> GetLabels] /\ gkey \in [Procs -> Idx] /\ gmsg \in [Procs -> Versions]
        /\ gdata \in [Procs -> Data] /\ row \in [Idx -> Versions] /\ rpc \in [Readers -> ReadLabels]
    BY DEF WaitInv, Types, GetTypes, FileTypes, ReadTypes
  <1>5. k \in Idx /\ row[k] \in Versions /\ None \in Data /\ next \in ReadLabels \ {"get", "parked"}
    <2>1. None \in Data
      BY CacheAssumption DEF None, Data, Versions
    <2>2. next \in ReadLabels \ {"get", "parked"}
      BY DEF ReadLabels
    <2> QED BY <1>2, <1>4, <2>1, <2>2
  <1>6. UNCHANGED todo /\ queue' \in Seq([msg : Versions, from : Idx])
    <2>1. CASE Note(k, row[k])
      BY <1>5, <2>1, NoteIs
    <2>2. CASE UNCHANGED blobVars
      BY <2>2 DEF blobVars, WaitInv, Types, ReadTypes
    <2> QED BY <1>1, <2>1, <2>2
  <1> HIDE DEF k, next
  <1>7. /\ gkey' = gkey
        /\ \A p \in Procs \ {r} : gpc'[p] = gpc[p] /\ gmsg'[p] = gmsg[p] /\ gdata'[p] = gdata[p]
        /\ \A s \in Readers \ {r} : rpc'[s] = rpc[s]
        /\ \/ rpc'[r] = "get" /\ gpc'[r] = "mem" /\ gmsg'[r] = row[k]
           \/ rpc'[r] = next /\ gpc'[r] = "idle" /\ row[k] = 0
    <2>1. gkey' = gkey
      BY <1>1, <1>4 DEF k
    <2> QED BY <1>1, <1>2, <1>3, <1>4, <2>1
  <1>8. GetTypes'
    <2>1. gpc' \in [Procs -> GetLabels]
      BY <1>1, <1>4 DEF GetLabels
    <2>2. gmsg' \in [Procs -> Versions]
      BY <1>1, <1>4, <1>5
    <2>3. gdata' \in [Procs -> Data]
      BY <1>1, <1>4, <1>5
    <2> QED BY <1>4, <1>7, <2>1, <2>2, <2>3 DEF GetTypes
  <1>9. ReadTypes'
    <2>1. rpc' \in [Readers -> ReadLabels]
      BY <1>1, <1>4, <1>5 DEF ReadLabels
    <2> QED BY <1>1, <1>6, <2>1 DEF WaitInv, Types, ReadTypes
  <1>10. ReadFrame
    BY <1>1 DEF ReadFrame, cacheVars, fileVars, histVars
  <1>11. Elsewhere({r})
    BY <1>1, <1>2, <1>7 DEF Elsewhere
  <1>12. Moving
    BY <1>3, <1>7 DEF Moving, Leading
  <1>13. /\ rpc'[r] # "get" => gpc'[r] = "idle"
         /\ rpc'[r] # "parked"
    BY <1>5, <1>7
  <1>14. ASSUME ReadInv PROVE Carrying /\ Spanning /\ LookingAt(r)'
    <2>1. Carrying
      BY <1>7 DEF Carrying, Asking, Holding, k
    <2>2. Spanning
      BY <1>6 DEF Spanning
    <2>3. LookingAt(r)
      BY <1>14 DEF ReadInv, NotLost, Looking
    <2>4. LookingAt(r)'
      BY <1>1, <1>7, <1>10, <2>3 DEF LookingAt, ReadFrame, Settled, next, k
    <2> QED BY <2>1, <2>2, <2>4
  <1> QED BY <1>8, <1>9, <1>10, <1>11, <1>12, <1>13, <1>14, CallKeeps

\* TryPending, Barrier and Unpark move a read and nothing else.
LEMMA TierKeeps ==
  ASSUME WaitInv, NEW r \in Readers, TryPending(r) \/ Barrier(r) \/ Unpark(r)
  PROVE  WaitInv' /\ (ReadInv => ReadInv')
  <1>1. /\ UNCHANGED <<cacheVars, getVars, fileVars, inSize, blobVars, histVars>>
        /\ \/ /\ rpc[r] = "stage" /\ rpc' = [rpc EXCEPT ![r] = "barrier"] /\ UNCHANGED parked
           \/ /\ rpc[r] = "restage" /\ rpc' = [rpc EXCEPT ![r] = "lost"] /\ UNCHANGED parked
           \/ /\ rpc[r] \in {"stage", "restage"} /\ rpc' = [rpc EXCEPT ![r] = "decoded"]
              /\ UNCHANGED parked
           \/ /\ rpc[r] = "barrier" /\ count = 0 /\ rpc' = [rpc EXCEPT ![r] = "rerow"]
              /\ parked' = [parked EXCEPT ![r] = drain]
           \/ /\ rpc[r] = "barrier" /\ count # 0 /\ rpc' = [rpc EXCEPT ![r] = "parked"]
              /\ parked' = [parked EXCEPT ![r] = drain]
           \/ /\ rpc[r] = "parked" /\ drain # parked[r] /\ rpc' = [rpc EXCEPT ![r] = "rerow"]
              /\ UNCHANGED parked
           \/ /\ rpc[r] = "parked" /\ rpc' = [rpc EXCEPT ![r] = "canceled"] /\ UNCHANGED parked
    BY DEF TryPending, Barrier, Unpark
  <1>2. /\ rpc \in [Readers -> ReadLabels] /\ parked \in [Readers -> Nat] /\ drain \in Nat
        /\ count \in Nat
    BY DEF WaitInv, Types, ReadTypes, FileTypes
  <1>3. /\ \A s \in Readers \ {r} : rpc'[s] = rpc[s] /\ parked'[s] = parked[s]
        /\ \/ /\ rpc[r] = "stage" /\ rpc'[r] = "barrier"
           \/ /\ rpc[r] = "restage" /\ rpc'[r] = "lost"
           \/ /\ rpc[r] \in {"stage", "restage"} /\ rpc'[r] = "decoded"
           \/ /\ rpc[r] = "barrier" /\ count = 0 /\ rpc'[r] = "rerow"
           \/ /\ rpc[r] = "barrier" /\ count > 0 /\ rpc'[r] = "parked" /\ parked'[r] = drain
           \/ /\ rpc[r] = "parked" /\ drain # parked[r] /\ rpc'[r] = "rerow"
           \/ /\ rpc[r] = "parked" /\ rpc'[r] = "canceled"
    BY <1>1, <1>2
  <1>4. rpc' \in [Readers -> ReadLabels] /\ parked' \in [Readers -> Nat]
    <2>1. rpc' \in [Readers -> ReadLabels]
      BY <1>1, <1>2 DEF ReadLabels
    <2>2. parked' \in [Readers -> Nat]
      BY <1>1, <1>2
    <2> QED BY <2>1, <2>2
  <1>5. /\ UNCHANGED <<gpc, gkey, gmsg, gdata, inSize, queue, todo>> /\ ReadFrame
    BY <1>1 DEF ReadFrame, cacheVars, getVars, fileVars, blobVars, histVars
  <1>6. GetTypes' /\ ReadTypes'
    BY <1>4, <1>5 DEF WaitInv, Types, GetTypes, ReadTypes
  <1>7. Elsewhere({r}) /\ Moving
    BY <1>3, <1>5 DEF Elsewhere, Moving
  <1>8. /\ rpc'[r] # "get" => gpc'[r] = "idle"
        /\ rpc'[r] = "parked" => parked'[r] = drain /\ count > 0
    BY <1>3, <1>5 DEF WaitInv, Waits, ReadersQuiet
  <1>9. ASSUME ReadInv PROVE Carrying /\ Spanning /\ LookingAt(r)'
    <2>1. Carrying /\ Spanning
      BY <1>5 DEF Carrying, Spanning
    <2>2. LookingAt(r)
      BY <1>9 DEF ReadInv, NotLost, Looking
    <2>3. UNCHANGED <<uver, row, failed, drain>>
      BY <1>5 DEF ReadFrame
    <2>4. ASSUME count = 0, uver[gkey[r]] # 0 PROVE Settled(gkey[r])
      <3>1. Active = {}
        <4>1. Active \subseteq Idx /\ Cardinality(Active) = 0
          BY <2>4 DEF Active, WaitInv, Waits, CountExact
        <4>2. IsFiniteSet(Active)
          BY <4>1, CacheAssumption, FS_Subset
        <4> QED BY <4>1, <4>2, FS_EmptySet
      <3>2. gkey[r] \in Idx
        BY ReadAssumption DEF WaitInv, Types, GetTypes
      <3>3. upc[gkey[r]] \in {"idle", "failed"}
        BY <3>1, <3>2 DEF Active
      <3> QED BY <1>9, <2>4, <3>2, <3>3 DEF ReadInv, NotLost, Accepted
    <2>5. Settled(gkey[r]) => Settled(gkey[r])'
      BY <1>5, <2>3 DEF Settled
    <2>6. LookingAt(r)'
      BY <1>3, <1>5, <2>2, <2>3, <2>4, <2>5 DEF LookingAt
    <2> QED BY <2>1, <2>6
  <1> QED BY <1>5, <1>6, <1>7, <1>8, <1>9, CallKeeps

\* A call that is over: the process forgets it.
LEMMA LeaveIs ==
  ASSUME WaitInv, NEW p \in Procs, Leave(p)
  PROVE  /\ GetTypes' /\ gpc'[p] = "idle"
         /\ \A q \in Procs \ {p} : /\ gpc'[q] = gpc[q] /\ gkey'[q] = gkey[q]
                                   /\ gmsg'[q] = gmsg[q] /\ gdata'[q] = gdata[q]
  <1>1. /\ gpc' = [gpc EXCEPT ![p] = "idle"] /\ gkey' = [gkey EXCEPT ![p] = AnyIdx]
        /\ gmsg' = [gmsg EXCEPT ![p] = 0] /\ gdata' = [gdata EXCEPT ![p] = None]
    BY DEF Leave
  <1>2. AnyIdx \in Idx /\ 0 \in Versions /\ None \in Data /\ "idle" \in GetLabels
    BY CacheAssumption DEF AnyIdx, None, Data, Versions, GetLabels
  <1>3. /\ gpc \in [Procs -> GetLabels] /\ gkey \in [Procs -> Idx] /\ gmsg \in [Procs -> Versions]
        /\ gdata \in [Procs -> Data]
    BY DEF WaitInv, Types, GetTypes
  <1> HIDE DEF None, AnyIdx
  <1>4. GetTypes'
    <2>1. gpc' \in [Procs -> GetLabels]
      BY <1>1, <1>2, <1>3
    <2>2. gkey' \in [Procs -> Idx]
      BY <1>1, <1>2, <1>3
    <2>3. gmsg' \in [Procs -> Versions]
      BY <1>1, <1>2, <1>3
    <2>4. gdata' \in [Procs -> Data]
      BY <1>1, <1>2, <1>3
    <2> QED BY <2>1, <2>2, <2>3, <2>4 DEF GetTypes
  <1> QED BY <1>1, <1>3, <1>4

\* ReadEnd: the read is idle, and so is its process.
LEMMA ReadEndKeeps ==
  ASSUME WaitInv, NEW r \in Readers, ReadEnd(r)
  PROVE  WaitInv' /\ (ReadInv => ReadInv')
  <1>1. /\ (rpc[r] = "get" /\ gpc[r] \in {"done", "error"}) \/ rpc[r] \in {"decoded", "eof", "canceled", "lost"}
        /\ rpc' = [rpc EXCEPT ![r] = "idle"] /\ inSize' = inSize \ {r}
        /\ parked' = [parked EXCEPT ![r] = 0]
        /\ UNCHANGED <<cacheVars, fileVars, blobVars, histVars>>
    BY DEF ReadEnd
  <1>2. r \in Procs /\ Readers \subseteq Procs
    BY ReadAssumption
  <1>3. /\ GetTypes' /\ gpc'[r] = "idle"
        /\ \A q \in Procs \ {r} : /\ gpc'[q] = gpc[q] /\ gkey'[q] = gkey[q]
                                  /\ gmsg'[q] = gmsg[q] /\ gdata'[q] = gdata[q]
    BY <1>2, LeaveIs DEF ReadEnd
  <1>4. /\ UNCHANGED <<queue, todo>> /\ ReadFrame
    BY <1>1 DEF ReadFrame, cacheVars, fileVars, blobVars, histVars
  <1>5. rpc \in [Readers -> ReadLabels] /\ parked \in [Readers -> Nat]
    BY DEF WaitInv, Types, ReadTypes
  <1>6. ReadTypes'
    <2>1. rpc' \in [Readers -> ReadLabels]
      BY <1>1, <1>5 DEF ReadLabels
    <2>2. parked' \in [Readers -> Nat]
      BY <1>1, <1>5
    <2> QED BY <1>4, <2>1, <2>2 DEF WaitInv, Types, ReadTypes
  <1>7. gpc[r] \in {"done", "error", "idle"}
    BY <1>1 DEF WaitInv, Waits, ReadersQuiet
  <1>8. Elsewhere({r})
    BY <1>1, <1>2, <1>3, <1>5 DEF Elsewhere
  <1>9. Moving
    BY <1>3, <1>7 DEF Moving, Leading
  <1>10. rpc'[r] = "idle" /\ r \notin inSize'
    BY <1>1, <1>5
  <1>11. Carrying /\ Spanning /\ LookingAt(r)'
    <2>1. Carrying
      BY <1>3 DEF Carrying, Asking, Holding
    <2>2. Spanning
      BY <1>4 DEF Spanning
    <2>3. LookingAt(r)'
      BY <1>10 DEF LookingAt
    <2> QED BY <2>1, <2>2, <2>3
  <1> QED BY <1>3, <1>4, <1>6, <1>8, <1>9, <1>10, <1>11, CallKeeps

\* PrefetchEnd, of a read-ahead or of the blob worker.
LEMMA PrefetchEndKeeps ==
  ASSUME WaitInv, NEW q \in Ahead \cup {Blob}, PrefetchEnd(q)
  PROVE  WaitInv' /\ (ReadInv => ReadInv')
  <1>1. /\ gpc[q] \in {"done", "error"} /\ Leave(q)
        /\ UNCHANGED <<cacheVars, fileVars, readVars, blobVars, histVars>>
    BY DEF PrefetchEnd
  <1>2. q \in Procs /\ q \notin Readers /\ Readers \subseteq Procs
    BY ReadAssumption
  <1>3. /\ GetTypes' /\ gpc'[q] = "idle"
        /\ \A p \in Procs \ {q} : /\ gpc'[p] = gpc[p] /\ gkey'[p] = gkey[p]
                                  /\ gmsg'[p] = gmsg[p] /\ gdata'[p] = gdata[p]
    BY <1>1, <1>2, LeaveIs
  <1>4. /\ UNCHANGED <<rpc, inSize, parked, queue, todo>> /\ ReadFrame
    BY <1>1 DEF ReadFrame, cacheVars, fileVars, readVars, blobVars, histVars
  <1>5. ReadTypes'
    BY <1>4 DEF WaitInv, Types, ReadTypes
  <1>6. Elsewhere({})
    BY <1>2, <1>3, <1>4 DEF Elsewhere
  <1>7. Moving
    BY <1>1, <1>3 DEF Moving, Leading
  <1>8. Carrying /\ Spanning
    <2>1. Carrying
      BY <1>3 DEF Carrying, Asking, Holding
    <2>2. Spanning
      BY <1>4 DEF Spanning
    <2> QED BY <2>1, <2>2
  <1> QED BY <1>3, <1>4, <1>5, <1>6, <1>7, <1>8, CallKeeps

\* Interrupt, and a step that changes nothing.
LEMMA InterruptKeeps ==
  ASSUME WaitInv, (\E r \in Readers : Interrupt(r)) \/ UNCHANGED vars
  PROVE  WaitInv' /\ (ReadInv => ReadInv')
  <1>1. /\ UNCHANGED <<gpc, gkey, gmsg, gdata, rpc, inSize, parked, queue, todo>> /\ ReadFrame
    BY DEF Interrupt, vars, ReadFrame, cacheVars, getVars, fileVars, readVars, blobVars, histVars
  <1>2. GetTypes' /\ ReadTypes'
    BY <1>1 DEF WaitInv, Types, GetTypes, ReadTypes
  <1>3. Elsewhere({}) /\ Moving
    BY <1>1 DEF Elsewhere, Moving
  <1>4. Carrying /\ Spanning
    BY <1>1 DEF Carrying, Spanning
  <1> QED BY <1>1, <1>2, <1>3, <1>4, CallKeeps

\* LandExtent begins a PutDecoded of the span's next extent.
LEMMA LandExtentKeeps ==
  ASSUME WaitInv, LandExtent
  PROVE  WaitInv' /\ (ReadInv => ReadInv')
  <1> DEFINE x == Head(todo)
  <1>1. /\ gpc[Blob] = "idle" /\ todo # <<>> /\ todo' = Tail(todo)
        /\ UNCHANGED <<cacheVars, gmsg, fileVars, readVars, queue, histVars>>
        /\ \/ UNCHANGED <<gpc, gkey, gdata>>
           \/ /\ gpc' = [gpc EXCEPT ![Blob] = "write"] /\ gkey' = [gkey EXCEPT ![Blob] = x.key]
              /\ gdata' = [gdata EXCEPT ![Blob] = [ver |-> x.msg, whole |-> TRUE]]
    BY DEF LandExtent
  <1>2. Blob \in Procs /\ Blob \notin Readers /\ Readers \subseteq Procs
    BY ReadAssumption
  <1>3. /\ gpc \in [Procs -> GetLabels] /\ gkey \in [Procs -> Idx] /\ gmsg \in [Procs -> Versions]
        /\ gdata \in [Procs -> Data] /\ todo \in Seq([key : Idx, msg : Versions])
    BY DEF WaitInv, Types, GetTypes, ReadTypes
  <1>4. /\ todo' \in Seq([key : Idx, msg : Versions]) /\ 1 \in 1..Len(todo) /\ x = todo[1]
        /\ \A m \in 1..Len(todo') : \E j \in 1..Len(todo) : todo'[m] = todo[j]
    <2>1. /\ Tail(todo) \in Seq([key : Idx, msg : Versions]) /\ Len(Tail(todo)) = Len(todo) - 1
          /\ \A m \in 1..Len(Tail(todo)) : Tail(todo)[m] = todo[m + 1]
      BY <1>1, <1>3, HeadTailProperties
    <2>2. Len(todo) \in Nat /\ Len(todo) # 0
      BY <1>1, <1>3
    <2>3. \A m \in 1..(Len(todo) - 1) : m + 1 \in 1..Len(todo)
      BY <2>2
    <2> QED BY <1>1, <1>3, <2>1, <2>2, <2>3
  <1>5. x \in [key : Idx, msg : Versions]
    <2> DEFINE T == [key : Idx, msg : Versions]
    <2>1. todo \in Seq(T)
      BY <1>3
    <2> HIDE DEF T, x
    <2>2. todo[1] \in T
      BY <1>4, <2>1
    <2>3. x \in T
      BY <1>4, <2>2
    <2> QED BY <2>3 DEF T
  <1>6. x.key \in Idx /\ [ver |-> x.msg, whole |-> TRUE] \in Data
    BY <1>5 DEF Data
  <1> HIDE DEF x
  <1>7. /\ \A p \in Procs \ {Blob} : /\ gpc'[p] = gpc[p] /\ gkey'[p] = gkey[p]
                                     /\ gmsg'[p] = gmsg[p] /\ gdata'[p] = gdata[p]
        /\ \/ UNCHANGED <<gpc, gkey, gmsg, gdata>>
           \/ gpc'[Blob] = "write" /\ gkey'[Blob] = x.key /\ gdata'[Blob].ver = x.msg
    BY <1>1, <1>2, <1>3
  <1>8. GetTypes'
    <2>1. gpc' \in [Procs -> GetLabels]
      BY <1>1, <1>3 DEF GetLabels
    <2>2. gkey' \in [Procs -> Idx]
      BY <1>1, <1>3, <1>6
    <2>3. gdata' \in [Procs -> Data]
      BY <1>1, <1>3, <1>6
    <2> QED BY <1>1, <1>3, <2>1, <2>2, <2>3 DEF GetTypes
  <1>9. /\ UNCHANGED <<rpc, inSize, parked, queue>> /\ ReadFrame
    BY <1>1 DEF ReadFrame, cacheVars, fileVars, readVars, histVars
  <1>10. ReadTypes'
    BY <1>4, <1>9 DEF WaitInv, Types, ReadTypes
  <1>11. Elsewhere({})
    BY <1>2, <1>7, <1>9 DEF Elsewhere
  <1>12. Moving
    BY <1>1, <1>7 DEF Moving, Leading
  <1>13. ASSUME ReadInv PROVE Carrying /\ Spanning
    <2>1. Spanning
      BY <1>4 DEF Spanning
    <2>2. x.key \notin raced => x.msg = row[x.key]
      BY <1>4, <1>6, <1>13 DEF ReadInv, AllClean, Clean, UsersFresh
    <2>3. Carrying
      BY <1>7, <2>2 DEF Carrying
    <2> QED BY <2>1, <2>3
  <1> QED BY <1>8, <1>9, <1>10, <1>11, <1>12, <1>13, CallKeeps

\* Ascending lists members of the set.
LEMMA AscendingIs ==
  ASSUME NEW S \in SUBSET Idx
  PROVE  Cardinality(S) \in Nat /\ \A m \in 1..Cardinality(S) : Ascending(S)[m] \in S
  <1> DEFINE upTo(k) == {i \in S : i <= k}
             rank(k) == Cardinality(upTo(k))
             c == Cardinality(S)
             f == [k \in S |-> rank(k)]
  <1>1. IsFiniteSet(S) /\ c \in Nat /\ S \subseteq Nat
    BY CacheAssumption, FS_Subset, FS_CardinalityType
  <1>2. \A k : IsFiniteSet(upTo(k)) /\ rank(k) \in Nat /\ rank(k) <= c
    <2> TAKE k
    <2>1. upTo(k) \in SUBSET S
      OBVIOUS
    <2> HIDE DEF upTo
    <2> QED BY <1>1, <2>1, FS_Subset, FS_CardinalityType
  <1>3. \A k \in S : rank(k) \in 1..c
    <2> TAKE k \in S
    <2>1. k \in upTo(k)
      BY <1>1
    <2> HIDE DEF upTo
    <2>2. rank(k) # 0
      BY <1>2, <2>1, FS_EmptySet
    <2> HIDE DEF rank, c
    <2> QED BY <1>1, <1>2, <2>2
  <1>4. \A k, n \in S : k < n => rank(k) < rank(n)
    <2> SUFFICES ASSUME NEW k \in S, NEW n \in S, k < n
                 PROVE  rank(k) < rank(n)
      OBVIOUS
    <2>0. k \in Int /\ n \in Int /\ \A i \in S : i \in Int
      BY <1>1
    <2>3. n <= n /\ ~(n <= k) /\ \A i \in S : i <= k => i <= n
      BY <2>0
    <2>1. upTo(k) \in SUBSET upTo(n) /\ n \in upTo(n) /\ n \notin upTo(k)
      BY <2>3, Zenon
    <2> HIDE DEF upTo
    <2>2. rank(k) <= rank(n) /\ rank(k) # rank(n)
      BY <1>2, <2>1, FS_Subset
    <2> QED BY <1>2, <2>2
  <1>5. Ascending(S) = [m \in 1..c |-> CHOOSE k \in S : rank(k) = m]
    BY DEF Ascending
  <1> HIDE DEF upTo, rank, c
  <1>6. \A k, n \in S : rank(k) = rank(n) => k = n
    <2> SUFFICES ASSUME NEW k \in S, NEW n \in S, rank(k) = rank(n)
                 PROVE  k = n
      OBVIOUS
    <2>1. k \in Int /\ n \in Int /\ rank(k) \in Int
      BY <1>1, <1>2
    <2> QED BY <1>4, <2>1
  <1>7. f \in [S -> 1..c] /\ f \in Injection(S, 1..c)
    BY <1>3, <1>6, Fun_IsInj
  <1>8. \A m \in 1..c : \E k \in S : rank(k) = m
    <2>1. IsFiniteSet(1..c) /\ Cardinality(1..c) = c
      BY <1>1, FS_Interval
    <2>2. f \in Surjection(S, 1..c)
      BY <1>1, <1>7, <2>1, FS_Injection DEF c
    <2> HIDE DEF f
    <2>3. \A m \in 1..c : \E k \in S : f[k] = m
      BY <2>2, Fun_SurjectionProperties
    <2> QED BY <2>3 DEF f
  <1> QED BY <1>1, <1>5, <1>8 DEF c

\* FetchSpan: every extent of the span is a slot whose row names the message.
LEMMA FetchSpanKeeps ==
  ASSUME WaitInv, FetchSpan
  PROVE  WaitInv' /\ (ReadInv => ReadInv')
  <1> DEFINE span == Head(queue)
             S == Extents(span)
             n == Cardinality(S)
             Spans == [msg : Versions, from : Idx]
             Lands == [key : Idx, msg : Versions]
             list == [m \in 1..n |-> [key |-> Ascending(S)[m], msg |-> span.msg]]
  <1>1. /\ queue # <<>> /\ queue' = Tail(queue)
        /\ UNCHANGED todo \/ todo' = list
        /\ UNCHANGED <<cacheVars, getVars, fileVars, readVars, histVars>>
    BY DEF FetchSpan
  <1>2. queue \in Seq(Spans) /\ todo \in Seq(Lands)
    BY DEF WaitInv, Types, ReadTypes
  <1>3. queue' \in Seq(Spans) /\ span \in Spans
    <2> HIDE DEF Spans
    <2> QED BY <1>1, <1>2, HeadTailProperties
  <1>4. S \in SUBSET Idx /\ span.msg \in Versions /\ \A k \in S : row[k] = span.msg
    BY <1>3 DEF Extents
  <1> HIDE DEF S, span
  <1>5. n \in Nat /\ \A m \in 1..n : Ascending(S)[m] \in S
    BY <1>4, AscendingIs
  <1> HIDE DEF n
  <1>6. \A m \in 1..n : list[m] \in Lands /\ list[m].msg = row[list[m].key]
    BY <1>4, <1>5
  <1>7. list \in Seq(Lands) /\ Len(list) = n
    <2>1. list \in [1..n -> Lands]
      BY <1>6
    <2> HIDE DEF list, Lands
    <2>2. \A x \in Nat : \A g \in [1..x -> Lands] : g \in Seq(Lands) /\ Len(g) = x
      OBVIOUS
    <2> QED BY <1>5, <2>1, <2>2
  <1> HIDE DEF list, Lands, Spans
  <1>8. /\ todo' \in Seq(Lands)
        /\ Spanning
    <2>1. CASE UNCHANGED todo
      BY <1>2, <2>1 DEF Spanning
    <2>2. CASE todo' = list
      BY <1>6, <1>7, <2>2 DEF Spanning
    <2> QED BY <1>1, <2>1, <2>2
  <1>9. /\ UNCHANGED <<gpc, gkey, gmsg, gdata, rpc, inSize, parked>> /\ ReadFrame
    BY <1>1 DEF ReadFrame, cacheVars, getVars, fileVars, readVars, histVars
  <1>10. GetTypes' /\ ReadTypes'
    BY <1>3, <1>8, <1>9 DEF WaitInv, Types, GetTypes, ReadTypes, Spans, Lands
  <1>11. Elsewhere({}) /\ Moving /\ Carrying
    BY <1>9 DEF Elsewhere, Moving, Carrying
  <1> QED BY <1>8, <1>9, <1>10, <1>11, CallKeeps

-----------------------------------------------------------------------------
(* The steps of Get and PutDecoded *)

\* A step of process p in the cache: what it leaves alone, the slots that have
\* raced after it, what it may do to the tiers, and what the processes carry.
CacheFrame == UNCHANGED <<gkey, gmsg, row, uver, upc, sized, count, drain, rpc, inSize, parked,
                          queue, todo, failed>>
RacedBy(p) == raced' = IF Replacing(gkey[p]) THEN raced \cup {gkey[p]} ELSE raced
Storing(p) ==
    \A k \in Idx \ raced' :
        /\ \/ file'[k] = None
           \/ file'[k] = file[k]
           \/ k = gkey[p] /\ file'[k].ver = row[k]
        /\ k # gkey[p] /\ Cached(k) => Cached(k)' \/ file'[k] = None
        /\ \A m \in 1..Len(mem') : mem'[m].key = k =>
              \/ \E j \in 1..Len(mem) : mem'[m] = mem[j]
              \/ k = gkey[p] /\ mem'[m].data.ver = row[k]
Working ==
    \A q \in Procs : gkey[q] \notin raced' =>
        \/ gpc'[q] \notin Asking \cup Holding
        \/ gpc'[q] = gpc[q] /\ gdata'[q] = gdata[q]
        \/ gpc'[q] \in Asking /\ gpc[q] \in Asking
        \/ gpc'[q] \in Holding /\ gdata'[q].ver = row[gkey[q]]

\* What a process at work on a slot without a race knows of it.
LEMMA OwnClean ==
  ASSUME ReadInv, NEW p \in Procs, RacedBy(p), gkey[p] \notin raced'
  PROVE  /\ gpc[p] \in Asking => gmsg[p] = row[gkey[p]]
         /\ gpc[p] \in Holding => gdata[p].ver = row[gkey[p]]
         /\ FileExists(gkey[p]) => file[gkey[p]].ver = row[gkey[p]]
         /\ \A m \in 1..Len(mem) : mem[m].key = gkey[p] => mem[m].data.ver = row[gkey[p]]
  <1>1. gkey[p] \in Idx
    BY DEF ReadInv, WaitInv, Types, GetTypes
  <1>2. gkey[p] \notin raced /\ ~Replacing(gkey[p])
    BY DEF RacedBy
  <1>3. Clean(gkey[p])
    BY <1>1, <1>2 DEF ReadInv, AllClean
  <1> QED BY <1>2, <1>3 DEF Clean, StoredFresh, UsersFresh

\* Such a step keeps the invariant.
LEMMA StoreKeeps ==
  ASSUME WaitInv, NEW p \in Procs, CacheFrame, RacedBy(p), CacheTypes', GetTypes',
         FlightLed', JoinedBacked', \A q \in Procs : gpc[q] = "idle" => gpc'[q] = "idle",
         ReadInv => Storing(p) /\ Working
  PROVE  WaitInv' /\ (ReadInv => ReadInv')
  <1>1. /\ UNCHANGED <<gkey, gmsg, row, uver, upc, sized, count, drain>>
        /\ UNCHANGED <<rpc, inSize, parked, queue, todo, failed>>
    BY DEF CacheFrame
  <1>2. Types'
    <2>1. FileTypes' /\ ReadTypes'
      BY <1>1 DEF WaitInv, Types, FileTypes, ReadTypes
    <2> QED BY <2>1 DEF Types
  <1>3. Waits'
    <2>1. CountExact'
      BY <1>1 DEF WaitInv, Waits, CountExact, Active
    <2>2. ReadersQuiet'
      BY <1>1, ReadAssumption DEF WaitInv, Waits, ReadersQuiet
    <2>3. ParkedBacked'
      BY <1>1 DEF WaitInv, Waits, ParkedBacked
    <2> QED BY <2>1, <2>2, <2>3 DEF Waits
  <1>4. ASSUME ReadInv PROVE NotLost'
    BY <1>1, <1>4 DEF ReadInv, NotLost, Accepted, Settled, Looking, LookingAt
  <1>5. ASSUME ReadInv PROVE AllClean'
    <2> SUFFICES ASSUME NEW k \in Idx, k \notin raced' PROVE Clean(k)'
      BY DEF AllClean
    <2>1. k \notin raced /\ (k = gkey[p] => ~Replacing(k))
      BY DEF RacedBy
    <2>2. Clean(k)
      BY <1>5, <2>1 DEF ReadInv, AllClean
    <2>3. Replacing(k)' <=> Replacing(k)
      BY <1>1 DEF Replacing
    <2>4. /\ file'[k] = None \/ file'[k] = file[k] \/ (k = gkey[p] /\ file'[k].ver = row[k])
          /\ k # gkey[p] /\ Cached(k) => Cached(k)' \/ file'[k] = None
          /\ \A m \in 1..Len(mem') : mem'[m].key = k =>
                \/ \E j \in 1..Len(mem) : mem'[m] = mem[j]
                \/ k = gkey[p] /\ mem'[m].data.ver = row[k]
      BY <1>5 DEF Storing
    <2>5. ~Replacing(k)' => StoredFresh(k)'
      BY <1>1, <2>2, <2>3, <2>4 DEF Clean, StoredFresh, FileExists
    <2>6. ASSUME Replacing(k)' PROVE ToInvalidate(k)'
      <3>1. k # gkey[p] /\ ToInvalidate(k)
        BY <2>1, <2>2, <2>3, <2>6 DEF Clean
      <3>2. FileExists(k)' => Cached(k)'
        BY <2>4, <3>1 DEF ToInvalidate, FileExists
      <3>3. MemHit(k)' => MemHit(k)
        BY <2>4, <3>1 DEF MemHit
      <3> QED BY <1>1, <3>1, <3>2, <3>3 DEF ToInvalidate
    <2>7. ASSUME NEW q \in Procs, gkey[q] = k
          PROVE  /\ gpc'[q] \in Asking => gmsg[q] = row[k]
                 /\ gpc'[q] \in Holding => gdata'[q].ver = row[k]
      BY <1>5, <2>2, <2>7 DEF Working, Clean, UsersFresh, Asking, Holding
    <2>8. UsersFresh(k)'
      BY <1>1, <2>2, <2>7 DEF Clean, UsersFresh
    <2> QED BY <2>5, <2>6, <2>8 DEF Clean
  <1> QED BY <1>2, <1>3, <1>4, <1>5 DEF WaitInv, ReadInv

\* A step that moves p alone and leaves the flights alone.
LEMMA SoloKeeps ==
  ASSUME WaitInv, NEW p \in Procs, CacheFrame, RacedBy(p), CacheTypes', UNCHANGED flight,
         NEW l \in GetLabels \ {"joined"}, gpc' = [gpc EXCEPT ![p] = l], gpc[p] # "idle",
         gpc[p] \in Leading => l \in Leading,
         NEW d \in Data, gdata' = [gdata EXCEPT ![p] = d],
         ReadInv => Storing(p),
         ReadInv /\ gkey[p] \notin raced' => /\ l \in Asking => gpc[p] \in Asking
                                             /\ l \in Holding => d.ver = row[gkey[p]]
  PROVE  WaitInv' /\ (ReadInv => ReadInv')
  <1>1. /\ gpc \in [Procs -> GetLabels] /\ gkey \in [Procs -> Idx] /\ gmsg \in [Procs -> Versions]
        /\ gdata \in [Procs -> Data] /\ flight \in [Idx -> Procs \cup {NoProc}]
    BY DEF WaitInv, Types, GetTypes, CacheTypes
  <1>2. UNCHANGED <<gkey, gmsg, row>>
    BY DEF CacheFrame
  <1>3. /\ gpc'[p] = l /\ gdata'[p] = d
        /\ \A q \in Procs \ {p} : gpc'[q] = gpc[q] /\ gdata'[q] = gdata[q]
    BY <1>1
  <1>4. GetTypes'
    <2>1. gpc' \in [Procs -> GetLabels]
      BY <1>1
    <2>2. gdata' \in [Procs -> Data]
      BY <1>1
    <2> QED BY <1>1, <1>2, <2>1, <2>2 DEF GetTypes
  <1>5. FlightLed' /\ JoinedBacked'
    <2>1. FlightLed'
      BY <1>1, <1>2, <1>3 DEF WaitInv, Waits, FlightLed
    <2>2. JoinedBacked'
      BY <1>1, <1>2, <1>3 DEF WaitInv, Waits, JoinedBacked
    <2> QED BY <2>1, <2>2
  <1>6. ReadInv => Working
    BY <1>2, <1>3 DEF Working
  <1>7. \A q \in Procs : gpc[q] = "idle" => gpc'[q] = "idle"
    BY <1>3
  <1> QED BY <1>4, <1>5, <1>6, <1>7, StoreKeeps

\* A step that leaves the tiers alone.
LEMMA StoreSame ==
  ASSUME NEW p \in Procs, UNCHANGED <<order, file, mem>>
  PROVE  Storing(p)
  BY DEF Storing, Cached

\* Moving a slot to the front of the LRU list keeps the others in it.
LEMMA FrontIs ==
  ASSUME NEW s \in Seq(Idx), NEW k \in Idx
  PROVE  KeepsOthers(<<k>> \o Without(s, k), s, k)
  <1> DEFINE t == Without(s, k)
             u == <<k>> \o t
  <1>0. KeepsOthers(t, s, k)
    BY WithoutIs
  <1> HIDE DEF t
  <1>1. /\ t \in Seq(Idx)
        /\ \A i \in Idx \ {k} : (\E m \in 1..Len(s) : s[m] = i) => \E m \in 1..Len(t) : t[m] = i
    BY <1>0 DEF KeepsOthers
  <1>2. /\ u \in Seq(Idx) /\ Len(u) = Len(t) + 1
        /\ \A i \in 1..Len(t) : u[i + 1] = t[i]
    BY <1>1, PushedIs
  <1> HIDE DEF u
  <1>3. \A m \in 1..Len(t) : m + 1 \in 1..Len(u)
    BY <1>1, <1>2
  <1>4. KeepsOthers(u, s, k)
    BY <1>1, <1>2, <1>3 DEF KeepsOthers
  <1> QED BY <1>4 DEF t, u

\* MemGet: the memory tier's copy of a slot is the row's, unless raced.
LEMMA MemGetKeeps ==
  ASSUME WaitInv, NEW p \in Procs, MemGet(p), CacheFrame, RacedBy(p)
  PROVE  WaitInv' /\ (ReadInv => ReadInv')
  <1> DEFINE k == gkey[p]
  <1>1. /\ k \in Idx /\ gdata \in [Procs -> Data] /\ mem \in Seq(Entry) /\ Unique(mem)
    BY DEF WaitInv, Types, GetTypes, CacheTypes
  <1>2. UNCHANGED <<order, file, flight>>
    BY DEF MemGet
  <1>3. CASE MemHit(k)
    <2> DEFINE m == CHOOSE m \in 1..Len(mem) : mem[m].key = k
               d == mem[m].data
    <2>1. m \in 1..Len(mem) /\ mem[m].key = k
      BY <1>3 DEF MemHit
    <2>2. /\ gpc[p] = "mem" /\ gpc' = [gpc EXCEPT ![p] = "done"]
          /\ gdata' = [gdata EXCEPT ![p] = d] /\ mem' = MemPut(mem, k, d)
      BY <1>3 DEF MemGet, Step, MemData
    <2> HIDE DEF m
    <2>3. mem[m] \in Entry
      BY <1>1, <2>1
    <2>4. d \in Data /\ [key |-> k, data |-> d] = mem[m]
      BY <2>1, <2>3 DEF Entry
    <2> HIDE DEF d, k
    <2>5. /\ mem' \in Seq(Entry) /\ Unique(mem')
          /\ \A i \in 1..Len(mem') : mem'[i] = mem[m] \/ \E j \in 1..Len(mem) : mem'[i] = mem[j]
      BY <1>1, <2>2, <2>4, MemPutIs
    <2>6. CacheTypes'
      BY <1>2, <2>5 DEF WaitInv, Types, CacheTypes
    <2>7. Storing(p)
      BY <1>2, <2>1, <2>5 DEF Storing, Cached
    <2>8. "done" \in GetLabels \ {"joined"} /\ "mem" \notin Leading /\ "done" \notin Asking \cup Holding
      BY DEF GetLabels, Leading, Asking, Holding
    <2> QED BY <1>2, <2>2, <2>4, <2>6, <2>7, <2>8, SoloKeeps
  <1>4. CASE ~MemHit(k)
    <2>1. /\ gpc[p] = "mem" /\ gpc' = [gpc EXCEPT ![p] = "lookup"] /\ UNCHANGED <<gdata, mem>>
      BY <1>4 DEF MemGet, Step
    <2>2. gdata[p] \in Data /\ gdata' = [gdata EXCEPT ![p] = gdata[p]]
      BY <1>1, <2>1
    <2>3. CacheTypes' /\ Storing(p)
      BY <1>2, <2>1, StoreSame DEF WaitInv, Types, CacheTypes
    <2>4. /\ "lookup" \in GetLabels \ {"joined"} /\ "mem" \notin Leading /\ "mem" \in Asking
          /\ "lookup" \notin Holding
      BY DEF GetLabels, Leading, Asking, Holding
    <2> QED BY <1>2, <2>1, <2>2, <2>3, <2>4, SoloKeeps
  <1> QED BY <1>3, <1>4

\* Lookup and DropEntry reorder the list, or take the slot out of it.
LEMMA LookupKeeps ==
  ASSUME WaitInv, NEW p \in Procs, Lookup(p) \/ DropEntry(p), CacheFrame, RacedBy(p)
  PROVE  WaitInv' /\ (ReadInv => ReadInv')
  <1> DEFINE k == gkey[p]
  <1>1. k \in Idx /\ gdata \in [Procs -> Data] /\ order \in Seq(Idx)
    BY DEF WaitInv, Types, GetTypes, CacheTypes
  <1>2. /\ UNCHANGED <<file, mem, flight, gdata>>
        /\ order' = order \/ order' = <<k>> \o Without(order, k) \/ order' = Without(order, k)
        /\ \/ gpc[p] = "lookup" /\ gpc' = [gpc EXCEPT ![p] = "read"]
           \/ gpc[p] = "lookup" /\ gpc' = [gpc EXCEPT ![p] = "miss"]
           \/ gpc[p] = "drop" /\ gpc' = [gpc EXCEPT ![p] = "miss"]
           \/ gpc[p] = "redrop" /\ gpc' = [gpc EXCEPT ![p] = "fetch"]
    BY DEF Lookup, DropEntry, Step
  <1> HIDE DEF k
  <1>3. order' \in Seq(Idx) /\ \A i \in Idx \ {k} : Cached(i) => Cached(i)'
    <2>1. CASE order' = order
      BY <1>1, <2>1 DEF Cached
    <2>2. CASE order' = <<k>> \o Without(order, k)
      <3>1. KeepsOthers(<<k>> \o Without(order, k), order, k)
        BY <1>1, FrontIs
      <3>2. KeepsOthers(order', order, k)
        BY <2>2, <3>1
      <3> QED BY <3>2 DEF KeepsOthers, Cached
    <2>3. CASE order' = Without(order, k)
      <3>1. KeepsOthers(Without(order, k), order, k)
        BY <1>1, WithoutIs
      <3>2. KeepsOthers(order', order, k)
        BY <2>3, <3>1
      <3> QED BY <3>2 DEF KeepsOthers, Cached
    <2> QED BY <1>2, <2>1, <2>2, <2>3
  <1>4. CacheTypes'
    BY <1>2, <1>3 DEF WaitInv, Types, CacheTypes
  <1>5. Storing(p)
    BY <1>2, <1>3 DEF Storing, k
  <1>6. gdata[p] \in Data /\ gdata' = [gdata EXCEPT ![p] = gdata[p]]
    BY <1>1, <1>2
  <1>7. PICK l \in {"read", "miss", "fetch"} :
          gpc' = [gpc EXCEPT ![p] = l] /\ (gpc[p] = "redrop" => l = "fetch")
    BY <1>2
  <1>8. gpc[p] # "idle" /\ gpc[p] \in Asking /\ (gpc[p] \in Leading => l \in Leading)
    BY <1>2, <1>7 DEF Asking, Leading
  <1>9. l \in GetLabels \ {"joined"} /\ l \notin Holding
    BY DEF GetLabels, Holding
  <1> QED BY <1>2, <1>4, <1>5, <1>6, <1>7, <1>8, <1>9, SoloKeeps

\* ReadFile, Promote, FetchOK: the bytes a process has are the row's, unless
\* raced.
LEMMA BytesKeep ==
  ASSUME WaitInv, NEW p \in Procs, ReadFile(p) \/ Promote(p) \/ FetchOK(p), CacheFrame, RacedBy(p)
  PROVE  WaitInv' /\ (ReadInv => ReadInv')
  <1> DEFINE k == gkey[p]
  <1>1. /\ k \in Idx /\ gdata \in [Procs -> Data] /\ file \in [Idx -> Data] /\ gmsg[p] \in Versions
        /\ gdata[p] \in Data /\ file[k] \in Data /\ mem \in Seq(Entry) /\ Unique(mem)
    BY DEF WaitInv, Types, GetTypes, CacheTypes
  <1>2. UNCHANGED <<order, file, flight>>
    BY DEF ReadFile, Promote, FetchOK, cacheVars
  <1>3. CASE ReadFile(p)
    <2>1. gpc[p] = "read" /\ UNCHANGED mem
      BY <1>3 DEF ReadFile, Step, cacheVars
    <2>2. CacheTypes' /\ Storing(p)
      BY <1>2, <2>1, StoreSame DEF WaitInv, Types, CacheTypes
    <2>3. CASE FileExists(k)
      <3>1. gpc' = [gpc EXCEPT ![p] = "promote"] /\ gdata' = [gdata EXCEPT ![p] = file[k]]
        BY <1>3, <2>3 DEF ReadFile, Step
      <3>2. ReadInv /\ k \notin raced' => file[k].ver = row[k]
        BY <2>3, OwnClean
      <3>3. "promote" \in GetLabels \ {"joined"} /\ "read" \notin Leading /\ "promote" \notin Asking
        BY DEF GetLabels, Leading, Asking
      <3> QED BY <1>1, <1>2, <2>1, <2>2, <3>1, <3>2, <3>3, SoloKeeps
    <2>4. CASE ~FileExists(k)
      <3>1. gpc' = [gpc EXCEPT ![p] = "drop"] /\ gdata' = [gdata EXCEPT ![p] = gdata[p]]
        BY <1>1, <1>3, <2>4 DEF ReadFile, Step
      <3>2. /\ "drop" \in GetLabels \ {"joined"} /\ "read" \notin Leading /\ "read" \in Asking
            /\ "drop" \notin Holding
        BY DEF GetLabels, Leading, Asking, Holding
      <3> QED BY <1>1, <1>2, <2>1, <2>2, <3>1, <3>2, SoloKeeps
    <2> QED BY <2>3, <2>4
  <1>4. CASE Promote(p)
    <2>1. /\ gpc[p] = "promote" /\ gpc' = [gpc EXCEPT ![p] = "done"]
          /\ mem' = MemPut(mem, k, gdata[p]) /\ gdata' = [gdata EXCEPT ![p] = gdata[p]]
      BY <1>1, <1>4 DEF Promote, Step
    <2> HIDE DEF k
    <2>2. /\ mem' \in Seq(Entry) /\ Unique(mem')
          /\ \A i \in 1..Len(mem') : \/ mem'[i] = [key |-> k, data |-> gdata[p]]
                                     \/ \E j \in 1..Len(mem) : mem'[i] = mem[j]
      BY <1>1, <2>1, MemPutIs
    <2>3. ReadInv /\ k \notin raced' => gdata[p].ver = row[k]
      BY <2>1, OwnClean DEF Holding, k
    <2>4. CacheTypes'
      BY <1>2, <2>2 DEF WaitInv, Types, CacheTypes
    <2>5. ReadInv => Storing(p)
      BY <1>2, <2>2, <2>3 DEF Storing, Cached, k
    <2>6. "done" \in GetLabels \ {"joined"} /\ "promote" \notin Leading /\ "done" \notin Asking \cup Holding
      BY DEF GetLabels, Leading, Asking, Holding
    <2> QED BY <1>1, <1>2, <2>1, <2>4, <2>5, <2>6, SoloKeeps
  <1>5. CASE FetchOK(p)
    <2> DEFINE d == [ver |-> gmsg[p], whole |-> TRUE]
    <2>1. /\ gpc[p] = "fetch" /\ gpc' = [gpc EXCEPT ![p] = "write"] /\ UNCHANGED mem
          /\ gdata' = [gdata EXCEPT ![p] = d]
      BY <1>5 DEF FetchOK, Step, cacheVars
    <2>2. CacheTypes' /\ Storing(p)
      BY <1>2, <2>1, StoreSame DEF WaitInv, Types, CacheTypes
    <2>3. d \in Data /\ d.ver = gmsg[p]
      BY <1>1 DEF Data
    <2>4. ReadInv /\ k \notin raced' => d.ver = row[k]
      BY <2>1, <2>3, OwnClean DEF Asking
    <2>5. "write" \in GetLabels \ {"joined"} /\ "write" \in Leading /\ "write" \notin Asking
      BY DEF GetLabels, Leading, Asking
    <2> HIDE DEF d
    <2> QED BY <1>2, <2>1, <2>2, <2>3, <2>4, <2>5, SoloKeeps
  <1> QED BY <1>3, <1>4, <1>5

\* WriteBegin and WriteEnd: the file has the writer's version.
LEMMA WriteKeeps ==
  ASSUME WaitInv, NEW p \in Procs, WriteBegin(p) \/ WriteEnd(p), CacheFrame, RacedBy(p)
  PROVE  WaitInv' /\ (ReadInv => ReadInv')
  <1> DEFINE k == gkey[p]
  <1>1. k \in Idx /\ gdata \in [Procs -> Data] /\ file \in [Idx -> Data] /\ gdata[p] \in Data
    BY DEF WaitInv, Types, GetTypes, CacheTypes
  <1>2. /\ UNCHANGED <<order, mem, flight>> /\ gdata' = [gdata EXCEPT ![p] = gdata[p]]
        /\ \/ gpc[p] = "write" /\ gpc' = [gpc EXCEPT ![p] = "writing"]
           \/ gpc[p] = "writing" /\ gpc' = [gpc EXCEPT ![p] = "insert"]
        /\ file' = file \/ \E b \in BOOLEAN : file' = [file EXCEPT ![k] = [gdata[p] EXCEPT !.whole = b]]
    <2>1. CASE WriteBegin(p)
      BY <1>1, <2>1 DEF WriteBegin, Step
    <2>2. CASE WriteEnd(p)
      <3>1. (Writing(k) = {p}) \in BOOLEAN
        OBVIOUS
      <3> QED BY <1>1, <2>2, <3>1 DEF WriteEnd, Step
    <2> QED BY <2>1, <2>2
  <1>3. \A b \in BOOLEAN : /\ [gdata[p] EXCEPT !.whole = b] \in Data
                           /\ [gdata[p] EXCEPT !.whole = b].ver = gdata[p].ver
    BY <1>1 DEF Data
  <1> HIDE DEF k
  <1>4. /\ file' \in [Idx -> Data]
        /\ \A i \in Idx : file'[i] = file[i] \/ (i = k /\ file'[i].ver = gdata[p].ver)
    <2>1. CASE file' = file
      BY <1>1, <2>1
    <2>2. CASE \E b \in BOOLEAN : file' = [file EXCEPT ![k] = [gdata[p] EXCEPT !.whole = b]]
      <3>1. PICK b \in BOOLEAN : file' = [file EXCEPT ![k] = [gdata[p] EXCEPT !.whole = b]]
        BY <2>2
      <3> DEFINE d == [gdata[p] EXCEPT !.whole = b]
      <3>2. d \in Data /\ d.ver = gdata[p].ver /\ file' = [file EXCEPT ![k] = d]
        BY <1>3, <3>1
      <3> HIDE DEF d
      <3> QED BY <1>1, <3>2
    <2> QED BY <1>2, <2>1, <2>2
  <1>5. ReadInv /\ k \notin raced' => gdata[p].ver = row[k]
    BY <1>2, OwnClean DEF Holding, k
  <1>6. CacheTypes'
    BY <1>2, <1>4 DEF WaitInv, Types, CacheTypes
  <1>7. ReadInv => Storing(p)
    BY <1>2, <1>4, <1>5 DEF Storing, Cached, k
  <1>8. PICK l \in {"writing", "insert"} : gpc' = [gpc EXCEPT ![p] = l]
    BY <1>2
  <1>9. l \in GetLabels \ {"joined"} /\ l \in Leading /\ l \notin Asking /\ gpc[p] # "idle"
    BY <1>2 DEF GetLabels, Leading, Asking
  <1> QED BY <1>1, <1>2, <1>5, <1>6, <1>7, <1>8, <1>9, SoloKeeps DEF k

\* Miss: the process joins the flight of its slot, or leads it.
LEMMA MissKeeps ==
  ASSUME WaitInv, NEW p \in Procs, Miss(p), CacheFrame, RacedBy(p)
  PROVE  WaitInv' /\ (ReadInv => ReadInv')
  <1> DEFINE k == gkey[p]
  <1>1. /\ k \in Idx /\ gpc \in [Procs -> GetLabels] /\ gkey \in [Procs -> Idx]
        /\ gdata \in [Procs -> Data] /\ order \in Seq(Idx)
        /\ flight \in [Idx -> Procs \cup {NoProc}] /\ gmsg \in [Procs -> Versions]
    BY DEF WaitInv, Types, GetTypes, CacheTypes
  <1>2. /\ UNCHANGED <<file, mem, gdata>> /\ gpc[p] = "miss"
        /\ order' = order \/ order' = <<k>> \o Without(order, k)
        /\ \/ flight[k] # NoProc /\ UNCHANGED flight /\ gpc' = [gpc EXCEPT ![p] = "joined"]
           \/ /\ flight[k] = NoProc /\ flight' = [flight EXCEPT ![k] = p]
              /\ \E l \in {"fetch", "reread"} : gpc' = [gpc EXCEPT ![p] = l]
    BY DEF Miss, Step
  <1>3. UNCHANGED <<gkey, gmsg, row>>
    BY DEF CacheFrame
  <1> HIDE DEF k
  <1>4. order' \in Seq(Idx) /\ \A i \in Idx \ {k} : Cached(i) => Cached(i)'
    <2>1. CASE order' = order
      BY <1>1, <2>1 DEF Cached
    <2>2. CASE order' = <<k>> \o Without(order, k)
      <3>1. KeepsOthers(<<k>> \o Without(order, k), order, k)
        BY <1>1, FrontIs
      <3>2. KeepsOthers(order', order, k)
        BY <2>2, <3>1
      <3> QED BY <3>2 DEF KeepsOthers, Cached
    <2> QED BY <1>2, <2>1, <2>2
  <1>5. /\ gpc' \in [Procs -> GetLabels] /\ \A q \in Procs \ {p} : gpc'[q] = gpc[q]
        /\ gpc'[p] \in {"joined", "fetch", "reread"}
        /\ flight' \in [Idx -> Procs \cup {NoProc}] /\ \A i \in Idx \ {k} : flight'[i] = flight[i]
        /\ \/ gpc'[p] = "joined" /\ flight'[k] = flight[k] /\ flight[k] # NoProc
           \/ gpc'[p] \in {"fetch", "reread"} /\ flight'[k] = p /\ flight[k] = NoProc
    <2>1. CASE UNCHANGED flight /\ gpc' = [gpc EXCEPT ![p] = "joined"] /\ flight[k] # NoProc
      BY <1>1, <2>1 DEF GetLabels
    <2>2. ASSUME NEW l \in {"fetch", "reread"}, gpc' = [gpc EXCEPT ![p] = l], flight[k] = NoProc,
                 flight' = [flight EXCEPT ![k] = p]
          PROVE  /\ gpc' \in [Procs -> GetLabels] /\ \A q \in Procs \ {p} : gpc'[q] = gpc[q]
                 /\ gpc'[p] \in {"fetch", "reread"}
                 /\ flight' \in [Idx -> Procs \cup {NoProc}] /\ flight'[k] = p
                 /\ \A i \in Idx \ {k} : flight'[i] = flight[i]
      BY <1>1, <2>2 DEF GetLabels
    <2> QED BY <1>2, <2>1, <2>2
  <1>6. CacheTypes' /\ GetTypes'
    BY <1>1, <1>2, <1>3, <1>4, <1>5 DEF WaitInv, Types, CacheTypes, GetTypes
  <1>7. FlightLed'
    <2> SUFFICES ASSUME NEW i \in Idx, flight'[i] # NoProc
                 PROVE  gpc'[flight'[i]] \in Leading /\ gkey[flight'[i]] = i
      BY <1>3 DEF FlightLed
    <2>1. CASE i = k /\ flight'[k] = p /\ gpc'[p] \in {"fetch", "reread"}
      BY <2>1 DEF Leading, k
    <2>2. CASE flight'[i] = flight[i]
      <3>1. gpc[flight[i]] \in Leading /\ gkey[flight[i]] = i /\ flight[i] \in Procs
        BY <1>1, <2>2 DEF WaitInv, Waits, FlightLed
      <3>2. flight[i] # p
        BY <1>2, <3>1 DEF Leading
      <3> QED BY <1>5, <2>2, <3>1, <3>2
    <2> QED BY <1>5, <2>1, <2>2
  <1>8. JoinedBacked'
    <2> SUFFICES ASSUME NEW q \in Procs, gpc'[q] = "joined" PROVE flight'[gkey[q]] # NoProc
      BY <1>3 DEF JoinedBacked
    <2>1. CASE q = p
      BY <1>5, <2>1 DEF k
    <2>2. CASE q # p
      <3>1. flight[gkey[q]] # NoProc /\ gkey[q] \in Idx
        BY <1>1, <1>5, <2>2 DEF WaitInv, Waits, JoinedBacked
      <3> QED BY <1>5, <3>1
    <2> QED BY <2>1, <2>2
  <1>9. Storing(p)
    BY <1>2, <1>4 DEF Storing, k
  <1>10. Working
    BY <1>2, <1>5 DEF Working, Asking
  <1>11. \A q \in Procs : gpc[q] = "idle" => gpc'[q] = "idle"
    BY <1>2, <1>5
  <1> QED BY <1>6, <1>7, <1>8, <1>9, <1>10, <1>11, StoreKeeps

\* The end of a miss: those who share it go on, and the slot's flight is over.
LEMMA FlightEnds ==
  ASSUME WaitInv, NEW p \in Procs, UNCHANGED gkey, NEW S \in SUBSET Procs, p \in S,
         gpc[p] # "idle",
         \A q \in Procs \ S : gpc'[q] = gpc[q],
         \A q \in S : /\ gpc'[q] \notin Leading \cup {"joined"}
                      /\ q = p \/ (gpc[q] = "joined" /\ gkey[q] = gkey[p]),
         \/ flight' = [flight EXCEPT ![gkey[p]] = NoProc] /\ Sharers(gkey[p], p) \subseteq S
         \/ flight' = flight /\ flight[gkey[p]] # p
  PROVE  /\ FlightLed' /\ JoinedBacked' /\ flight' \in [Idx -> Procs \cup {NoProc}]
         /\ \A q \in Procs : gpc[q] = "idle" => gpc'[q] = "idle"
  <1> DEFINE k == gkey[p]
  <1>1. k \in Idx /\ gkey \in [Procs -> Idx] /\ flight \in [Idx -> Procs \cup {NoProc}]
    BY DEF WaitInv, Types, GetTypes, CacheTypes
  <1>2. /\ \A i \in Idx \ {k} : flight'[i] = flight[i]
        /\ flight' \in [Idx -> Procs \cup {NoProc}]
        /\ \/ flight'[k] = NoProc /\ Sharers(k, p) \subseteq S
           \/ flight'[k] = flight[k] /\ flight[k] # p /\ flight' = flight
    BY <1>1
  <1>3. FlightLed'
    <2> SUFFICES ASSUME NEW i \in Idx, flight'[i] # NoProc
                 PROVE  gpc'[flight'[i]] \in Leading /\ gkey[flight'[i]] = i
      BY DEF FlightLed
    <2>1. flight'[i] = flight[i] /\ flight[i] # p
      BY <1>1, <1>2 DEF WaitInv, Waits, FlightLed
    <2>2. gpc[flight[i]] \in Leading /\ gkey[flight[i]] = i /\ flight[i] \in Procs
      BY <1>1, <2>1 DEF WaitInv, Waits, FlightLed
    <2>3. flight[i] \notin S
      BY <2>1, <2>2 DEF Leading
    <2> QED BY <2>1, <2>2, <2>3
  <1>4. JoinedBacked'
    <2> SUFFICES ASSUME NEW q \in Procs, gpc'[q] = "joined" PROVE flight'[gkey[q]] # NoProc
      BY DEF JoinedBacked
    <2>1. q \notin S /\ gpc[q] = "joined"
      BY DEF Leading
    <2>2. flight[gkey[q]] # NoProc /\ gkey[q] \in Idx
      BY <1>1, <2>1 DEF WaitInv, Waits, JoinedBacked
    <2>3. CASE gkey[q] # k
      BY <1>2, <2>2, <2>3
    <2>4. CASE gkey[q] = k
      BY <1>2, <2>1, <2>2, <2>4 DEF Sharers
    <2> QED BY <2>3, <2>4
  <1> QED BY <1>2, <1>3, <1>4

\* FetchFails: everyone who waits tries again or gives up.
LEMMA FetchFailsKeeps ==
  ASSUME WaitInv, NEW p \in Procs, FetchFails(p), CacheFrame, RacedBy(p)
  PROVE  WaitInv' /\ (ReadInv => ReadInv')
  <1> DEFINE S == Sharers(gkey[p], p)
  <1>1. PICK err \in {"canceled", "transient", "fatal"} : FailWith(p, err)
    BY DEF FetchFails
  <1>2. /\ gpc' = [q \in Procs |-> IF q \notin S THEN gpc[q]
                                   ELSE IF Retries(q, err) THEN "lookup" ELSE "error"]
        /\ flight' = [flight EXCEPT ![gkey[p]] = NoProc]
        /\ UNCHANGED <<order, file, mem, gkey, gmsg, gdata>>
    BY <1>1 DEF FailWith
  <1>3. gpc[p] = "fetch"
    BY DEF FetchFails
  <1>4. S \in SUBSET Procs /\ p \in S /\ \A q \in S : q = p \/ (gpc[q] = "joined" /\ gkey[q] = gkey[p])
    BY DEF Sharers
  <1>5. /\ \A q \in Procs \ S : gpc'[q] = gpc[q]
        /\ \A q \in S : gpc'[q] \in {"lookup", "error"}
    BY <1>2, <1>4
  <1> HIDE DEF S
  <1>6. gpc' \in [Procs -> GetLabels]
    <2>1. gpc \in [Procs -> GetLabels]
      BY DEF WaitInv, Types, GetTypes
    <2> QED BY <1>2, <2>1 DEF GetLabels
  <1>7. /\ FlightLed' /\ JoinedBacked' /\ flight' \in [Idx -> Procs \cup {NoProc}]
        /\ \A q \in Procs : gpc[q] = "idle" => gpc'[q] = "idle"
    <2>1. \A q \in S : gpc'[q] \notin Leading \cup {"joined"}
      BY <1>5 DEF Leading
    <2>2. Sharers(gkey[p], p) \subseteq S
      BY DEF S
    <2> QED BY <1>2, <1>3, <1>4, <1>5, <2>1, <2>2, FlightEnds
  <1>8. CacheTypes' /\ GetTypes'
    BY <1>2, <1>6, <1>7 DEF WaitInv, Types, CacheTypes, GetTypes
  <1>9. Storing(p)
    BY <1>2, StoreSame
  <1>10. Working
    BY <1>2, <1>3, <1>4, <1>5 DEF Working, Asking, Holding
  <1> QED BY <1>7, <1>8, <1>9, <1>10, StoreKeeps

\* Land: the result reaches everyone who shares the flight.
LEMMA LandIs ==
  ASSUME WaitInv, NEW p \in Procs, NEW d \in Data, Land(p, d), gpc[p] # "idle", UNCHANGED <<gkey, gmsg>>
  PROVE  /\ GetTypes' /\ FlightLed' /\ JoinedBacked' /\ flight' \in [Idx -> Procs \cup {NoProc}]
         /\ \A q \in Procs : gpc[q] = "idle" => gpc'[q] = "idle"
         /\ Working
  <1> DEFINE S == IF flight[gkey[p]] = p THEN Sharers(gkey[p], p) ELSE {p}
  <1>1. /\ gpc' = [q \in Procs |-> IF q \in S THEN "done" ELSE gpc[q]]
        /\ gdata' = [q \in Procs |-> IF q \in S THEN d ELSE gdata[q]]
        /\ flight' = IF flight[gkey[p]] = p THEN [flight EXCEPT ![gkey[p]] = NoProc] ELSE flight
    BY DEF Land
  <1>2. /\ S \in SUBSET Procs /\ p \in S
        /\ \A q \in S : q = p \/ (gpc[q] = "joined" /\ gkey[q] = gkey[p])
        /\ flight[gkey[p]] = p => Sharers(gkey[p], p) \subseteq S
    BY DEF Sharers
  <1> HIDE DEF S
  <1>3. /\ \A q \in Procs \ S : gpc'[q] = gpc[q] /\ gdata'[q] = gdata[q]
        /\ \A q \in S : gpc'[q] = "done"
    BY <1>1, <1>2
  <1>4. GetTypes'
    <2>1. /\ gpc \in [Procs -> GetLabels] /\ gkey \in [Procs -> Idx] /\ gmsg \in [Procs -> Versions]
          /\ gdata \in [Procs -> Data]
      BY DEF WaitInv, Types, GetTypes
    <2>2. gpc' \in [Procs -> GetLabels]
      BY <1>1, <2>1 DEF GetLabels
    <2>3. gdata' \in [Procs -> Data]
      BY <1>1, <2>1
    <2> QED BY <2>1, <2>2, <2>3 DEF GetTypes
  <1>5. /\ FlightLed' /\ JoinedBacked' /\ flight' \in [Idx -> Procs \cup {NoProc}]
        /\ \A q \in Procs : gpc[q] = "idle" => gpc'[q] = "idle"
    <2>1. \A q \in S : gpc'[q] \notin Leading \cup {"joined"}
      BY <1>3 DEF Leading
    <2>2. \/ flight' = [flight EXCEPT ![gkey[p]] = NoProc] /\ Sharers(gkey[p], p) \subseteq S
          \/ flight' = flight /\ flight[gkey[p]] # p
      BY <1>1, <1>2
    <2> QED BY <1>2, <1>3, <2>1, <2>2, FlightEnds
  <1>6. Working
    BY <1>2, <1>3 DEF Working, Asking, Holding
  <1> QED BY <1>4, <1>5, <1>6

\* Reread: the leader's second look.
LEMMA RereadKeeps ==
  ASSUME WaitInv, NEW p \in Procs, Reread(p), CacheFrame, RacedBy(p)
  PROVE  WaitInv' /\ (ReadInv => ReadInv')
  <1> DEFINE k == gkey[p]
  <1>1. gpc[p] = "reread" /\ UNCHANGED <<order, file, mem, gkey, gmsg>>
    BY DEF Reread
  <1>2. k \in Idx /\ file[k] \in Data /\ gdata \in [Procs -> Data]
    BY DEF WaitInv, Types, GetTypes, CacheTypes
  <1>3. Storing(p)
    BY <1>1, StoreSame
  <1>4. CASE FileExists(k)
    <2>1. Land(p, file[k])
      BY <1>4 DEF Reread
    <2>2. /\ GetTypes' /\ FlightLed' /\ JoinedBacked' /\ flight' \in [Idx -> Procs \cup {NoProc}]
          /\ \A q \in Procs : gpc[q] = "idle" => gpc'[q] = "idle"
          /\ Working
      BY <1>1, <1>2, <2>1, LandIs
    <2>3. CacheTypes'
      BY <1>1, <2>2 DEF WaitInv, Types, CacheTypes
    <2> QED BY <1>3, <2>2, <2>3, StoreKeeps
  <1>5. CASE ~FileExists(k)
    <2>1. gpc' = [gpc EXCEPT ![p] = "redrop"] /\ UNCHANGED <<gdata, flight>>
      BY <1>5 DEF Reread, Step
    <2>2. gdata[p] \in Data /\ gdata' = [gdata EXCEPT ![p] = gdata[p]]
      BY <1>2, <2>1
    <2>3. CacheTypes'
      BY <1>1, <2>1 DEF WaitInv, Types, CacheTypes
    <2>4. /\ "redrop" \in GetLabels \ {"joined"} /\ "redrop" \in Leading /\ "reread" \in Asking
          /\ "redrop" \notin Holding
      BY DEF GetLabels, Leading, Asking, Holding
    <2> QED BY <1>1, <1>3, <2>1, <2>2, <2>3, <2>4, SoloKeeps
  <1> QED BY <1>4, <1>5

\* Insert: an entry that is evicted loses its file.
LEMMA InsertKeeps ==
  ASSUME WaitInv, NEW p \in Procs, Insert(p), CacheFrame, RacedBy(p)
  PROVE  WaitInv' /\ (ReadInv => ReadInv')
  <1> DEFINE k == gkey[p]
             longer == <<k>> \o Without(order, k)
  <1>1. /\ k \in Idx /\ gdata[p] \in Data /\ file \in [Idx -> Data] /\ order \in Seq(Idx)
        /\ mem \in Seq(Entry) /\ Unique(mem)
    BY DEF WaitInv, Types, GetTypes, CacheTypes
  <1>2. /\ gpc[p] = "insert" /\ Land(p, gdata[p]) /\ UNCHANGED <<gkey, gmsg>>
        /\ order' = longer \/ order' = Clamp(longer, DiskCap)
        /\ file' = [i \in Idx |-> IF Cached(i) /\ \A m \in 1..Len(order') : order'[m] # i
                                  THEN None ELSE file[i]]
        /\ mem' = mem \/ mem' = MemPut(mem, k, gdata[p])
    <2>1. order' = IF Cached(k) THEN longer ELSE Clamp(longer, DiskCap)
      BY DEF Insert, Evict
    <2> QED BY <2>1 DEF Insert
  <1> HIDE DEF k, longer
  <1>3. order' \in Seq(Idx)
    <2>1. longer \in Seq(Idx)
      BY <1>1, FrontIs DEF longer, KeepsOthers
    <2>2. Clamp(longer, DiskCap) \in Seq(Idx)
      BY <2>1, CacheAssumption, ClampIs
    <2> QED BY <1>2, <2>1, <2>2
  <1>4. /\ file' \in [Idx -> Data]
        /\ \A i \in Idx : /\ file'[i] = None \/ file'[i] = file[i]
                          /\ Cached(i) => Cached(i)' \/ file'[i] = None
    <2>1. None \in Data
      BY CacheAssumption DEF None, Data, Versions
    <2>2. file' \in [Idx -> Data]
      BY <1>1, <1>2, <2>1
    <2>3. \A i \in Idx : file'[i] = IF Cached(i) /\ \A m \in 1..Len(order') : order'[m] # i
                                    THEN None ELSE file[i]
      BY <1>2
    <2>4. \A i \in Idx : file'[i] = IF Cached(i) /\ ~Cached(i)' THEN None ELSE file[i]
      BY <2>3 DEF Cached
    <2> QED BY <2>2, <2>4
  <1>5. /\ mem' \in Seq(Entry) /\ Unique(mem')
        /\ \A i \in 1..Len(mem') : \/ mem'[i] = [key |-> k, data |-> gdata[p]]
                                   \/ \E j \in 1..Len(mem) : mem'[i] = mem[j]
    <2>1. CASE mem' = mem
      BY <1>1, <2>1
    <2>2. CASE mem' = MemPut(mem, k, gdata[p])
      BY <1>1, <2>2, MemPutIs
    <2> QED BY <1>2, <2>1, <2>2
  <1>6. /\ GetTypes' /\ FlightLed' /\ JoinedBacked' /\ flight' \in [Idx -> Procs \cup {NoProc}]
        /\ \A q \in Procs : gpc[q] = "idle" => gpc'[q] = "idle"
        /\ Working
    BY <1>1, <1>2, LandIs
  <1>7. CacheTypes'
    BY <1>3, <1>4, <1>5, <1>6 DEF CacheTypes
  <1>8. ReadInv /\ k \notin raced' => gdata[p].ver = row[k]
    BY <1>2, OwnClean DEF Holding, k
  <1>9. ReadInv => Storing(p)
    BY <1>4, <1>5, <1>8 DEF Storing, k
  <1> QED BY <1>6, <1>7, <1>9, StoreKeeps

\* Every step of a process in the cache keeps the invariant.
LEMMA CacheStepKeeps ==
  ASSUME WaitInv, NEW p \in Procs, CacheStep(p)
  PROVE  WaitInv' /\ (ReadInv => ReadInv')
  <1>1. GetStep(p) /\ RacedBy(p) /\ UNCHANGED <<fileVars, readVars, blobVars, failed>>
    BY DEF CacheStep, RacedBy
  <1>2. UNCHANGED <<gkey, gmsg>>
    BY <1>1 DEF GetStep, MemGet, Lookup, ReadFile, Promote, DropEntry, Miss, FetchOK, FetchFails,
                FailWith, WriteBegin, WriteEnd, Reread, Insert
  <1>3. CacheFrame
    BY <1>1, <1>2 DEF CacheFrame, fileVars, readVars, blobVars
  <1> QED BY <1>1, <1>3, MemGetKeeps, LookupKeeps, BytesKeep, WriteKeeps, MissKeeps,
             FetchFailsKeeps, RereadKeeps, InsertKeeps DEF GetStep

-----------------------------------------------------------------------------
(* Restart, and the theorems *)

\* Restart: nobody is left at work, and the directory has the files it had or
\* fewer.  What the rows say of the files is known when no upload was under
\* way.
LEMMA RestartKeeps ==
  ASSUME WaitInv, Restart
  PROVE  WaitInv' /\ ("dirtyRestart" \notin Allow /\ ReadInv => ReadInv')
  <1>1. /\ gpc' = [p \in Procs |-> "idle"] /\ gkey' = [p \in Procs |-> AnyIdx]
        /\ gmsg' = [p \in Procs |-> 0] /\ gdata' = [p \in Procs |-> None]
        /\ rpc' = [r \in Readers |-> "idle"] /\ inSize' = {} /\ parked' = [r \in Readers |-> 0]
        /\ upc' = [k \in Idx |-> "idle"] /\ count' = 0 /\ queue' = <<>> /\ todo' = <<>>
        /\ "dirtyRestart" \in Allow \/ \A k \in Idx : upc[k] = "idle"
        /\ UNCHANGED <<row, uver, sized, drain, raced, failed>>
    BY DEF Restart, histVars
  <1>2. mem' = <<>> /\ flight' = [k \in Idx |-> NoProc]
    BY DEF Restart, AdoptExisting
  <1>3. /\ order' \in Seq(Idx) /\ file' \in [Idx -> Data]
        /\ \A k \in Idx : file'[k] = None \/ file'[k] = file[k]
    <2>0. AdoptExisting
      BY DEF Restart
    <2>1. PICK found \in SUBSET {k \in Idx : FileExists(k)} :
             \E s \in [1..Cardinality(found) -> found] :
               /\ order' = Evict(s)
               /\ file' = [k \in Idx |-> IF k \in found /\ \A m \in 1..Len(Evict(s)) : s[m] # k
                                         THEN None ELSE file[k]]
      BY <2>0, Zenon DEF AdoptExisting
    <2>2. PICK s \in [1..Cardinality(found) -> found] :
              /\ order' = Evict(s)
              /\ file' = [k \in Idx |-> IF k \in found /\ \A m \in 1..Len(Evict(s)) : s[m] # k
                                        THEN None ELSE file[k]]
      BY <2>1
    <2>3. Cardinality(found) \in Nat
      BY CacheAssumption, FS_Subset, FS_CardinalityType
    <2>4. s \in Seq(Idx)
      BY <2>3
    <2>5. order' \in Seq(Idx)
      BY <2>2, <2>4, CacheAssumption, ClampIs DEF Evict
    <2>6. None \in Data /\ file \in [Idx -> Data]
      BY CacheAssumption DEF None, Data, Versions, WaitInv, Types, CacheTypes
    <2> QED BY <2>2, <2>5, <2>6
  <1>4. Types'
    <2>1. CacheTypes'
      <3>1. mem' \in Seq(Entry) /\ Unique(mem')
        BY <1>2 DEF Unique
      <3> QED BY <1>2, <1>3, <3>1 DEF CacheTypes
    <2>2. GetTypes'
      <3>1. AnyIdx \in Idx /\ 0 \in Versions /\ None \in Data
        BY CacheAssumption DEF AnyIdx, None, Data, Versions
      <3> HIDE DEF AnyIdx, None
      <3> QED BY <1>1, <3>1 DEF GetTypes, GetLabels
    <2>3. FileTypes'
      BY <1>1 DEF WaitInv, Types, FileTypes, UploadLabels
    <2>4. ReadTypes'
      BY <1>1 DEF ReadTypes, ReadLabels
    <2> QED BY <2>1, <2>2, <2>3, <2>4 DEF Types
  <1>5. Waits'
    <2>1. FlightLed' /\ JoinedBacked' /\ ReadersQuiet' /\ ParkedBacked'
      BY <1>1, <1>2, ReadAssumption DEF FlightLed, JoinedBacked, ReadersQuiet, ParkedBacked
    <2>2. Active' = {}
      BY <1>1 DEF Active
    <2>3. CountExact'
      BY <1>1, <2>2, FS_EmptySet DEF CountExact
    <2> QED BY <2>1, <2>3 DEF Waits
  <1>6. ASSUME "dirtyRestart" \notin Allow, ReadInv PROVE NotLost' /\ AllClean'
    <2>1. \A k \in Idx : upc[k] = "idle" /\ upc'[k] = "idle"
      BY <1>1, <1>6
    <2>2. Accepted'
      BY <1>1, <1>6, <2>1 DEF ReadInv, NotLost, Accepted, Settled
    <2>3. Looking'
      BY <1>1 DEF Looking, LookingAt
    <2>4. ASSUME NEW k \in Idx, k \notin raced' PROVE Clean(k)'
      <3>1. Clean(k) /\ ~Replacing(k) /\ ~Replacing(k)'
        BY <1>1, <1>6, <2>1, <2>4 DEF ReadInv, AllClean, Replacing
      <3>2. StoredFresh(k)'
        BY <1>1, <1>2, <1>3, <3>1 DEF Clean, StoredFresh, FileExists
      <3>3. UsersFresh(k)'
        BY <1>1 DEF UsersFresh, Asking, Holding
      <3> QED BY <3>1, <3>2, <3>3 DEF Clean
    <2> QED BY <2>2, <2>3, <2>4 DEF NotLost, AllClean
  <1> QED BY <1>4, <1>5, <1>6 DEF WaitInv, ReadInv

\* The initial states: a file without rows, or one uploaded whole.
LEMMA InitHolds ==
  ASSUME Init
  PROVE  ReadInv
  <1>1. /\ gpc = [p \in Procs |-> "idle"] /\ gkey = [p \in Procs |-> AnyIdx]
        /\ gmsg = [p \in Procs |-> 0] /\ gdata = [p \in Procs |-> None]
        /\ order = <<>> /\ mem = <<>> /\ file = [k \in Idx |-> None]
        /\ flight = [k \in Idx |-> NoProc]
        /\ \/ row = [k \in Idx |-> 0] /\ sized = {}
           \/ row = [k \in Idx |-> 1] /\ sized = Idx
        /\ uver = row /\ upc = [k \in Idx |-> "idle"] /\ count = 0 /\ drain = 0
        /\ rpc = [r \in Readers |-> "idle"] /\ inSize = {} /\ parked = [r \in Readers |-> 0]
        /\ queue = <<>> /\ todo = <<>> /\ raced = {} /\ failed = {}
    BY DEF Init, CacheInit
  <1>2. AnyIdx \in Idx /\ 0 \in Versions /\ 1 \in Versions /\ None \in Data
    BY CacheAssumption DEF AnyIdx, None, Data, Versions
  <1>3. Types
    <2>1. CacheTypes
      BY <1>1, <1>2 DEF CacheTypes, Unique
    <2>2. GetTypes
      <3> HIDE DEF AnyIdx, None
      <3> QED BY <1>1, <1>2 DEF GetTypes, GetLabels
    <2>3. FileTypes
      BY <1>1, <1>2 DEF FileTypes, UploadLabels
    <2>4. ReadTypes
      BY <1>1 DEF ReadTypes, ReadLabels
    <2> QED BY <2>1, <2>2, <2>3, <2>4 DEF Types
  <1>4. Waits
    <2>1. FlightLed /\ JoinedBacked /\ ReadersQuiet /\ ParkedBacked
      BY <1>1, ReadAssumption DEF FlightLed, JoinedBacked, ReadersQuiet, ParkedBacked
    <2>2. Active = {}
      BY <1>1 DEF Active
    <2>3. CountExact
      BY <1>1, <2>2, FS_EmptySet DEF CountExact
    <2> QED BY <2>1, <2>3 DEF Waits
  <1>5. NotLost
    <2>1. Accepted
      BY <1>1 DEF Accepted, Settled
    <2>2. Looking
      BY <1>1 DEF Looking, LookingAt
    <2> QED BY <2>1, <2>2 DEF NotLost
  <1>6. ASSUME NEW k \in Idx PROVE Clean(k)
    <2>1. ~Replacing(k) /\ StoredFresh(k)
      BY <1>1 DEF Replacing, StoredFresh, FileExists
    <2>2. UsersFresh(k)
      BY <1>1 DEF UsersFresh, Asking, Holding
    <2> QED BY <2>1, <2>2 DEF Clean
  <1> QED BY <1>3, <1>4, <1>5, <1>6 DEF ReadInv, WaitInv, AllClean

\* Every step keeps the first half; without a kill during an upload, both.
LEMMA NextKeeps ==
  ASSUME WaitInv, [Next]_vars
  PROVE  WaitInv' /\ ("dirtyRestart" \notin Allow /\ ReadInv => ReadInv')
  <1>1. Readers \subseteq Procs /\ Ahead \subseteq Procs /\ Blob \in Procs
    BY ReadAssumption
  <1>2. ASSUME NEW k \in Idx, Dispatch(k) \/ SetSize(k) \/ UploadFails(k) \/ UploadNext(k)
        PROVE  WaitInv' /\ (ReadInv => ReadInv')
    BY <1>2, DispatchKeeps, StageKeeps, EndKeeps, PutChunkKeeps, InvalidateKeeps DEF UploadNext
  <1>3. ASSUME NEW r \in Readers, Interrupt(r) \/ ReaderNext(r)
        PROVE  WaitInv' /\ (ReadInv => ReadInv')
    BY <1>1, <1>3, InterruptKeeps, GetChunkKeeps, TierKeeps, ReadEndKeeps, CacheStepKeeps
       DEF ReaderNext
  <1>4. ASSUME NEW q \in Ahead, AheadNext(q) PROVE WaitInv' /\ (ReadInv => ReadInv')
    BY <1>1, <1>4, PrefetchEndKeeps, CacheStepKeeps DEF AheadNext
  <1>5. CASE BlobStep \/ CacheStep(Blob)
    <2>1. Blob \in Ahead \cup {Blob}
      OBVIOUS
    <2> QED BY <1>1, <1>5, <2>1, PrefetchEndKeeps, LandExtentKeeps, FetchSpanKeeps,
               CacheStepKeeps DEF BlobStep
  <1>6. CASE UNCHANGED vars
    BY <1>6, InterruptKeeps
  <1> QED BY <1>2, <1>3, <1>4, <1>5, <1>6, ReadAtKeeps, RestartKeeps DEF Next

\* The first half of the invariant says that whoever waits has a waker.
LEMMA WaitersHaveWakers ==
  ASSUME WaitInv
  PROVE  WaitsAreBacked
  <1>1. \A r \in Readers : rpc[r] = "parked" /\ drain = parked[r] => count > 0
    BY DEF WaitInv, Waits, ParkedBacked
  <1>2. ASSUME NEW p \in Procs, gpc[p] = "joined"
        PROVE  /\ flight[gkey[p]] # NoProc
               /\ gpc[flight[gkey[p]]] \in Leading
               /\ gkey[flight[gkey[p]]] = gkey[p]
    <2>1. gkey[p] \in Idx /\ flight[gkey[p]] # NoProc
      BY <1>2 DEF WaitInv, Waits, Types, GetTypes, JoinedBacked
    <2> QED BY <2>1 DEF WaitInv, Waits, FlightLed
  <1> QED BY <1>1, <1>2 DEF WaitsAreBacked, Leading

\* The second half says that a slot without a race is fresh in both tiers.
LEMMA CleanIsFresh ==
  ASSUME ReadInv
  PROVE  CacheFresh
  <1> SUFFICES ASSUME NEW k \in Idx, ~Replacing(k), k \notin raced PROVE Fresh(k)
    BY DEF CacheFresh
  <1>1. StoredFresh(k)
    BY DEF ReadInv, AllClean, Clean
  <1>2. ASSUME MemHit(k) PROVE MemData(k).ver = row[k]
    <2> DEFINE m == CHOOSE m \in 1..Len(mem) : mem[m].key = k
    <2>1. m \in 1..Len(mem) /\ mem[m].key = k
      BY <1>2 DEF MemHit
    <2>2. MemData(k) = mem[m].data
      BY DEF MemData
    <2> HIDE DEF m
    <2> QED BY <1>1, <2>1, <2>2 DEF StoredFresh
  <1> QED BY <1>1, <1>2 DEF Fresh, StoredFresh

\* Whoever waits is woken, for any number of slots, readers and prefetchers,
\* whatever uploads fail and wherever the daemon dies: a read parked on the
\* barrier (PendingInodes.Wait) waits for a channel that an upload under way
\* will close, and whoever joined a miss has a leader at work on it.
THEOREM WaitersAreWoken ==
  Spec => []WaitsAreBacked
  <1>1. Init => WaitInv
    BY InitHolds DEF ReadInv
  <1>2. WaitInv /\ [Next]_vars => WaitInv'
    BY NextKeeps
  <1>3. WaitInv => WaitsAreBacked
    BY WaitersHaveWakers
  <1> QED BY <1>1, <1>2, <1>3, PTL DEF Spec

\* The invariant behind the next two theorems, in daemons that are not killed
\* with an upload under way.
THEOREM ReadInvariant ==
  ASSUME "dirtyRestart" \notin Allow
  PROVE  Spec => []ReadInv
  <1>1. Init => ReadInv
    BY InitHolds
  <1>2. ReadInv /\ [Next]_vars => ReadInv'
    BY NextKeeps DEF ReadInv
  <1> QED BY <1>1, <1>2, PTL DEF Spec

\* fetchOne says "data lost" only of a slot one of whose uploads has failed:
\* row, staging directory and barrier leave no gap.
THEOREM LossNeedsFailure ==
  ASSUME "dirtyRestart" \notin Allow
  PROVE  Spec => []LostOnlyAfterFailure
  <1>1. ReadInv => LostOnlyAfterFailure
    BY DEF ReadInv, NotLost, Looking, LookingAt, LostOnlyAfterFailure
  <1> QED BY <1>1, ReadInvariant, PTL

\* Neither tier of the cache serves another message than the row names, outside
\* the window of an Invalidate and unless a use of the slot overlapped one.
THEOREM CacheFollowsRows ==
  ASSUME "dirtyRestart" \notin Allow
  PROVE  Spec => []CacheFresh
  <1>1. ReadInv => CacheFresh
    BY CleanIsFresh
  <1> QED BY <1>1, ReadInvariant, PTL

=============================================================================
