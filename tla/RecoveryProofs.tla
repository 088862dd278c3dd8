--------------------------- MODULE RecoveryProofs ---------------------------
(***************************************************************************)
(* Journal, poster, snapshots and recovery for any number of inodes, names,*)
(* batches, snapshots, failures and crashes: the tables stay well formed   *)
(* through every recovery, a skipped snapshot is not missed, pruning never *)
(* strands a retained snapshot, and the first loss of the local database   *)
(* brings back a state it was in.                                          *)
(***************************************************************************)
EXTENDS Recovery, NamespaceProofs, SequenceTheorems, FunctionTheorems,
        WellFoundedInduction

-----------------------------------------------------------------------------
(* Finite sets and orders *)

\* The least-number principle, for a set of numbers.
LEMMA Least ==
  ASSUME NEW T \in SUBSET Nat, T # {}
  PROVE  \E m \in T : \A n \in T : m <= n
  <1> DEFINE R == OpToRel(<, Nat)
  <1>1. IsWellFoundedOn(R, Nat)
    BY NatLessThanWellFounded
  <1>2. \A x, y \in Nat : x < y => <<x, y>> \in R
    BY DEF OpToRel
  <1> HIDE DEF R
  <1>3. PICK x \in T : \A y \in T : ~(<<y, x>> \in R)
    BY <1>1, WFMin
  <1>4. \A y \in T : y \in Nat /\ ~(y < x)
    BY <1>2, <1>3
  <1>5. \A y \in T : x <= y
    BY <1>4
  <1> QED BY <1>5

\* A finite set of numbers has a greatest one.
LEMMA Greatest ==
  ASSUME NEW S \in SUBSET Nat, IsFiniteSet(S), S # {}
  PROVE  \E m \in S : \A n \in S : n <= m
  <1> DEFINE Bad(U) == U \in SUBSET Nat /\ IsFiniteSet(U) /\ U # {}
                       /\ ~(\E m \in U : \A n \in U : n <= m)
             T == {c \in Nat : \E U \in SUBSET Nat : Bad(U) /\ Cardinality(U) = c}
  <1> SUFFICES ASSUME Bad(S) PROVE FALSE
    OBVIOUS
  <1>1. Cardinality(S) \in T
    BY FS_CardinalityType
  <1>2. PICK c \in T : \A n \in T : c <= n
    <2> HIDE DEF T
    <2>1. T \in SUBSET Nat
      BY DEF T
    <2> QED BY <1>1, <2>1, Least
  <1>3. PICK U \in SUBSET Nat : Bad(U) /\ Cardinality(U) = c
    OBVIOUS
  <1>4. PICK x \in U : TRUE
    BY <1>3
  <1> DEFINE V == U \ {x}
  <1>5. IsFiniteSet(V) /\ Cardinality(V) = c - 1 /\ c \in Nat /\ V \in SUBSET Nat
    BY <1>3, <1>4, FS_RemoveElement, FS_CardinalityType
  <1>6. c - 1 \in Nat /\ ~(c <= c - 1)
    BY <1>3, <1>4, <1>5, FS_EmptySet, FS_CardinalityType
  <1>7. ~Bad(V)
    BY <1>2, <1>5, <1>6
  <1>8. CASE V = {}
    <2>1. \A n \in U : n <= x
      BY <1>8
    <2> QED BY <1>3, <1>4, <2>1
  <1>9. CASE V # {}
    <2>1. PICK m \in V : \A n \in V : n <= m
      BY <1>5, <1>7, <1>9
    <2>2. m \in Nat /\ x \in Nat /\ m \in U
      BY <2>1
    <2>3. CASE x <= m
      <3>1. \A n \in U : n <= m
        BY <2>1, <2>3
      <3> QED BY <1>3, <2>2, <3>1
    <2>4. CASE m <= x
      <3>1. \A n \in U : n <= x
        BY <2>1, <2>2, <2>4
      <3> QED BY <1>3, <1>4, <3>1
    <2> QED BY <2>2, <2>3, <2>4
  <1> QED BY <1>8, <1>9

\* InOrder lists a finite set that the relation orders: every member once,
\* the earlier before the later.
Orders(S, R) ==
    /\ \A x \in S : <<x, x>> \notin R
    /\ \A x, y \in S : x # y => <<x, y>> \in R \/ <<y, x>> \in R
    /\ \A x, y, z \in S : <<x, y>> \in R /\ <<y, z>> \in R => <<x, z>> \in R

LEMMA InOrderIs ==
  ASSUME NEW S, IsFiniteSet(S), NEW R, Orders(S, R)
  PROVE  /\ InOrder(S, R) \in Seq(S) /\ Len(InOrder(S, R)) = Cardinality(S)
         /\ \A x \in S : \E k \in 1..Len(InOrder(S, R)) : InOrder(S, R)[k] = x
         /\ \A j, k \in 1..Len(InOrder(S, R)) :
              j < k => <<InOrder(S, R)[j], InOrder(S, R)[k]>> \in R
  <1> DEFINE c == Cardinality(S)
             less(x) == {y \in S : <<y, x>> \in R}
             rank(x) == Cardinality(less(x)) + 1
             pick(k) == CHOOSE x \in S : Cardinality(less(x)) = k - 1
             f == [x \in S |-> rank(x)]
             L == InOrder(S, R)
  <1>1. c \in Nat
    BY FS_CardinalityType
  <1>2. \A x \in S : IsFiniteSet(less(x)) /\ rank(x) \in 1..c
    <2> TAKE x \in S
    <2>1. less(x) \in SUBSET S /\ x \notin less(x)
      BY DEF Orders
    <2> HIDE DEF less
    <2>2. IsFiniteSet(less(x)) /\ Cardinality(less(x)) \in Nat
          /\ Cardinality(less(x)) <= c /\ Cardinality(less(x)) # c
      BY <2>1, FS_Subset, FS_CardinalityType
    <2> QED BY <1>1, <2>2
  <1>3. \A x, y \in S : <<x, y>> \in R => rank(x) < rank(y)
    <2> SUFFICES ASSUME NEW x \in S, NEW y \in S, <<x, y>> \in R
                 PROVE  rank(x) < rank(y)
      OBVIOUS
    <2>1. less(x) \in SUBSET less(y) /\ x \in less(y) /\ x \notin less(x)
      BY DEF Orders
    <2>2. IsFiniteSet(less(x)) /\ IsFiniteSet(less(y))
      BY <1>2
    <2> HIDE DEF less
    <2>3. /\ Cardinality(less(x)) \in Nat /\ Cardinality(less(y)) \in Nat
          /\ Cardinality(less(x)) <= Cardinality(less(y))
          /\ Cardinality(less(x)) # Cardinality(less(y))
      BY <2>1, <2>2, FS_Subset, FS_CardinalityType
    <2> QED BY <2>3
  <1>4. \A x, y \in S : rank(x) = rank(y) => x = y
    <2> HIDE DEF rank, less, c
    <2> SUFFICES ASSUME NEW x \in S, NEW y \in S, rank(x) = rank(y), x # y
                 PROVE  FALSE
      OBVIOUS
    <2>1. rank(x) \in Int /\ rank(y) \in Int
      <3>1. rank(x) \in 1..c /\ rank(y) \in 1..c
        BY <1>2
      <3> QED BY <1>1, <3>1
    <2>2. <<x, y>> \in R \/ <<y, x>> \in R
      BY DEF Orders
    <2> QED BY <1>3, <2>1, <2>2
  <1>5. f \in Injection(S, 1..c)
    <2> HIDE DEF rank
    <2>1. f \in [S -> 1..c]
      BY <1>2
    <2> QED BY <1>4, <2>1, Fun_IsInj
  <1>6. \A k \in 1..c : \E x \in S : rank(x) = k
    <2>1. IsFiniteSet(1..c) /\ Cardinality(1..c) = c
      BY <1>1, FS_Interval
    <2>2. f \in Surjection(S, 1..c)
      BY <1>5, <2>1, FS_Injection
    <2> HIDE DEF f
    <2>3. \A k \in 1..c : \E x \in S : f[x] = k
      BY <2>2, Fun_SurjectionProperties
    <2> QED BY <2>3 DEF f
  <1>7. \A k \in 1..c : pick(k) \in S /\ rank(pick(k)) = k
    <2> TAKE k \in 1..c
    <2>1. PICK x \in S : rank(x) = k
      BY <1>6
    <2>2. Cardinality(less(x)) \in Nat
      BY <1>2, FS_CardinalityType
    <2> HIDE DEF less
    <2>3. Cardinality(less(x)) = k - 1
      BY <1>1, <2>1, <2>2
    <2>4. pick(k) \in S /\ Cardinality(less(pick(k))) = k - 1
      BY <2>3
    <2> QED BY <1>1, <2>4
  <1>8. L = [k \in 1..c |-> pick(k)]
    BY DEF InOrder
  <1> HIDE DEF pick, less, rank, f, L
  <1>9. L \in Seq(S) /\ Len(L) = c
    BY <1>1, <1>7, <1>8
  <1>10. \A k \in 1..c : L[k] \in S /\ rank(L[k]) = k
    BY <1>7, <1>8
  <1>11. \A x \in S : L[rank(x)] = x
    BY <1>2, <1>4, <1>10
  <1>12. \A j, k \in 1..c : j < k => <<L[j], L[k]>> \in R
    <2> SUFFICES ASSUME NEW j \in 1..c, NEW k \in 1..c, j < k, <<L[j], L[k]>> \notin R
                 PROVE  FALSE
      OBVIOUS
    <2>1. L[j] \in S /\ L[k] \in S /\ rank(L[j]) = j /\ rank(L[k]) = k
      BY <1>10
    <2>2. L[j] # L[k]
      BY <1>1, <2>1
    <2>3. <<L[k], L[j]>> \in R
      BY <2>1, <2>2 DEF Orders
    <2>4. k < j
      BY <1>3, <2>1, <2>3
    <2> QED BY <1>1, <2>4
  <1> QED BY <1>2, <1>9, <1>11, <1>12 DEF L, c

-----------------------------------------------------------------------------
(* Types *)

Trees == {d \in Databases : WellFormed(d)}
Ops == {OpCreate(RootIno, n, i, "file") : n \in Names, i \in Inos}
         \cup {OpLink(RootIno, n, t) : n \in Names, t \in Inos}
         \cup {OpUnlink(RootIno, n) : n \in Names}
         \cup {OpRename(RootIno, n, RootIno, m) : n \in Names, m \in Names}
Rows == [seq : Nat, op : Ops, posted : BOOLEAN]

\* A journal table: keyed by seq, none beyond the sequence.
Keyed(j, n) == /\ IsFiniteSet(j)
               /\ \A e \in j : e.seq \in 1..n
               /\ \A e, f \in j : e.seq = f.seq => e = f
Images == {x \in [db : Trees, nextIno : Inos, journal : SUBSET Rows, lastSeq : Nat,
                  snapSeq : Nat] : Keyed(x.journal, x.lastSeq)}
Snapshots == [seq : Nat, image : Images]

\* A batch, and what is left of one: rows by seq.
Ascending(s) == \A i, j \in 1..Len(s) : i < j => s[i].seq < s[j].seq
RowLists == {s \in Seq(Rows) : Ascending(s)}
Batches == RowLists \ {<<>>}

\* The types of the state; the tables are a tree in every image of them.
RecoveryTypes ==
    /\ db \in Trees /\ nextIno \in Inos /\ journal \in SUBSET Rows
    /\ lastSeq \in Nat /\ snapSeq \in Nat /\ Keyed(journal, lastSeq)
    /\ snaps \in Seq(Snapshots) /\ snaps # <<>>
    /\ batches \in Seq(Batches) /\ batches # <<>>
    /\ up \in BOOLEAN /\ fresh \in BOOLEAN /\ lost \in BOOLEAN
    /\ mgr \in {"idle", "vacuum", "upload", "kv", "prune", "baseline"}
    /\ snap \in Snapshots
    /\ post \in {"idle", "upload", "mark"} /\ pending \in RowLists
    /\ post # "idle" => pending # <<>>
    /\ past \in Seq(Databases) /\ safe \in Nat /\ losses \in Nat

\* What an operation of one directory is.
LEMMA OpsAre ==
  ASSUME NEW o \in Ops
  PROVE  \/ \E n \in Names, i \in Inos : o = OpCreate(RootIno, n, i, "file")
         \/ \E n \in Names, t \in Inos : o = OpLink(RootIno, n, t)
         \/ \E n \in Names : o = OpUnlink(RootIno, n)
         \/ \E n \in Names, m \in Names : o = OpRename(RootIno, n, RootIno, m)
  BY DEF Ops

\* A committed operation leaves a tree.
LEMMA ApplyTree ==
  ASSUME NEW d \in Trees, NEW o \in Ops, Error(d, o) = "ok"
  PROVE  Apply(d, o) \in Trees
  <1>1. WellFormed(d) /\ RootIno \in Inos
    BY NamespaceAssumption DEF Trees
  <1>2. WellFormed(Apply(d, o))
    <2>1. CASE \E n \in Names, i \in Inos : o = OpCreate(RootIno, n, i, "file")
      <3>1. PICK n \in Names, i \in Inos : o = OpCreate(RootIno, n, i, "file")
        BY <2>1
      <3>2. o.op = "create" /\ "file" \in Kinds
        BY <3>1 DEF OpCreate, Kinds
      <3>3. CreateError(d, o) = "ok" /\ Apply(d, o) = Created(d, o)
        BY <3>2 DEF Error, Apply
      <3> QED BY <1>1, <3>1, <3>2, <3>3, CreatedWellFormed
    <2>2. CASE \E n \in Names, t \in Inos : o = OpLink(RootIno, n, t)
      <3>1. PICK n \in Names, t \in Inos : o = OpLink(RootIno, n, t)
        BY <2>2
      <3>2. o.op = "link"
        BY <3>1 DEF OpLink
      <3>3. LinkError(d, o) = "ok" /\ Apply(d, o) = Linked(d, o)
        BY <3>2 DEF Error, Apply
      <3> QED BY <1>1, <3>1, <3>3, LinkedWellFormed
    <2>3. CASE \E n \in Names : o = OpUnlink(RootIno, n)
      <3>1. PICK n \in Names : o = OpUnlink(RootIno, n)
        BY <2>3
      <3>2. o.op = "unlink" /\ o.parent = RootIno /\ o.name = n
        BY <3>1 DEF OpUnlink
      <3>3. UnlinkError(d, o) = "ok" /\ Apply(d, o) = Unlinked(d, RootIno, n)
        BY <3>2 DEF Error, Apply
      <3>4. /\ Lookup(d, RootIno, n) # 0
            /\ d.kind[Lookup(d, RootIno, n)] = "dir" => ~HasChildren(d, Lookup(d, RootIno, n))
        BY <3>2, <3>3 DEF UnlinkError
      <3>5. Found(d, RootIno, n)
        BY <3>4 DEF Lookup
      <3> QED BY <1>1, <3>3, <3>4, <3>5, UnlinkedWellFormed
    <2>4. CASE \E n \in Names, m \in Names : o = OpRename(RootIno, n, RootIno, m)
      <3>1. PICK n \in Names, m \in Names : o = OpRename(RootIno, n, RootIno, m)
        BY <2>4
      <3>2. o.op = "rename"
        BY <3>1 DEF OpRename
      <3>3. RenameError(d, o) = "ok" /\ Apply(d, o) = Renamed(d, o)
        BY <3>2 DEF Error, Apply
      <3>4. RenameError(d, OpRename(RootIno, n, RootIno, m)) = "ok"
        BY <3>1, <3>3
      <3>5. WellFormed(Renamed(d, OpRename(RootIno, n, RootIno, m)))
        BY <1>1, <3>4, RenamedWellFormed
      <3> QED BY <3>1, <3>3, <3>5
    <2> QED BY <2>1, <2>2, <2>3, <2>4, OpsAre
  <1> QED BY <1>2 DEF Trees, WellFormed

\* ReplayOp leaves a tree, whatever it meets.
LEMMA ReplayTree ==
  ASSUME NEW d \in Trees, NEW o \in Ops
  PROVE  Replay(d, o) \in Trees
  BY ApplyTree DEF Replay

\* A second ReplayOp finds the operation done.
LEMMA OpIdempotent ==
  ASSUME NEW d \in Trees, NEW o \in Ops, Error(d, o) = "ok"
  PROVE  Idempotent(d, o)
  <1>1. WellFormed(d) /\ RootIno \in Inos /\ "file" \in Kinds
    BY NamespaceAssumption DEF Trees, Kinds
  <1> QED BY <1>1, OpsAre, CreateIdempotent, LinkIdempotent, UnlinkIdempotent, RenameIdempotent

-----------------------------------------------------------------------------
(* Replay *)

\* The states of a replay exist, one after the other.
LEMMA ReplaysAre ==
  ASSUME NEW S, NEW s \in Seq(S), NEW d
  PROVE  Replays(d, s) = [k \in 0..Len(s) |->
                            IF k = 0 THEN d ELSE Replay(Replays(d, s)[k - 1], s[k].op)]
  <1> DEFINE Is(f, n) == f = [k \in 0..n |-> IF k = 0 THEN d ELSE Replay(f[k - 1], s[k].op)]
             T == {n \in 0..Len(s) : ~\E f : Is(f, n)}
  <1>1. Len(s) \in Nat
    OBVIOUS
  <1>2. \E f : Is(f, Len(s))
    <2> SUFFICES ASSUME Len(s) \in T PROVE FALSE
      BY <1>1
    <2>1. T \in SUBSET Nat /\ T # {}
      BY <1>1
    <2>2. PICK n \in T : \A m \in T : n <= m
      <3> HIDE DEF T
      <3> QED BY <2>1, Least
    <2>3. n \in 0..Len(s) /\ n \in Nat /\ ~\E f : Is(f, n)
      BY <2>1, <2>2
    <2>4. n # 0
      <3> SUFFICES ASSUME n = 0 PROVE FALSE
        OBVIOUS
      <3> DEFINE f == [k \in 0..0 |-> d]
      <3>1. Is(f, 0)
        OBVIOUS
      <3> QED BY <2>3, <3>1
    <2>5. n - 1 \in 0..Len(s) /\ ~(n <= n - 1)
      BY <1>1, <2>3, <2>4
    <2>6. PICK f : Is(f, n - 1)
      <3>1. n - 1 \notin T
        <4> HIDE DEF T
        <4> QED BY <2>2, <2>5
      <3> QED BY <2>5, <3>1
    <2> DEFINE g == [k \in 0..n |-> IF k = n THEN Replay(f[n - 1], s[n].op) ELSE f[k]]
    <2>7. \A k \in 0..n : g[k] = IF k = 0 THEN d ELSE Replay(g[k - 1], s[k].op)
      <3> TAKE k \in 0..n
      <3>1. CASE k = n
        <4>1. n - 1 \in 0..n /\ n - 1 # n
          BY <2>3, <2>4
        <4> QED BY <2>3, <2>4, <3>1, <4>1
      <3>2. CASE k # n
        <4>1. k \in 0..n - 1 /\ (k # 0 => k - 1 \in 0..n /\ k - 1 # n)
          BY <2>3, <3>2
        <4>2. f[k] = IF k = 0 THEN d ELSE Replay(f[k - 1], s[k].op)
          BY <2>6, <4>1
        <4>3. g[k] = f[k] /\ (k # 0 => g[k - 1] = f[k - 1])
          BY <3>2, <4>1
        <4> QED BY <4>2, <4>3
      <3> QED BY <3>1, <3>2
    <2>8. Is(g, n)
      <3>1. g = [k \in 0..n |-> g[k]]
        OBVIOUS
      <3> HIDE DEF g
      <3> QED BY <2>7, <3>1
    <2> QED BY <2>3, <2>8
  <1> DEFINE F == CHOOSE f : Is(f, Len(s))
  <1>3. Replays(d, s) = F
    BY DEF Replays
  <1>4. Is(F, Len(s))
    BY <1>2
  <1> HIDE DEF F
  <1> QED BY <1>3, <1>4

LEMMA ReplayStep ==
  ASSUME NEW S, NEW s \in Seq(S), NEW d
  PROVE  /\ Replays(d, s)[0] = d
         /\ \A k \in 1..Len(s) : Replays(d, s)[k] = Replay(Replays(d, s)[k - 1], s[k].op)
  <1>1. Len(s) \in Nat
    OBVIOUS
  <1> DEFINE r == Replays(d, s)
  <1>2. r = [k \in 0..Len(s) |-> IF k = 0 THEN d ELSE Replay(r[k - 1], s[k].op)]
    BY ReplaysAre
  <1> HIDE DEF r
  <1>3. r[0] = d
    BY <1>1, <1>2
  <1>4. \A k \in 1..Len(s) : k \in 0..Len(s) /\ k # 0
    BY <1>1
  <1>5. \A k \in 1..Len(s) : r[k] = Replay(r[k - 1], s[k].op)
    BY <1>2, <1>4
  <1> QED BY <1>3, <1>5 DEF r

\* A replayed database is a tree, whether the entries fit it or not.
LEMMA ReplayAllTree ==
  ASSUME NEW S, NEW s \in Seq(S), \A k \in 1..Len(s) : s[k].op \in Ops, NEW d \in Trees
  PROVE  ReplayAll(d, s) \in Trees
  <1> DEFINE T == {k \in 0..Len(s) : Replays(d, s)[k] \notin Trees}
  <1>1. Len(s) \in Nat
    OBVIOUS
  <1> SUFFICES ASSUME Len(s) \in T PROVE FALSE
    BY <1>1 DEF ReplayAll
  <1>2. T \in SUBSET Nat /\ T # {}
    BY <1>1
  <1>3. PICK n \in T : \A m \in T : n <= m
    <2> HIDE DEF T
    <2> QED BY <1>2, Least
  <1>4. n \in 0..Len(s) /\ Replays(d, s)[n] \notin Trees
    BY <1>3
  <1>5. n # 0
    BY <1>4, ReplayStep
  <1>6. n \in 1..Len(s) /\ n - 1 \in 0..Len(s) /\ ~(n <= n - 1)
    BY <1>1, <1>4, <1>5
  <1>7. Replays(d, s)[n - 1] \in Trees
    BY <1>3, <1>6
  <1>8. Replays(d, s)[n] = Replay(Replays(d, s)[n - 1], s[n].op)
    BY <1>6, ReplayStep
  <1> QED BY <1>4, <1>6, <1>7, <1>8, ReplayTree
-----------------------------------------------------------------------------
(* Lists of rows and messages *)

\* The image of a finite set is finite.
LEMMA FiniteImage ==
  ASSUME NEW S, IsFiniteSet(S), NEW f
  PROVE  IsFiniteSet({f[x] : x \in S})
  <1> DEFINE T == {f[x] : x \in S}
             g == [x \in S |-> f[x]]
  <1>1. g \in Surjection(S, T)
    BY DEF Surjection
  <1> HIDE DEF g, T
  <1>2. IsFiniteSet(T)
    BY <1>1, FS_Surjection
  <1> QED BY <1>2 DEF T

\* PendingJournal returns the rows without posted_at, by seq.
LEMMA UnpostedIs ==
  ASSUME journal \in SUBSET Rows, lastSeq \in Nat, Keyed(journal, lastSeq)
  PROVE  /\ Unposted \in RowLists
         /\ \A k \in 1..Len(Unposted) : Unposted[k] \in journal /\ ~Unposted[k].posted
         /\ \A e \in journal : ~e.posted => \E k \in 1..Len(Unposted) : Unposted[k] = e
  <1> DEFINE S == {e \in journal : ~e.posted}
             R == {p \in journal \X journal : p[1].seq < p[2].seq}
             L == InOrder(S, R)
  <1>1. S \in SUBSET journal /\ IsFiniteSet(S)
    <2>1. S \in SUBSET journal /\ IsFiniteSet(journal)
      BY DEF Keyed
    <2> HIDE DEF S
    <2> QED BY <2>1, FS_Subset
  <1>2. \A x, y \in journal : <<x, y>> \in R <=> x.seq < y.seq
    OBVIOUS
  <1>3. \A x \in journal : x.seq \in Nat
    BY DEF Rows
  <1> HIDE DEF R, L
  <1>4. Orders(S, R)
    <2>1. \A x \in S : <<x, x>> \notin R
      BY <1>1, <1>2, <1>3
    <2>2. \A x, y \in S : x # y => <<x, y>> \in R \/ <<y, x>> \in R
      <3> SUFFICES ASSUME NEW x \in S, NEW y \in S, x # y
                   PROVE  <<x, y>> \in R \/ <<y, x>> \in R
        OBVIOUS
      <3>1. x \in journal /\ y \in journal
        BY <1>1
      <3>2. x.seq # y.seq
        BY <3>1 DEF Keyed
      <3>3. x.seq \in Nat /\ y.seq \in Nat
        BY <1>3, <3>1
      <3>4. x.seq < y.seq \/ y.seq < x.seq
        BY <3>2, <3>3
      <3> QED BY <1>2, <3>1, <3>4
    <2>3. \A x, y, z \in S : <<x, y>> \in R /\ <<y, z>> \in R => <<x, z>> \in R
      <3> SUFFICES ASSUME NEW x \in S, NEW y \in S, NEW z \in S, <<x, y>> \in R, <<y, z>> \in R
                   PROVE  <<x, z>> \in R
        OBVIOUS
      <3>1. x \in journal /\ y \in journal /\ z \in journal
        BY <1>1
      <3>2. x.seq < y.seq /\ y.seq < z.seq
        BY <1>2, <3>1
      <3>3. x.seq < z.seq
        BY <1>3, <3>1, <3>2
      <3> QED BY <1>2, <3>1, <3>3
    <2> HIDE DEF S
    <2> QED BY <2>1, <2>2, <2>3 DEF Orders
  <1>5. Unposted = L
    BY DEF Unposted, L, R
  <1> HIDE DEF S
  <1>6. /\ L \in Seq(S)
        /\ \A x \in S : \E k \in 1..Len(L) : L[k] = x
        /\ \A j, k \in 1..Len(L) : j < k => <<L[j], L[k]>> \in R
    BY <1>1, <1>4, InOrderIs DEF L
  <1>7. \A k \in 1..Len(L) : L[k] \in S
    BY <1>6
  <1>8. L \in Seq(Rows)
    BY <1>1, <1>6
  <1>9. Ascending(L)
    BY <1>1, <1>2, <1>6, <1>7 DEF Ascending
  <1>10. \A k \in 1..Len(L) : L[k] \in journal /\ ~L[k].posted
    BY <1>7 DEF S
  <1>11. \A e \in journal : ~e.posted => e \in S
    BY DEF S
  <1> QED BY <1>5, <1>6, <1>8, <1>9, <1>10, <1>11 DEF RowLists

\* Where the scan ends.
LEMMA ScanFromIs ==
  ASSUME NEW since, batches \in Seq(Batches), batches # <<>>
  PROVE  /\ ScanFrom(since) \in 1..Len(batches)
         /\ (\E m \in 1..Len(batches) : Boundary(batches[m], since)) =>
              Boundary(batches[ScanFrom(since)], since)
  <1> DEFINE stops == {m \in 1..Len(batches) : Boundary(batches[m], since)}
             last == CHOOSE m \in stops : \A k \in stops : k <= m
  <1>1. Len(batches) \in Nat /\ Len(batches) >= 1
    OBVIOUS
  <1>2. ScanFrom(since) = IF stops = {} THEN 1 ELSE last
    BY DEF ScanFrom
  <1>3. stops \in SUBSET Nat /\ stops \in SUBSET (1..Len(batches)) /\ IsFiniteSet(stops)
    <2>1. stops \in SUBSET Nat /\ stops \in SUBSET (1..Len(batches))
      BY <1>1
    <2>2. IsFiniteSet(1..Len(batches))
      BY <1>1, FS_Interval
    <2> HIDE DEF stops
    <2> QED BY <2>1, <2>2, FS_Subset
  <1>4. CASE stops = {}
    BY <1>1, <1>2, <1>4
  <1>5. CASE stops # {}
    <2>1. \E m \in stops : \A k \in stops : k <= m
      <3> HIDE DEF stops
      <3> QED BY <1>3, <1>5, Greatest
    <2>2. last \in stops
      <3> HIDE DEF stops
      <3> QED BY <2>1
    <2> HIDE DEF last
    <2> QED BY <1>2, <1>5, <2>2
  <1> QED BY <1>4, <1>5

\* The entries of a batch have their seqs to themselves.
LEMMA OwnSeq ==
  ASSUME NEW b \in Batches
  PROVE  /\ DOMAIN b = 1..Len(b) /\ Len(b) \in Nat /\ Len(b) >= 1
         /\ \A k \in 1..Len(b) : b[k] \in Rows /\ b[k].seq \in Nat
         /\ \A j, k \in 1..Len(b) : b[j].seq = b[k].seq => j = k
  <1>1. b \in Seq(Rows) /\ b # <<>> /\ Ascending(b)
    BY DEF Batches, RowLists
  <1>2. DOMAIN b = 1..Len(b) /\ Len(b) \in Nat /\ Len(b) >= 1 /\ \A k \in 1..Len(b) : b[k] \in Rows
    BY <1>1
  <1>3. \A k \in 1..Len(b) : b[k].seq \in Nat
    BY <1>2 DEF Rows
  <1>4. \A j, k \in 1..Len(b) : b[j].seq = b[k].seq => j = k
    <2> SUFFICES ASSUME NEW j \in 1..Len(b), NEW k \in 1..Len(b), b[j].seq = b[k].seq, j # k
                 PROVE  FALSE
      OBVIOUS
    <2>1. j < k \/ k < j
      BY <1>2
    <2>2. b[j].seq < b[k].seq \/ b[k].seq < b[j].seq
      BY <1>1, <2>1 DEF Ascending
    <2> QED BY <1>3, <2>2
  <1> QED BY <1>2, <1>3, <1>4

\* What the scan returns, and in which order.
Message(m, k) == [msg |-> m, seq |-> batches[m][k].seq, op |-> batches[m][k].op]

LEMMA MessagesAre ==
  ASSUME NEW since, batches \in Seq(Batches), batches # <<>>
  PROVE  /\ IsFiniteSet(JournalMessages(since))
         /\ \A x : x \in JournalMessages(since) <=>
              \E m \in ScanFrom(since)..Len(batches) : \E k \in 1..Len(batches[m]) :
                 x = Message(m, k) /\ batches[m][k].seq > since
  <1> DEFINE from == ScanFrom(since)
             good(m) == {e \in Range(batches[m]) : e.seq > since}
             of(m) == {[msg |-> m, seq |-> e.seq, op |-> e.op] : e \in good(m)}
             F == [m \in from..Len(batches) |-> of(m)]
             J == JournalMessages(since)
  <1>1. Len(batches) \in Nat /\ from \in 1..Len(batches) /\ from..Len(batches) \subseteq 1..Len(batches)
    <2>1. Len(batches) \in Nat /\ from \in 1..Len(batches)
      BY ScanFromIs
    <2> HIDE DEF from
    <2> QED BY <2>1
  <1>2. J = UNION {F[m] : m \in from..Len(batches)}
    BY DEF JournalMessages
  <1> HIDE DEF J
  <1>3. \A m \in from..Len(batches) : batches[m] \in Batches
    <2> HIDE DEF from
    <2> QED BY <1>1
  <1>4. \A m \in from..Len(batches) : IsFiniteSet(F[m])
    <2> TAKE m \in from..Len(batches)
    <2> DEFINE b == batches[m]
               h == [e \in good(m) |-> [msg |-> m, seq |-> e.seq, op |-> e.op]]
    <2>1. DOMAIN b = 1..Len(b) /\ Len(b) \in Nat
      BY <1>3, OwnSeq
    <2>2. IsFiniteSet(1..Len(b))
      BY <2>1, FS_Interval
    <2>3. Range(b) = {b[k] : k \in 1..Len(b)}
      BY <2>1 DEF Range
    <2>4. IsFiniteSet(Range(b))
      BY <2>2, <2>3, FiniteImage
    <2>5. good(m) \in SUBSET Range(b)
      OBVIOUS
    <2>6. F[m] = {h[e] : e \in good(m)}
      OBVIOUS
    <2> HIDE DEF good, h, F
    <2>7. IsFiniteSet(good(m))
      BY <2>4, <2>5, FS_Subset
    <2> QED BY <2>6, <2>7, FiniteImage
  <1>5. IsFiniteSet(J)
    <2> DEFINE D == {F[m] : m \in from..Len(batches)}
    <2> HIDE DEF F
    <2>1. IsFiniteSet(from..Len(batches))
      <3> HIDE DEF from
      <3>1. from \in Int /\ Len(batches) \in Int
        BY <1>1
      <3> QED BY <3>1, FS_Interval
    <2>2. IsFiniteSet(D)
      <3> HIDE DEF from
      <3> QED BY <2>1, FiniteImage
    <2>3. \A T \in D : IsFiniteSet(T)
      BY <1>4
    <2>4. J = UNION D
      BY <1>2
    <2> HIDE DEF D
    <2> QED BY <2>2, <2>3, <2>4, FS_UNION
  <1>6. \A x : x \in J <=> \E m \in from..Len(batches) : x \in of(m)
    <2> HIDE DEF from, of
    <2> QED BY <1>2
  <1>7. \A m \in from..Len(batches) : \A x :
          x \in of(m) <=> \E k \in 1..Len(batches[m]) :
                             x = Message(m, k) /\ batches[m][k].seq > since
    <2> TAKE m \in from..Len(batches)
    <2>1. DOMAIN batches[m] = 1..Len(batches[m])
      BY <1>3, OwnSeq
    <2>2. \A e : e \in good(m) <=> \E k \in 1..Len(batches[m]) : e = batches[m][k] /\ e.seq > since
      BY <2>1 DEF Range
    <2> HIDE DEF good, from
    <2> QED BY <2>2 DEF Message
  <1>8. \A x : x \in J <=> \E m \in from..Len(batches) : \E k \in 1..Len(batches[m]) :
                              x = Message(m, k) /\ batches[m][k].seq > since
    <2> HIDE DEF of, from
    <2> QED BY <1>6, <1>7
  <1> QED BY <1>5, <1>8 DEF J
LEMMA ListIs ==
  ASSUME NEW since, batches \in Seq(Batches), batches # <<>>
  PROVE  LET L == ListJournalOps(since)
         IN /\ L \in Seq(JournalMessages(since))
            /\ \A k \in 1..Len(L) : L[k].seq \in Nat /\ L[k].op \in Ops /\ L[k] \in JournalMessages(since)
            /\ \A x \in JournalMessages(since) : \E k \in 1..Len(L) : L[k] = x
            /\ \A j, k \in 1..Len(L) : j < k => L[j].seq <= L[k].seq
  <1> DEFINE S == JournalMessages(since)
             sooner(x, y) == x.seq < y.seq \/ (x.seq = y.seq /\ x.msg < y.msg)
             R == {p \in S \X S : sooner(p[1], p[2])}
             L == InOrder(S, R)
             from == ScanFrom(since)
  <1>1. IsFiniteSet(S)
    BY MessagesAre
  <1>2. ListJournalOps(since) = L
    BY DEF ListJournalOps
  <1>3. \A x \in S : \E m \in from..Len(batches) : \E k \in 1..Len(batches[m]) :
          x = Message(m, k)
    BY MessagesAre
  <1>4. Len(batches) \in Nat /\ from \in 1..Len(batches)
    BY ScanFromIs
  <1> HIDE DEF S, L, from
  <1>5. \A m \in from..Len(batches) : m \in Nat /\ batches[m] \in Batches
    BY <1>4
  <1>6. \A x \in S : x.seq \in Nat /\ x.msg \in Nat /\ x.op \in Ops
    <2> TAKE x \in S
    <2>0. PICK m \in from..Len(batches) : \E k \in 1..Len(batches[m]) : x = Message(m, k)
      BY <1>3
    <2>1. PICK k \in 1..Len(batches[m]) : x = Message(m, k)
      BY <2>0
    <2>2. m \in Nat /\ batches[m][k] \in Rows
      BY <1>5, <2>1, OwnSeq
    <2>3. x.seq = batches[m][k].seq /\ x.op = batches[m][k].op /\ x.msg = m
      BY <2>1 DEF Message
    <2> QED BY <2>2, <2>3 DEF Rows
  <1>7. \A x, y \in S : x.seq = y.seq /\ x.msg = y.msg => x = y
    <2> SUFFICES ASSUME NEW x \in S, NEW y \in S, x.seq = y.seq, x.msg = y.msg
                 PROVE  x = y
      OBVIOUS
    <2>0. PICK m \in from..Len(batches) : \E k \in 1..Len(batches[m]) : x = Message(m, k)
      BY <1>3
    <2>1. PICK k \in 1..Len(batches[m]) : x = Message(m, k)
      BY <2>0
    <2>a. PICK n \in from..Len(batches) : \E j \in 1..Len(batches[n]) : y = Message(n, j)
      BY <1>3
    <2>2. PICK j \in 1..Len(batches[n]) : y = Message(n, j)
      BY <2>a
    <2>3. m = n /\ batches[m][k].seq = batches[n][j].seq
      BY <2>1, <2>2 DEF Message
    <2>4. batches[m] \in Batches
      BY <1>5
    <2>5. k = j
      BY <2>3, <2>4, OwnSeq
    <2> QED BY <2>1, <2>2, <2>3, <2>5
  <1>8. \A x, y \in S : <<x, y>> \in R <=> sooner(x, y)
    OBVIOUS
  <1> HIDE DEF R
  <1>9. Orders(S, R)
    <2>1. \A x \in S : <<x, x>> \notin R
      <3> TAKE x \in S
      <3> QED BY <1>6, <1>8
    <2>2. \A x, y \in S : x # y => <<x, y>> \in R \/ <<y, x>> \in R
      <3> SUFFICES ASSUME NEW x \in S, NEW y \in S, x # y
                   PROVE  sooner(x, y) \/ sooner(y, x)
        BY <1>8
      <3>1. x.seq # y.seq \/ x.msg # y.msg
        BY <1>7
      <3>2. x.seq \in Nat /\ y.seq \in Nat /\ x.msg \in Nat /\ y.msg \in Nat
        BY <1>6
      <3> QED BY <3>1, <3>2
    <2>3. \A x, y, z \in S : <<x, y>> \in R /\ <<y, z>> \in R => <<x, z>> \in R
      <3> SUFFICES ASSUME NEW x \in S, NEW y \in S, NEW z \in S, <<x, y>> \in R, <<y, z>> \in R
                   PROVE  sooner(x, z)
        BY <1>8
      <3>1. sooner(x, y) /\ sooner(y, z)
        BY <1>8
      <3>2. /\ x.seq \in Nat /\ y.seq \in Nat /\ z.seq \in Nat
            /\ x.msg \in Nat /\ y.msg \in Nat /\ z.msg \in Nat
        BY <1>6
      <3> QED BY <3>1, <3>2
    <2> QED BY <2>1, <2>2, <2>3 DEF Orders
  <1>10. /\ L \in Seq(S)
         /\ \A x \in S : \E k \in 1..Len(L) : L[k] = x
         /\ \A j, k \in 1..Len(L) : j < k => <<L[j], L[k]>> \in R
    BY <1>1, <1>9, InOrderIs DEF L
  <1>11. \A k \in 1..Len(L) : L[k] \in S
    BY <1>10
  <1>12. \A k \in 1..Len(L) : L[k].seq \in Nat /\ L[k].op \in Ops
    BY <1>6, <1>11
  <1>13. \A j, k \in 1..Len(L) : j < k => L[j].seq <= L[k].seq
    <2> SUFFICES ASSUME NEW j \in 1..Len(L), NEW k \in 1..Len(L), j < k
                 PROVE  L[j].seq <= L[k].seq
      OBVIOUS
    <2>1. sooner(L[j], L[k])
      BY <1>8, <1>10, <1>11
    <2>2. L[j].seq \in Nat /\ L[k].seq \in Nat
      BY <1>12
    <2> QED BY <2>1, <2>2
  <1> QED BY <1>2, <1>10, <1>11, <1>12, <1>13 DEF S

\* What sqlite_sequence is after a replay is an inode number.
LEMMA NextInoIs ==
  ASSUME NEW S, NEW s \in Seq(S), \A k \in 1..Len(s) : s[k].op \in Ops, NEW n \in Inos
  PROVE  NextInoAfter(n, s) \in Inos
  <1> DEFINE hits == {k \in 1..Len(s) : s[k].op.op = "create"}
             f == [k \in hits |-> s[k].op.ino]
             created == {f[k] : k \in hits}
             all == {n} \cup created
             top == CHOOSE m \in all : \A c \in all : c <= m
  <1>1. NextInoAfter(n, s) = top
    BY DEF NextInoAfter
  <1>2. \A k \in hits : f[k] \in Inos
    <2> TAKE k \in hits
    <2>1. s[k].op \in Ops /\ s[k].op.op = "create"
      OBVIOUS
    <2> DEFINE o == s[k].op
    <2> HIDE DEF o
    <2>2. o \in Ops /\ o.op = "create"
      BY <2>1 DEF o
    <2>3. o.ino \in Inos
      BY <2>2, OpsAre DEF OpCreate, OpLink, OpUnlink, OpRename
    <2> QED BY <2>3 DEF o
  <1>3. IsFiniteSet(hits)
    <2>1. IsFiniteSet(1..Len(s)) /\ hits \in SUBSET (1..Len(s))
      BY FS_Interval
    <2> HIDE DEF hits
    <2> QED BY <2>1, FS_Subset
  <1> HIDE DEF f, hits
  <1>4. IsFiniteSet(created)
    BY <1>3, FiniteImage
  <1>5. created \in SUBSET Inos
    BY <1>2
  <1> HIDE DEF created
  <1>6. IsFiniteSet(all) /\ all # {} /\ all \in SUBSET Inos
    <2>1. all = created \cup {n}
      OBVIOUS
    <2> HIDE DEF all
    <2>2. IsFiniteSet(all)
      BY <1>4, <2>1, FS_AddElement
    <2> QED BY <1>5, <2>1, <2>2
  <1>7. all \in SUBSET Nat
    BY <1>6, NamespaceAssumption
  <1> HIDE DEF all
  <1>8. \E m \in all : \A c \in all : c <= m
    BY <1>6, <1>7, Greatest
  <1>9. top \in all
    BY <1>8
  <1> QED BY <1>1, <1>6, <1>9
-----------------------------------------------------------------------------
(* Steps of the file system *)

\* The Store's tables are these tables.
LEMMA StoreOps ==
  ASSUME NEW d, NEW o
  PROVE  Store!Error(d, o) = Error(d, o) /\ Store!Apply(d, o) = Apply(d, o)
  <1>1. \A p, n : Store!At(d, p, n) = At(d, p, n)
    BY DEF Store!At, At
  <1>2. \A p, n : Store!Found(d, p, n) = Found(d, p, n) /\ Store!Lookup(d, p, n) = Lookup(d, p, n)
    <2> TAKE p, n
    <2>1. Store!At(d, p, n) = At(d, p, n)
      BY <1>1
    <2>2. Store!Found(d, p, n) = Found(d, p, n)
      BY <2>1 DEF Store!Found, Found
    <2>3. Store!Lookup(d, p, n) = Lookup(d, p, n)
      BY DEF Store!Lookup, Lookup, Store!Found, Found, Store!At, At
    <2> QED BY <2>2, <2>3
  <1>3. \A i : Store!Exists(d, i) = Exists(d, i) /\ Store!HasChildren(d, i) = HasChildren(d, i)
    BY DEF Store!Exists, Exists, Store!HasChildren, HasChildren
  <1>4. \A p : Store!ParentError(d, p) = ParentError(d, p)
    BY <1>3 DEF Store!ParentError, ParentError
  <1>5. \A i : Store!Ancestors(d, i) = Ancestors(d, i)
    BY DEF Store!Ancestors, Ancestors, Store!Upward, Upward
  <1>6. \A i, q : Store!Cycle(d, i, q) = Cycle(d, i, q)
    BY <1>5 DEF Store!Cycle, Cycle
  <1>7. Store!CreateError(d, o) = CreateError(d, o)
    BY <1>2, <1>3, <1>4 DEF Store!CreateError, CreateError
  <1>8. Store!LinkError(d, o) = LinkError(d, o)
    BY <1>2, <1>3, <1>4 DEF Store!LinkError, LinkError, Store!Linkable, Linkable
  <1>9. Store!UnlinkError(d, o) = UnlinkError(d, o)
    BY <1>2, <1>3 DEF Store!UnlinkError, UnlinkError
  <1>10. Store!RenameError(d, o) = RenameError(d, o)
    BY <1>2, <1>3, <1>4, <1>6 DEF Store!RenameError, RenameError
  <1>11. Store!Error(d, o) = Error(d, o)
    BY <1>3, <1>7, <1>8, <1>9, <1>10 DEF Store!Error, Error
  <1>12. Store!Created(d, o) = Created(d, o) /\ Store!Linked(d, o) = Linked(d, o)
    BY DEF Store!Created, Created, Store!Linked, Linked
  <1>13. \A p, n : Store!Unlinked(d, p, n) = Unlinked(d, p, n)
    BY DEF Store!Unlinked, Unlinked, Store!Lookup, Lookup, Store!Found, Found, Store!At, At
  <1>14. Store!Renamed(d, o) = Renamed(d, o)
    BY <1>1, <1>2, <1>13 DEF Store!Renamed, Renamed
  <1>15. Store!Apply(d, o) = Apply(d, o)
    BY <1>12, <1>13, <1>14 DEF Store!Apply, Apply
  <1> QED BY <1>11, <1>15

\* A journaled operation commits, and how.
Commits(o) == Error(db, o) = "ok" /\ db' = Apply(db, o) /\ Journaled(o)

LEMMA FileStepIs ==
  ASSUME nextIno \in Inos, FileStep
  PROVE  nextIno' \in Inos /\ \/ \E o \in Ops : Commits(o)
                              \/ \E i \in Inos : PutChunk(i)
  <1>1. ASSUME NEW n \in Names, CreateChild(n)
        PROVE  nextIno' \in Inos /\ \E o \in Ops : Commits(o)
    <2> DEFINE o == OpCreate(RootIno, n, nextIno + 1, "file")
    <2>1. /\ nextIno + 1 \in Inos /\ nextIno' = nextIno + 1
          /\ Store!Error(db, o) = "ok" /\ db' = Store!Apply(db, o)
      BY <1>1 DEF CreateChild, Store!CreateChild, Store!Commit, Store!OpCreate, OpCreate
    <2>2. o \in Ops
      BY <2>1 DEF Ops
    <2>3. Journaled(o)
      BY <1>1, <2>1 DEF CreateChild
    <2> HIDE DEF o
    <2> QED BY <2>1, <2>2, <2>3, StoreOps DEF Commits
  <1>2. ASSUME NEW n \in Names, Unlink(n)
        PROVE  nextIno' \in Inos /\ \E o \in Ops : Commits(o)
    <2> DEFINE o == OpUnlink(RootIno, n)
    <2>1. /\ nextIno' = nextIno
          /\ Store!Error(db, o) = "ok" /\ db' = Store!Apply(db, o)
      BY <1>2 DEF Unlink, Store!Unlink, Store!Commit, Store!OpUnlink, OpUnlink
    <2>2. o \in Ops
      BY DEF Ops
    <2>3. Journaled(o)
      BY <1>2 DEF Unlink
    <2> HIDE DEF o
    <2> QED BY <2>1, <2>2, <2>3, StoreOps DEF Commits
  <1>3. ASSUME NEW n \in Names, NEW t \in Inos, Link(n, t)
        PROVE  nextIno' \in Inos /\ \E o \in Ops : Commits(o)
    <2> DEFINE o == OpLink(RootIno, n, t)
    <2>1. /\ nextIno' = nextIno
          /\ Store!Error(db, o) = "ok" /\ db' = Store!Apply(db, o)
      BY <1>3 DEF Link, Store!Link, Store!Commit, Store!OpLink, OpLink
    <2>2. o \in Ops
      BY DEF Ops
    <2>3. Journaled(o)
      BY <1>3 DEF Link
    <2> HIDE DEF o
    <2> QED BY <2>1, <2>2, <2>3, StoreOps DEF Commits
  <1>4. ASSUME NEW n \in Names, NEW m \in Names, Rename(n, m)
        PROVE  nextIno' \in Inos /\ \E o \in Ops : Commits(o)
    <2> DEFINE o == OpRename(RootIno, n, RootIno, m)
    <2>1. /\ nextIno' = nextIno
          /\ Store!Error(db, o) = "ok" /\ db' = Store!Apply(db, o)
      BY <1>4 DEF Rename, Store!Rename, Store!Commit, Store!OpRename, OpRename
    <2>2. o \in Ops
      BY DEF Ops
    <2>3. Journaled(o)
      BY <1>4 DEF Rename
    <2> HIDE DEF o
    <2> QED BY <2>1, <2>2, <2>3, StoreOps DEF Commits
  <1>5. ASSUME NEW i \in Inos, PutChunk(i)
        PROVE  nextIno' \in Inos
    BY <1>5 DEF PutChunk, Store!PutChunk
  <1> QED BY <1>1, <1>2, <1>3, <1>4, <1>5 DEF FileStep

\* A chunk_map row: the tables stay a tree, the namespace stays.
LEMMA PutChunkIs ==
  ASSUME NEW i \in Inos, PutChunk(i), db \in Trees
  PROVE  db' \in Trees /\ View(db') = View(db)
  <1>1. /\ Exists(db, i) /\ db' = [db EXCEPT !.chunks = @ \cup {i}]
    BY DEF PutChunk, Store!PutChunk, Store!Exists, Exists
  <1>2. WellFormed(db) /\ db \in Databases
    BY DEF Trees
  <1>3. /\ db' \in Databases /\ db'.kind = db.kind /\ db'.nlink = db.nlink
        /\ db'.dirents = db.dirents /\ db'.chunks = db.chunks \cup {i}
    BY <1>1, <1>2 DEF Databases
  <1>4. \A j \in db'.chunks : Exists(db, j)
    BY <1>1, <1>2, <1>3 DEF WellFormed, Owned
  <1>5. WellFormed(db')
    BY <1>2, <1>3, <1>4, ContentsWellFormed
  <1>6. View(db') = View(db)
    BY <1>1, <1>2 DEF View, Databases
  <1> QED BY <1>3, <1>5, <1>6 DEF Trees

\* The namespace of a tree is a tree, and what the operations go by.
LEMMA ViewIs ==
  ASSUME NEW d \in Trees
  PROVE  /\ View(d) \in Trees
         /\ View(d).kind = d.kind /\ View(d).nlink = d.nlink /\ View(d).size = d.size
         /\ View(d).dirents = d.dirents /\ View(d).chunks = {}
  <1> DEFINE v == View(d)
  <1>1. WellFormed(d) /\ d \in Databases
    BY DEF Trees
  <1>2. /\ v \in Databases /\ v.kind = d.kind /\ v.nlink = d.nlink /\ v.size = d.size
        /\ v.dirents = d.dirents /\ v.chunks = {}
    BY <1>1 DEF View, Databases
  <1> HIDE DEF v
  <1>3. WellFormed(v)
    BY <1>1, <1>2, ContentsWellFormed
  <1> QED BY <1>2, <1>3 DEF Trees, v
\* What a drain posts next, and what it leaves.
LEMMA BatchIs ==
  ASSUME pending \in RowLists, pending # <<>>
  PROVE  LET n == Smaller(BatchSize, Len(pending))
         IN  /\ n \in 1..Len(pending) /\ n <= BatchSize
             /\ n = BatchSize \/ n = Len(pending)
             /\ Batch \in Batches /\ Len(Batch) = n /\ Rest \in RowLists
             /\ Len(Rest) = Len(pending) - n
             /\ \A k \in 1..n : Batch[k] = pending[k]
             /\ \A k \in 1..Len(pending) - n : Rest[k] = pending[n + k] /\ n + k \in 1..Len(pending)
  <1> DEFINE n == Smaller(BatchSize, Len(pending))
             L == Len(pending)
  <1>1. pending \in Seq(Rows) /\ Ascending(pending) /\ L \in Nat /\ L >= 1
    BY DEF RowLists
  <1>2. n \in 1..L /\ n <= BatchSize /\ n \in Nat /\ (n = BatchSize \/ n = L)
    BY <1>1, RecoveryAssumption DEF Smaller
  <1>3. Batch = SubSeq(pending, 1, n) /\ Rest = SubSeq(pending, n + 1, L)
    BY DEF Batch, Rest
  <1> HIDE DEF n
  <1>4. /\ Batch \in Seq(Rows) /\ Len(Batch) = n
        /\ \A k \in 1..n : Batch[k] = pending[k]
    <2>1. \A k \in 1..n : pending[k] \in Rows
      BY <1>1, <1>2
    <2>2. Batch = [k \in 1..n |-> pending[k]]
      BY <1>1, <1>2, <1>3 DEF SubSeq
    <2> QED BY <1>2, <2>1, <2>2
  <1>5. \A k \in 1..L - n : n + k \in 1..L
    BY <1>1, <1>2
  <1>6. /\ Rest \in Seq(Rows) /\ Len(Rest) = L - n
        /\ \A k \in 1..L - n : Rest[k] = pending[n + k]
    <2>1. \A k \in 1..L - n : pending[n + k] \in Rows
      BY <1>1, <1>5
    <2>2. L - n \in Nat
      BY <1>1, <1>2
    <2>3. Rest = [k \in 1..L - n |-> pending[n + k]]
      <3>1. Rest = [k \in 1..(L - (n + 1) + 1) |-> pending[k + (n + 1) - 1]]
        BY <1>1, <1>2, <1>3 DEF SubSeq
      <3>2. L - (n + 1) + 1 = L - n
        BY <1>1, <1>2
      <3>3. \A k \in 1..L - n : k + (n + 1) - 1 = n + k
        BY <1>1, <1>2
      <3> QED BY <3>1, <3>2, <3>3
    <2> QED BY <2>1, <2>2, <2>3
  <1>7. Ascending(Batch) /\ Batch # <<>>
    <2>1. \A k \in 1..n : k \in 1..L
      BY <1>1, <1>2
    <2> QED BY <1>1, <1>2, <1>4, <2>1 DEF Ascending
  <1>8. Ascending(Rest)
    <2> SUFFICES ASSUME NEW i \in 1..L - n, NEW j \in 1..L - n, i < j
                 PROVE  Rest[i].seq < Rest[j].seq
      BY <1>6 DEF Ascending
    <2>1. n + i \in 1..L /\ n + j \in 1..L /\ n + i < n + j
      BY <1>1, <1>2, <1>5
    <2> QED BY <1>1, <1>6, <2>1 DEF Ascending
  <1> QED BY <1>2, <1>4, <1>5, <1>6, <1>7, <1>8 DEF Batches, RowLists, n

\* The database a mount starts with.
LEMMA FirstIs ==
  /\ FirstOp \in Ops /\ Error(EmptyDB, FirstOp) = "ok"
  /\ EmptyDB \in Trees /\ FirstImage.db = Apply(EmptyDB, FirstOp) /\ FirstImage \in Images
  /\ FirstImage.nextIno \in Inos /\ NoSnap \in Snapshots /\ NoSnap.image.journal = {}
  /\ FirstImage.lastSeq = 1 /\ NoSnap.image.lastSeq = 0
  /\ FirstImage.journal = {[Entry(1, FirstOp) EXCEPT !.posted = TRUE]}
  /\ Entry(1, FirstOp) \in Rows /\ Entry(1, FirstOp).seq = 1
  /\ <<Entry(1, FirstOp)>> \in Batches
  <1> DEFINE n == CHOOSE n \in Names : TRUE
  <1>1. n \in Names /\ RootIno \in Inos /\ RootIno + 1 \in Inos /\ RootIno + 1 # RootIno
    BY RecoveryAssumption, NamespaceAssumption
  <1>2. FirstOp = OpCreate(RootIno, n, RootIno + 1, "file")
    BY DEF FirstOp
  <1> HIDE DEF n
  <1>3. FirstOp \in Ops
    BY <1>1, <1>2 DEF Ops
  <1>4. EmptyDB \in Trees
    BY EmptyWellFormed DEF Trees, WellFormed
  <1>5. Error(EmptyDB, FirstOp) = "ok"
    <2>1. /\ FirstOp.op = "create" /\ FirstOp.parent = RootIno /\ FirstOp.name = n
          /\ FirstOp.ino = RootIno + 1
      BY <1>2 DEF OpCreate
    <2>2. EmptyDB.kind[RootIno] = "dir" /\ EmptyDB.kind[RootIno + 1] = "none" /\ EmptyDB.dirents = {}
      BY <1>1 DEF EmptyDB
    <2>3. ParentError(EmptyDB, RootIno) = "ok" /\ ~Exists(EmptyDB, RootIno + 1)
      BY <1>1, <2>2 DEF ParentError, Exists
    <2>4. ~Found(EmptyDB, RootIno, n)
      BY <2>2 DEF Found, At
    <2>5. CreateError(EmptyDB, FirstOp) = "ok"
      BY <2>1, <2>3, <2>4 DEF CreateError
    <2> QED BY <2>1, <2>5 DEF Error
  <1>6. Apply(EmptyDB, FirstOp) \in Trees
    BY <1>3, <1>4, <1>5, ApplyTree
  <1> DEFINE e == Entry(1, FirstOp)
             p == [e EXCEPT !.posted = TRUE]
  <1>7. e \in Rows /\ e.seq = 1 /\ p \in Rows /\ p.seq = 1
    BY <1>3 DEF Entry, Rows
  <1> HIDE DEF e, p
  <1>8. Keyed({p}, 1) /\ Keyed({}, 0)
    <2>1. IsFiniteSet({p}) /\ IsFiniteSet({})
      BY FS_Singleton, FS_EmptySet
    <2>2. p.seq \in 1..1
      BY <1>7
    <2> QED BY <2>1, <2>2 DEF Keyed
  <1>9. /\ FirstImage = [db |-> Apply(EmptyDB, FirstOp), nextIno |-> RootIno + 1,
                         journal |-> {p}, lastSeq |-> 1, snapSeq |-> 0]
        /\ NoSnap = [seq |-> 0, image |-> [db |-> EmptyDB, nextIno |-> RootIno,
                       journal |-> {}, lastSeq |-> 0, snapSeq |-> 0]]
    BY DEF FirstImage, NoSnap, e, p
  <1>10. FirstImage \in Images /\ FirstImage.nextIno \in Inos /\ FirstImage.lastSeq = 1
         /\ FirstImage.journal = {p} /\ FirstImage.db = Apply(EmptyDB, FirstOp)
    BY <1>1, <1>6, <1>7, <1>8, <1>9 DEF Images
  <1>11. NoSnap \in Snapshots /\ NoSnap.image.journal = {} /\ NoSnap.image.lastSeq = 0
    BY <1>1, <1>4, <1>8, <1>9 DEF Images, Snapshots
  <1>12. <<e>> \in Batches
    BY <1>7 DEF Batches, RowLists, Ascending
  <1> QED BY <1>3, <1>4, <1>5, <1>7, <1>10, <1>11, <1>12 DEF e, p
-----------------------------------------------------------------------------
(* The types are inductive *)

LEMMA TypesInit == Init => RecoveryTypes
  <1> SUFFICES ASSUME Init PROVE RecoveryTypes
    OBVIOUS
  <1> DEFINE s == [seq |-> 1, image |-> FirstImage]
  <1>1. s \in Snapshots
    BY FirstIs DEF Snapshots
  <1>2. db \in Trees
    BY FirstIs DEF Init, Images
  <1>3. View(db) \in Databases
    BY <1>2, ViewIs DEF Trees
  <1>4. Keyed(journal, lastSeq)
    BY FS_EmptySet DEF Init, Keyed
  <1> HIDE DEF s
  <1>5. snaps = <<s>> /\ batches = <<<<Entry(1, FirstOp)>>>>
    BY DEF Init, s
  <1>6. snaps \in Seq(Snapshots) /\ snaps # <<>> /\ batches \in Seq(Batches) /\ batches # <<>>
    BY <1>1, <1>5, FirstIs
  <1>7. pending \in RowLists
    BY DEF Init, RowLists, Ascending
  <1>8. past \in Seq(Databases) /\ safe \in Nat /\ losses \in Nat
    BY <1>3 DEF Init
  <1>9. nextIno \in Inos /\ journal \in SUBSET Rows /\ lastSeq \in Nat /\ snapSeq \in Nat
    BY FirstIs DEF Init
  <1>10. /\ up \in BOOLEAN /\ fresh \in BOOLEAN /\ lost \in BOOLEAN /\ mgr = "idle"
         /\ post = "idle" /\ snap \in Snapshots
    BY FirstIs DEF Init
  <1> QED BY <1>2, <1>4, <1>6, <1>7, <1>8, <1>9, <1>10 DEF RecoveryTypes

LEMMA CommitTypes ==
  ASSUME RecoveryTypes, nextIno' \in Inos, NEW o \in Ops, Commits(o)
  PROVE  RecoveryTypes'
  <1>1. db' \in Trees
    BY ApplyTree DEF RecoveryTypes, Commits
  <1>2. View(db') \in Databases
    BY <1>1, ViewIs DEF Trees
  <1> DEFINE e == Entry(lastSeq + 1, o)
  <1>3. /\ journal' = journal \cup {e} /\ lastSeq' = lastSeq + 1
        /\ past' = Append(past, View(db'))
    BY DEF Commits, Journaled
  <1>4. e \in Rows /\ e.seq = lastSeq + 1
    BY DEF Entry, Rows, RecoveryTypes
  <1> HIDE DEF e
  <1>5. Keyed(journal', lastSeq')
    <2>1. IsFiniteSet(journal') /\ lastSeq \in Nat
      BY <1>3, FS_AddElement DEF Keyed, RecoveryTypes
    <2>2. \A f \in journal : f.seq \in 1..lastSeq
      BY DEF Keyed, RecoveryTypes
    <2>3. \A f \in journal' : f.seq \in 1..lastSeq'
      BY <1>3, <1>4, <2>1, <2>2
    <2>4. \A f \in journal : f.seq # lastSeq + 1
      BY <2>1, <2>2
    <2>5. \A f, g \in journal' : f.seq = g.seq => f = g
      BY <1>3, <1>4, <2>4 DEF Keyed, RecoveryTypes
    <2> QED BY <2>1, <2>3, <2>5 DEF Keyed
  <1>6. past' \in Seq(Databases)
    BY <1>2, <1>3 DEF RecoveryTypes
  <1>7. journal' \in SUBSET Rows /\ lastSeq' \in Nat
    BY <1>3, <1>4 DEF RecoveryTypes
  <1>8. /\ snapSeq' \in Nat /\ snaps' \in Seq(Snapshots) /\ snaps' # <<>>
        /\ batches' \in Seq(Batches) /\ batches' # <<>>
        /\ up' \in BOOLEAN /\ fresh' \in BOOLEAN /\ lost' \in BOOLEAN
        /\ mgr' = mgr /\ snap' = snap /\ post' = post /\ pending' = pending
        /\ safe' = safe /\ losses' = losses
    BY DEF RecoveryTypes, Commits, Journaled, channelVars, mgrVars, postVars
  <1> QED BY <1>1, <1>5, <1>6, <1>7, <1>8 DEF RecoveryTypes

LEMMA FileTypes ==
  ASSUME RecoveryTypes, FileStep
  PROVE  RecoveryTypes'
  <1>1. nextIno' \in Inos /\ \/ \E o \in Ops : Commits(o)
                             \/ \E i \in Inos : PutChunk(i)
    BY FileStepIs DEF RecoveryTypes
  <1>2. ASSUME NEW i \in Inos, PutChunk(i)
        PROVE  RecoveryTypes'
    <2>1. db' \in Trees
      BY <1>2, PutChunkIs DEF RecoveryTypes
    <2> QED BY <1>1, <1>2, <2>1
            DEF RecoveryTypes, PutChunk, channelVars, mgrVars, postVars, histVars
  <1> QED BY <1>1, <1>2, CommitTypes

LEMMA ImageTyped ==
  ASSUME RecoveryTypes
  PROVE  Image \in Images
  BY DEF RecoveryTypes, Images, Image

\* A list cut to its last elements.
LastOf(s, r) == IF Len(s) <= r THEN s ELSE SubSeq(s, Len(s) - r + 1, Len(s))

LEMMA Kept ==
  ASSUME NEW S, NEW s \in Seq(S), s # <<>>, NEW r \in Nat \ {0}, NEW t, t = LastOf(s, r)
  PROVE  /\ t \in Seq(S) /\ t # <<>> /\ t[Len(t)] = s[Len(s)]
         /\ \A k \in 1..Len(t) : \E j \in 1..Len(s) : t[k] = s[j]
  <1>1. Len(s) \in Nat /\ Len(s) >= 1
    OBVIOUS
  <1>2. CASE Len(s) <= r
    BY <1>1, <1>2 DEF LastOf
  <1>3. CASE ~(Len(s) <= r)
    <2> DEFINE a == Len(s) - r + 1
    <2>1. a \in 1..Len(s) /\ Len(s) - a + 1 = r /\ a \in Nat
      BY <1>1, <1>3
    <2>2. t = [k \in 1..r |-> s[k + a - 1]]
      BY <1>1, <1>3, <2>1 DEF SubSeq, LastOf
    <2>3. \A k \in 1..r : k + a - 1 \in 1..Len(s)
      BY <1>1, <1>3
    <2>4. r + a - 1 = Len(s) /\ r \in 1..r
      BY <1>1, <1>3
    <2> HIDE DEF a
    <2>5. t \in Seq(S) /\ Len(t) = r
      BY <2>2, <2>3
    <2>6. t[Len(t)] = s[Len(s)] /\ t # <<>>
      BY <2>2, <2>4, <2>5
    <2>7. \A k \in 1..Len(t) : \E j \in 1..Len(s) : t[k] = s[j]
      BY <2>2, <2>3, <2>5
    <2> QED BY <2>5, <2>6, <2>7
  <1> QED BY <1>2, <1>3

\* Retention keeps the newest snapshots.
LEMMA RetentionKeeps ==
  ASSUME RecoveryTypes, OnceEnd
  PROVE  /\ snaps' \in Seq(Snapshots) /\ snaps' # <<>>
         /\ snaps'[Len(snaps')] = snaps[Len(snaps)]
         /\ \A k \in 1..Len(snaps') : \E j \in 1..Len(snaps) : snaps'[k] = snaps[j]
  <1>1. snaps \in Seq(Snapshots) /\ snaps # <<>> /\ Retention \in Nat \ {0}
    BY RecoveryAssumption DEF RecoveryTypes
  <1>2. snaps' = LastOf(snaps, Retention)
    BY DEF OnceEnd, LastOf
  <1> QED BY <1>1, <1>2, Kept

LEMMA ManagerTypes ==
  ASSUME RecoveryTypes,
         OnceStep \/ OnceFails \/ DeleteJournalFails \/ RetentionFails
  PROVE  RecoveryTypes'
  <1> USE DEF channelVars, mgrVars, postVars, histVars, localVars
  <1>0. NoSnap \in Snapshots /\ NoSnap.image \in Images
    BY FirstIs DEF Snapshots
  <1>1. CASE OnceBegin
    <2>1. snap' \in Snapshots
      BY <1>0, <1>1 DEF OnceBegin, RecoveryTypes, Snapshots
    <2> QED BY <1>1, <2>1 DEF OnceBegin, RecoveryTypes
  <1>2. CASE Vacuum
    <2>1. snap' \in Snapshots
      BY <1>2, ImageTyped DEF Vacuum, RecoveryTypes, Snapshots
    <2> QED BY <1>2, <2>1 DEF Vacuum, RecoveryTypes
  <1>3. CASE UploadSnapshot
    <2>1. snaps' \in Seq(Snapshots) /\ snaps' # <<>>
      BY <1>3 DEF UploadSnapshot, RecoveryTypes
    <2>2. Nth(snap.seq) \in Int
      BY DEF RecoveryTypes, Nth, Snapshots
    <2>3. safe' \in Nat
      BY <1>3, <2>2 DEF UploadSnapshot, RecoveryTypes, Larger
    <2> QED BY <1>3, <2>1, <2>3 DEF UploadSnapshot, RecoveryTypes
  <1>4. CASE StoreCurrent
    <2>1. snapSeq' \in Nat
      BY <1>4 DEF StoreCurrent, RecoveryTypes, Snapshots
    <2> QED BY <1>4, <2>1 DEF StoreCurrent, RecoveryTypes
  <1>5. CASE DeleteJournalUpTo
    <2>1. journal' \in SUBSET journal
      BY <1>5 DEF DeleteJournalUpTo
    <2>2. Keyed(journal', lastSeq) /\ journal' \in SUBSET Rows
      BY <2>1, FS_Subset DEF Keyed, RecoveryTypes
    <2> QED BY <1>5, <2>2 DEF DeleteJournalUpTo, RecoveryTypes
  <1>6. CASE OnceEnd
    <2>1. snaps' \in Seq(Snapshots) /\ snaps' # <<>>
      BY <1>6, RetentionKeeps
    <2> QED BY <1>0, <1>6, <2>1 DEF OnceEnd, RecoveryTypes, Baseline
  <1>7. CASE OnceFails
    BY <1>0, <1>7 DEF OnceFails, RecoveryTypes
  <1>8. CASE DeleteJournalFails
    BY <1>8 DEF DeleteJournalFails, RecoveryTypes
  <1>9. CASE RetentionFails
    BY <1>0, <1>9 DEF RetentionFails, RecoveryTypes, Baseline
  <1> QED BY <1>1, <1>2, <1>3, <1>4, <1>5, <1>6, <1>7, <1>8, <1>9 DEF OnceStep

\* The rows of the batch are marked, the others stay.
LEMMA MarkIs ==
  ASSUME RecoveryTypes, BatchMarkJournalPosted
  PROVE  /\ journal' \in SUBSET Rows /\ Keyed(journal', lastSeq)
         /\ \A e \in journal : \E f \in journal' :
              f.seq = e.seq /\ f.op = e.op /\ f.posted = (e.posted \/ InBatch(e.seq))
         /\ \A f \in journal' : \E e \in journal :
              f.seq = e.seq /\ f.op = e.op /\ f.posted = (e.posted \/ InBatch(e.seq))
  <1> DEFINE h == [e \in journal |-> [e EXCEPT !.posted = @ \/ InBatch(e.seq)]]
  <1>1. journal' = {h[e] : e \in journal}
    BY DEF BatchMarkJournalPosted
  <1>2. \A e \in journal : e \in Rows
    BY DEF RecoveryTypes
  <1>3. \A s : InBatch(s) \in BOOLEAN
    BY DEF InBatch
  <1>4. \A e \in journal : /\ h[e] \in Rows /\ h[e].seq = e.seq /\ h[e].op = e.op
                           /\ h[e].posted = (e.posted \/ InBatch(e.seq))
    BY <1>2, <1>3 DEF Rows
  <1> HIDE DEF h
  <1>5. IsFiniteSet(journal')
    BY <1>1, FiniteImage DEF RecoveryTypes, Keyed
  <1>6. \A f \in journal' : f.seq \in 1..lastSeq
    BY <1>1, <1>4 DEF RecoveryTypes, Keyed
  <1>7. \A f, g \in journal' : f.seq = g.seq => f = g
    BY <1>1, <1>4 DEF RecoveryTypes, Keyed
  <1> QED BY <1>1, <1>4, <1>5, <1>6, <1>7 DEF Keyed

LEMMA PosterTypes ==
  ASSUME RecoveryTypes, PostStep \/ DrainFails
  PROVE  RecoveryTypes'
  <1> USE DEF channelVars, mgrVars, postVars, histVars, localVars
  <1>1. CASE DrainBegin
    <2>1. Unposted \in RowLists
      BY UnpostedIs DEF RecoveryTypes
    <2> QED BY <1>1, <2>1 DEF DrainBegin, RecoveryTypes
  <1>2. CASE UploadJournalOpBatch
    <2>1. Batch \in Batches
      BY <1>2, BatchIs DEF RecoveryTypes, UploadJournalOpBatch
    <2>2. batches' \in Seq(Batches) /\ batches' # <<>>
      BY <1>2, <2>1 DEF UploadJournalOpBatch, RecoveryTypes
    <2> QED BY <1>2, <2>2 DEF UploadJournalOpBatch, RecoveryTypes
  <1>3. CASE BatchMarkJournalPosted
    <2>0. pending # <<>> /\ pending \in RowLists
      BY <1>3 DEF BatchMarkJournalPosted, RecoveryTypes
    <2>1. journal' \in SUBSET Rows /\ Keyed(journal', lastSeq)
      BY <1>3, MarkIs
    <2>2. Batch \in Batches /\ Rest \in RowLists
      BY <2>0, BatchIs
    <2>3. Batch[Len(Batch)].seq \in Nat
      BY <2>2, OwnSeq
    <2>4. Nth(Batch[Len(Batch)].seq) \in Int
      BY <2>3 DEF RecoveryTypes, Nth
    <2>5. safe' \in Nat
      BY <1>3, <2>4 DEF BatchMarkJournalPosted, RecoveryTypes, Larger
    <2>6. post' \in {"idle", "upload", "mark"} /\ (post' # "idle" => pending' # <<>>)
      BY <1>3 DEF BatchMarkJournalPosted, AfterBatch
    <2> QED BY <1>3, <2>1, <2>2, <2>5, <2>6 DEF BatchMarkJournalPosted, RecoveryTypes
  <1>4. CASE DrainFails
    <2>1. <<>> \in RowLists
      BY DEF RowLists, Ascending
    <2> QED BY <1>4, <2>1 DEF DrainFails, RecoveryTypes
  <1> QED BY <1>1, <1>2, <1>3, <1>4 DEF PostStep

LEMMA CrashTypes ==
  ASSUME RecoveryTypes, (\E gone \in BOOLEAN : Crash(gone)) \/ Mount
  PROVE  RecoveryTypes'
  <1> USE DEF channelVars, mgrVars, postVars, histVars, localVars
  <1>1. ASSUME NEW gone \in BOOLEAN, Crash(gone)
        PROVE  RecoveryTypes'
    <2>1. NoSnap \in Snapshots /\ <<>> \in RowLists /\ NoSnap.image \in Images
      BY FirstIs DEF RowLists, Ascending, Snapshots
    <2>2. losses' \in Nat
      BY <1>1 DEF Crash, RecoveryTypes
    <2>3. CASE gone
      <3>1. /\ db' \in Trees /\ nextIno' \in Inos /\ journal' \in SUBSET Rows
            /\ lastSeq' \in Nat /\ snapSeq' \in Nat /\ Keyed(journal', lastSeq')
        BY <1>1, <2>1, <2>3 DEF Crash, Load, Images
      <3> QED BY <1>1, <2>1, <2>2, <3>1 DEF Crash, RecoveryTypes
    <2>4. CASE ~gone
      BY <1>1, <2>1, <2>2, <2>4 DEF Crash, RecoveryTypes
    <2> QED BY <2>3, <2>4
  <1>2. CASE Mount
    BY <1>2 DEF Mount, RecoveryTypes
  <1> QED BY <1>1, <1>2

LEMMA RecoverTypes ==
  ASSUME RecoveryTypes, Recover
  PROVE  RecoveryTypes'
  <1> PICK new \in Snapshots : new = snaps[Len(snaps)]
    BY DEF RecoveryTypes
  <1> PICK todo : todo = ListJournalOps(new.seq)
    OBVIOUS
  <1>1. todo \in Seq(JournalMessages(new.seq)) /\ \A k \in 1..Len(todo) : todo[k].op \in Ops
    BY ListIs DEF RecoveryTypes
  <1>2. new.image \in Images
    BY DEF Snapshots
  <1> PICK x : x = new.image
    OBVIOUS
  <1>3. /\ x \in Images /\ x.db \in Trees /\ x.nextIno \in Inos /\ x.journal \in SUBSET Rows
        /\ x.lastSeq \in Nat /\ x.snapSeq \in Nat /\ Keyed(x.journal, x.lastSeq)
    BY <1>2 DEF Images
  <1>4. ReplayAll(x.db, todo) \in Trees /\ NextInoAfter(x.nextIno, todo) \in Inos
    BY <1>1, <1>3, ReplayAllTree, NextInoIs
  <1> PICK y : y = [x EXCEPT !.db = ReplayAll(@, todo), !.nextIno = NextInoAfter(@, todo)]
    OBVIOUS
  <1>5. /\ y.db = ReplayAll(x.db, todo) /\ y.nextIno = NextInoAfter(x.nextIno, todo)
        /\ y.journal = x.journal /\ y.lastSeq = x.lastSeq /\ y.snapSeq = x.snapSeq
    BY <1>3 DEF Images
  <1>6. Load(y) /\ past' = <<View(db')>>
    BY DEF Recover
  <1>7. /\ db' \in Trees /\ nextIno' \in Inos /\ journal' \in SUBSET Rows
        /\ lastSeq' \in Nat /\ snapSeq' \in Nat /\ Keyed(journal', lastSeq')
    BY <1>3, <1>4, <1>5, <1>6 DEF Load
  <1>8. View(db') \in Databases
    BY <1>7, ViewIs DEF Trees
  <1>9. past' \in Seq(Databases)
    BY <1>6, <1>8
  <1> QED BY <1>7, <1>9 DEF Recover, RecoveryTypes, channelVars, mgrVars, postVars

\* Through operations, snapshots, posting, failures, crashes and any number of
\* recoveries, the local tables and every image of them on the channel are a
\* tree whose link counts are right, and the journals are keyed by seq.
THEOREM RecoveryKeepsTypes == Spec => []RecoveryTypes
  <1>1. RecoveryTypes /\ [Next]_vars => RecoveryTypes'
    <2> SUFFICES ASSUME RecoveryTypes, [Next]_vars PROVE RecoveryTypes'
      OBVIOUS
    <2>1. CASE UNCHANGED vars
      BY <2>1 DEF vars, RecoveryTypes, channelVars, mgrVars, postVars, histVars, localVars
    <2>2. CASE Next
      BY <2>2, FileTypes, ManagerTypes, PosterTypes, CrashTypes, RecoverTypes DEF Next
    <2> QED BY <2>1, <2>2
  <1> QED BY <1>1, TypesInit, PTL DEF Spec
-----------------------------------------------------------------------------
(* Synced *)

\* The snapshot that is under way, or that has landed and is the newest,
\* holds the namespace if nothing was journaled since its seq was read; a
\* baseline is recorded only after the seq of the newest one was stored.
CoversIfLast(s) == s.seq <= lastSeq
                   /\ (s.seq = lastSeq => View(s.image.db) = View(db))
SyncedInv ==
    /\ mgr = "vacuum" => snap.seq <= lastSeq
    /\ mgr = "upload" => CoversIfLast(snap)
    /\ mgr \in {"kv", "prune", "baseline"} =>
         snaps[Len(snaps)] = snap /\ CoversIfLast(snap)
    /\ mgr \in {"prune", "baseline"} => snapSeq = snap.seq
    /\ fresh /\ mgr \in {"vacuum", "upload", "kv"} => snapSeq < lastSeq
    /\ fresh /\ mgr \in {"prune", "baseline"} => FALSE
    /\ fresh /\ mgr = "idle" =>
         /\ snapSeq <= lastSeq
         /\ snapSeq = lastSeq => View(snaps[Len(snaps)].image.db) = View(db)
    /\ ~up => ~fresh /\ mgr = "idle"

LEMMA SyncedInit == Init => SyncedInv
  <1> SUFFICES ASSUME Init PROVE SyncedInv
    OBVIOUS
  <1>1. snaps[Len(snaps)].image.db = db
    BY DEF Init
  <1> QED BY <1>1 DEF Init, SyncedInv, CoversIfLast

LEMMA SyncedFile ==
  ASSUME RecoveryTypes, SyncedInv, FileStep
  PROVE  SyncedInv'
  <1>1. \/ \E o \in Ops : Commits(o)
        \/ \E i \in Inos : PutChunk(i)
    BY FileStepIs DEF RecoveryTypes
  <1>2. ASSUME NEW o \in Ops, Commits(o)
        PROVE  SyncedInv'
    <2>1. /\ lastSeq' = lastSeq + 1 /\ fresh' = FALSE /\ mgr' = mgr /\ snap' = snap
          /\ snaps' = snaps /\ snapSeq' = snapSeq /\ up /\ up' = up
      BY <1>2 DEF Commits, Journaled, mgrVars, channelVars
    <2>2. \A s : s.seq \in Nat /\ s.seq <= lastSeq => s.seq <= lastSeq' /\ s.seq # lastSeq'
      BY <2>1 DEF RecoveryTypes
    <2>3. snap.seq \in Nat
      BY DEF RecoveryTypes, Snapshots
    <2> QED BY <2>1, <2>2, <2>3 DEF SyncedInv, CoversIfLast
  <1>3. ASSUME NEW i \in Inos, PutChunk(i)
        PROVE  SyncedInv'
    <2>1. View(db') = View(db)
      BY <1>3, PutChunkIs DEF RecoveryTypes
    <2> QED BY <1>3, <2>1
            DEF PutChunk, SyncedInv, CoversIfLast, channelVars, mgrVars
  <1> QED BY <1>1, <1>2, <1>3

LEMMA SyncedManager ==
  ASSUME RecoveryTypes, SyncedInv,
         OnceStep \/ OnceFails \/ DeleteJournalFails \/ RetentionFails
  PROVE  SyncedInv'
  <1> USE DEF channelVars, mgrVars, postVars, histVars, localVars
  <1>0. lastSeq \in Nat /\ snapSeq \in Nat /\ fresh \in BOOLEAN
    BY DEF RecoveryTypes
  <1>1. CASE OnceBegin
    BY <1>0, <1>1 DEF OnceBegin, SyncedInv, Synced
  <1>2. CASE Vacuum
    <2>1. snap' = [seq |-> snap.seq, image |-> Image] /\ mgr' = "upload" /\ db' = db
          /\ snaps' = snaps /\ snapSeq' = snapSeq /\ lastSeq' = lastSeq /\ up /\ up' = up
          /\ fresh' = fresh /\ mgr = "vacuum"
      BY <1>2 DEF Vacuum
    <2>2. snap'.seq = snap.seq /\ snap'.image.db = db
      BY <2>1 DEF Image
    <2> QED BY <2>1, <2>2 DEF SyncedInv, CoversIfLast
  <1>3. CASE UploadSnapshot
    <2>1. snaps'[Len(snaps')] = snap
      BY <1>3 DEF UploadSnapshot, RecoveryTypes
    <2> QED BY <1>3, <2>1 DEF UploadSnapshot, SyncedInv, CoversIfLast
  <1>4. CASE StoreCurrent
    BY <1>4 DEF StoreCurrent, SyncedInv, CoversIfLast
  <1>5. CASE DeleteJournalUpTo
    BY <1>5 DEF DeleteJournalUpTo, SyncedInv, CoversIfLast
  <1>6. CASE OnceEnd
    <2>1. snaps'[Len(snaps')] = snaps[Len(snaps)]
      BY <1>6, RetentionKeeps
    <2> QED BY <1>6, <2>1 DEF OnceEnd, SyncedInv, CoversIfLast
  <1>7. CASE OnceFails
    BY <1>0, <1>7 DEF OnceFails, SyncedInv, CoversIfLast
  <1>8. CASE DeleteJournalFails
    BY <1>8 DEF DeleteJournalFails, SyncedInv, CoversIfLast
  <1>9. CASE RetentionFails
    BY <1>9 DEF RetentionFails, SyncedInv, CoversIfLast
  <1> QED BY <1>1, <1>2, <1>3, <1>4, <1>5, <1>6, <1>7, <1>8, <1>9 DEF OnceStep

LEMMA SyncedOther ==
  ASSUME RecoveryTypes, SyncedInv,
         \/ PostStep \/ DrainFails \/ (\E gone \in BOOLEAN : Crash(gone))
         \/ Mount \/ Recover \/ UNCHANGED vars
  PROVE  SyncedInv'
  <1> USE DEF channelVars, mgrVars, postVars, histVars, localVars, SyncedInv, CoversIfLast
  <1>1. CASE DrainBegin
    BY <1>1 DEF DrainBegin
  <1>2. CASE UploadJournalOpBatch
    BY <1>2 DEF UploadJournalOpBatch
  <1>3. CASE BatchMarkJournalPosted
    BY <1>3 DEF BatchMarkJournalPosted
  <1>4. CASE DrainFails
    BY <1>4 DEF DrainFails
  <1>5. ASSUME NEW gone \in BOOLEAN, Crash(gone)
        PROVE  SyncedInv'
    BY <1>5 DEF Crash
  <1>6. CASE Mount
    BY <1>6 DEF Mount
  <1>7. CASE Recover
    BY <1>7 DEF Recover
  <1>8. CASE UNCHANGED vars
    BY <1>8 DEF vars
  <1> QED BY <1>1, <1>2, <1>3, <1>4, <1>5, <1>6, <1>7, <1>8 DEF PostStep

\* When Synced says that nothing changed (and Once skips its cycle), the newest
\* snapshot holds the namespace of the local database, whatever operations
\* committed while it was taken and whichever of Once's steps failed.
THEOREM SkippedIsCovered == Spec => []SyncedCoversNames
  <1>1. RecoveryTypes /\ SyncedInv => SyncedCoversNames
    BY DEF RecoveryTypes, SyncedInv, SyncedCoversNames, Synced, CoversIfLast
  <1>2. RecoveryTypes /\ SyncedInv /\ [Next]_vars => SyncedInv'
    BY SyncedFile, SyncedManager, SyncedOther DEF Next
  <1> QED BY <1>1, <1>2, SyncedInit, RecoveryKeepsTypes, PTL DEF Spec

-----------------------------------------------------------------------------
(* What is posted, and what waits *)

\* The operations up to n are on the channel, or unposted rows of j.
Posted(s) == \E b \in 1..Len(batches) : \E k \in 1..Len(batches[b]) : batches[b][k].seq = s
Held(j, n) == \A s \in 1..n : Posted(s) \/ \E e \in j : e.seq = s /\ ~e.posted
HeldInv ==
    /\ Held(journal, lastSeq)
    /\ \A m \in 1..Len(snaps) : Held(snaps[m].image.journal, snaps[m].image.lastSeq)
    /\ Held(snap.image.journal, snap.image.lastSeq)
    /\ post = "mark" => batches[Len(batches)] = Batch

\* The channel only grows.
LEMMA StaysPosted ==
  ASSUME batches \in Seq(Batches), NEW b \in Batches, batches' = Append(batches, b)
  PROVE  /\ \A s : Posted(s) => Posted(s)'
         /\ \A k \in 1..Len(b) : Posted(b[k].seq)'
  <1>1. /\ Len(batches) \in Nat /\ Len(batches') = Len(batches) + 1
        /\ \A m \in 1..Len(batches) : batches'[m] = batches[m] /\ m \in 1..Len(batches')
        /\ batches'[Len(batches')] = b /\ Len(batches') \in 1..Len(batches')
    OBVIOUS
  <1> QED BY <1>1 DEF Posted

LEMMA HeldInit == Init => HeldInv
  <1> SUFFICES ASSUME Init PROVE HeldInv
    OBVIOUS
  <1> DEFINE b == <<Entry(1, FirstOp)>>
  <1>1. batches = <<b>> /\ Len(b) = 1 /\ b[1].seq = 1
    BY FirstIs DEF Init
  <1> HIDE DEF b
  <1>2. Posted(1)
    <2>1. 1 \in 1..Len(batches) /\ batches[1] = b /\ 1 \in 1..Len(b)
      BY <1>1
    <2> QED BY <1>1, <2>1 DEF Posted
  <1>3. lastSeq = 1 /\ snap.image.lastSeq = 0 /\ post = "idle" /\ snaps = <<[seq |-> 1, image |-> FirstImage]>>
    BY FirstIs DEF Init
  <1>4. \A m \in 1..Len(snaps) : snaps[m].image.lastSeq = 1
    BY <1>3, FirstIs
  <1>5. \A j : Held(j, 1) /\ Held(j, 0)
    BY <1>2 DEF Held
  <1> QED BY <1>3, <1>4, <1>5 DEF HeldInv
\* A step that leaves the journal, the channel and the poster alone, and copies
\* nothing.
LEMMA HeldSame ==
  ASSUME HeldInv, journal' = journal, lastSeq' = lastSeq, batches' = batches,
         snaps' = snaps, post' = post, pending' = pending,
         (snap' = snap) \/ Held(snap'.image.journal, snap'.image.lastSeq)
  PROVE  HeldInv'
  <1>1. \A j, n : Held(j, n) => Held(j, n)'
    BY DEF Held, Posted
  <1>2. Held(snap.image.journal, snap.image.lastSeq)'
    BY <1>1 DEF HeldInv, Held, Posted
  <1>3. (\A m \in 1..Len(snaps) : Held(snaps[m].image.journal, snaps[m].image.lastSeq))'
    BY DEF HeldInv, Held, Posted
  <1>4. Held(journal, lastSeq)'
    BY DEF HeldInv, Held, Posted
  <1>5. (post = "mark" => batches[Len(batches)] = Batch)'
    BY DEF HeldInv, Batch
  <1> QED BY <1>2, <1>3, <1>4, <1>5 DEF HeldInv

LEMMA HeldFile ==
  ASSUME RecoveryTypes, HeldInv, FileStep
  PROVE  HeldInv'
  <1>1. \/ \E o \in Ops : Commits(o)
        \/ \E i \in Inos : PutChunk(i)
    BY FileStepIs DEF RecoveryTypes
  <1>2. ASSUME NEW o \in Ops, Commits(o)
        PROVE  HeldInv'
    <2> DEFINE e == Entry(lastSeq + 1, o)
    <2>1. /\ lastSeq' = lastSeq + 1 /\ journal' = journal \cup {e} /\ snaps' = snaps /\ snap' = snap
          /\ batches' = batches /\ post' = post /\ pending' = pending
      BY <1>2 DEF Commits, Journaled, mgrVars, channelVars, postVars
    <2>2. e.seq = lastSeq + 1 /\ ~e.posted
      BY DEF Entry
    <2> HIDE DEF e
    <2>3. \A s \in 1..lastSeq' : s \in 1..lastSeq \/ s = lastSeq + 1
      BY <2>1 DEF RecoveryTypes
    <2>4. Held(journal, lastSeq)'
      BY <2>1, <2>2, <2>3 DEF HeldInv, Held, Posted
    <2>6. (post = "mark" => batches[Len(batches)] = Batch)'
      BY <2>1 DEF HeldInv, Batch
    <2>7. Held(snap.image.journal, snap.image.lastSeq)'
      BY <2>1 DEF HeldInv, Held, Posted
    <2>8. (\A m \in 1..Len(snaps) : Held(snaps[m].image.journal, snaps[m].image.lastSeq))'
      BY <2>1 DEF HeldInv, Held, Posted
    <2> QED BY <2>4, <2>6, <2>7, <2>8 DEF HeldInv
  <1>3. ASSUME NEW i \in Inos, PutChunk(i)
        PROVE  HeldInv'
    BY <1>3, HeldSame DEF PutChunk, channelVars, mgrVars, postVars
  <1> QED BY <1>1, <1>2, <1>3

LEMMA HeldManager ==
  ASSUME RecoveryTypes, HeldInv,
         OnceStep \/ OnceFails \/ DeleteJournalFails \/ RetentionFails
  PROVE  HeldInv'
  <1> USE DEF channelVars, mgrVars, postVars, histVars, localVars
  <1>0. 1..NoSnap.image.lastSeq = {}
    BY FirstIs
  <1>a. snap' = NoSnap => Held(snap'.image.journal, snap'.image.lastSeq)
    BY <1>0 DEF Held
  <1>1. CASE OnceBegin
    <2>1. snap'.image = NoSnap.image
      BY <1>1 DEF OnceBegin
    <2> QED BY <1>0, <1>1, <2>1 DEF OnceBegin, HeldInv, Held, Posted, Batch
  <1>2. CASE Vacuum
    <2>1. snap'.image.journal = journal /\ snap'.image.lastSeq = lastSeq
      BY <1>2 DEF Vacuum, Image
    <2> QED BY <1>2, <2>1 DEF Vacuum, HeldInv, Held, Posted, Batch
  <1>3. CASE UploadSnapshot
    <2>1. \A m \in 1..Len(snaps') : (m \in 1..Len(snaps) /\ snaps'[m] = snaps[m]) \/ snaps'[m] = snap
      BY <1>3 DEF UploadSnapshot, RecoveryTypes
    <2>2. /\ journal' = journal /\ lastSeq' = lastSeq /\ batches' = batches /\ snap' = snap
          /\ post' = post /\ pending' = pending
      BY <1>3 DEF UploadSnapshot
    <2>3. \A j, n : Held(j, n) <=> \A s \in 1..n : Posted(s)' \/ \E e \in j : e.seq = s /\ ~e.posted
      BY <2>2 DEF Held, Posted
    <2>4. \A m \in 1..Len(snaps') : Held(snaps'[m].image.journal, snaps'[m].image.lastSeq)
      BY <2>1 DEF HeldInv
    <2>5. (\A m \in 1..Len(snaps) : Held(snaps[m].image.journal, snaps[m].image.lastSeq))'
      BY <2>3, <2>4 DEF Held
    <2> QED BY <2>2, <2>5 DEF HeldInv, Held, Posted, Batch
  <1>4. CASE StoreCurrent
    BY <1>4, HeldSame DEF StoreCurrent
  <1>5. CASE DeleteJournalUpTo
    <2>1. \A e \in journal : ~e.posted => e \in journal'
      BY <1>5 DEF DeleteJournalUpTo, Superseded
    <2>2. Held(journal, lastSeq)'
      BY <1>5, <2>1 DEF DeleteJournalUpTo, HeldInv, Held, Posted
    <2> QED BY <1>5, <2>2 DEF DeleteJournalUpTo, HeldInv, Held, Posted, Batch
  <1>6. CASE OnceEnd
    <2>1. \A k \in 1..Len(snaps') : \E j \in 1..Len(snaps) : snaps'[k] = snaps[j]
      BY <1>6, RetentionKeeps
    <2>2. (\A m \in 1..Len(snaps) : Held(snaps[m].image.journal, snaps[m].image.lastSeq))'
      <3>1. \A m \in 1..Len(snaps') : Held(snaps'[m].image.journal, snaps'[m].image.lastSeq)
        BY <2>1 DEF HeldInv
      <3>2. batches' = batches
        BY <1>6 DEF OnceEnd
      <3>3. \A s : Posted(s) <=> Posted(s)'
        BY <3>2 DEF Posted
      <3> QED BY <3>1, <3>3 DEF Held
    <2>3. /\ journal' = journal /\ lastSeq' = lastSeq /\ batches' = batches
          /\ snap' = NoSnap /\ post' = post /\ pending' = pending
      BY <1>6 DEF OnceEnd
    <2>4. Held(journal, lastSeq)'
      BY <2>3 DEF HeldInv, Held, Posted
    <2>5. Held(snap.image.journal, snap.image.lastSeq)'
      BY <1>0, <2>3 DEF Held
    <2>6. (post = "mark" => batches[Len(batches)] = Batch)'
      BY <2>3 DEF HeldInv, Batch
    <2> QED BY <2>2, <2>4, <2>5, <2>6 DEF HeldInv
  <1>7. CASE OnceFails
    <2>1. snap' = NoSnap
      BY <1>7 DEF OnceFails
    <2> QED BY <1>a, <1>7, <2>1, HeldSame DEF OnceFails
  <1>8. CASE DeleteJournalFails
    BY <1>8, HeldSame DEF DeleteJournalFails
  <1>9. CASE RetentionFails
    <2>1. snap' = NoSnap
      BY <1>9 DEF RetentionFails
    <2> QED BY <1>a, <1>9, <2>1, HeldSame DEF RetentionFails
  <1> QED BY <1>1, <1>2, <1>3, <1>4, <1>5, <1>6, <1>7, <1>8, <1>9 DEF OnceStep

LEMMA HeldPoster ==
  ASSUME RecoveryTypes, HeldInv, PostStep \/ DrainFails
  PROVE  HeldInv'
  <1> USE DEF channelVars, mgrVars, postVars, histVars, localVars
  <1>1. CASE DrainBegin
    BY <1>1 DEF DrainBegin, HeldInv, Held, Posted
  <1>2. CASE UploadJournalOpBatch
    <2>0. pending # <<>> /\ pending \in RowLists /\ batches \in Seq(Batches)
      BY <1>2 DEF UploadJournalOpBatch, RecoveryTypes
    <2>1. Batch \in Batches /\ batches' = Append(batches, Batch) /\ pending' = pending
      BY <1>2, <2>0, BatchIs DEF UploadJournalOpBatch
    <2> PICK b : b = Batch
      OBVIOUS
    <2>2. \A s : Posted(s) => Posted(s)'
      BY <2>0, <2>1, StaysPosted
    <2>3. batches'[Len(batches')] = b /\ b = Batch'
      <3>1. batches' = Append(batches, b) /\ b \in Batches
        BY <2>1
      <3>2. batches'[Len(batches')] = b
        BY <2>0, <3>1
      <3> QED BY <2>1, <3>2 DEF Batch
    <2>4. /\ journal' = journal /\ lastSeq' = lastSeq /\ snaps' = snaps /\ snap' = snap
      BY <1>2 DEF UploadJournalOpBatch
    <2> QED BY <2>2, <2>3, <2>4 DEF HeldInv, Held
  <1>3. CASE BatchMarkJournalPosted
    <2>0. pending # <<>> /\ pending \in RowLists /\ batches' = batches /\ lastSeq' = lastSeq
          /\ snaps' = snaps /\ snap' = snap /\ post = "mark" /\ post' # "mark"
      BY <1>3 DEF BatchMarkJournalPosted, RecoveryTypes, AfterBatch
    <2>1. \A e \in journal : \E f \in journal' :
            f.seq = e.seq /\ f.posted = (e.posted \/ InBatch(e.seq))
      BY <1>3, MarkIs
    <2>2. \A s : InBatch(s) => Posted(s)
      <3>1. batches[Len(batches)] = Batch /\ Len(batches) \in 1..Len(batches)
        BY <2>0 DEF HeldInv, RecoveryTypes
      <3> QED BY <3>1 DEF InBatch, Posted
    <2>3. Held(journal, lastSeq)'
      <3> SUFFICES ASSUME NEW s \in 1..lastSeq, ~Posted(s)
                   PROVE  \E f \in journal' : f.seq = s /\ ~f.posted
        BY <2>0 DEF Held, Posted
      <3>1. PICK e \in journal : e.seq = s /\ ~e.posted
        BY DEF HeldInv, Held
      <3>2. ~InBatch(e.seq)
        BY <2>2, <3>1
      <3>3. PICK f \in journal' : f.seq = e.seq /\ f.posted = (e.posted \/ InBatch(e.seq))
        BY <2>1
      <3> QED BY <3>1, <3>2, <3>3
    <2> QED BY <2>0, <2>3 DEF HeldInv, Held, Posted
  <1>4. CASE DrainFails
    BY <1>4 DEF DrainFails, HeldInv, Held, Posted
  <1> QED BY <1>1, <1>2, <1>3, <1>4 DEF PostStep

LEMMA HeldOther ==
  ASSUME RecoveryTypes, HeldInv,
         (\E gone \in BOOLEAN : Crash(gone)) \/ Mount \/ Recover \/ UNCHANGED vars
  PROVE  HeldInv'
  <1> USE DEF channelVars, mgrVars, postVars, histVars, localVars
  <1>1. ASSUME NEW gone \in BOOLEAN, Crash(gone)
        PROVE  HeldInv'
    <2>0. 1..NoSnap.image.lastSeq = {}
      BY FirstIs
    <2>1. /\ snaps' = snaps /\ batches' = batches /\ snap' = NoSnap /\ post' = "idle"
      BY <1>1 DEF Crash
    <2>2. Held(journal, lastSeq)'
      <3>1. CASE gone
        BY <1>1, <2>0, <3>1 DEF Crash, Load, Held
      <3>2. CASE ~gone
        BY <1>1, <2>1, <3>2 DEF Crash, HeldInv, Held, Posted
      <3> QED BY <3>1, <3>2
    <2> QED BY <2>0, <2>1, <2>2 DEF HeldInv, Held, Posted
  <1>2. CASE Mount
    BY <1>2 DEF Mount, HeldInv, Held, Posted, Batch
  <1>3. CASE Recover
    <2>0. snaps[Len(snaps)] \in Snapshots /\ Len(snaps) \in 1..Len(snaps)
      BY DEF RecoveryTypes
    <2> PICK x \in Images : x = snaps[Len(snaps)].image /\ Held(x.journal, x.lastSeq)
      BY <2>0 DEF Snapshots, HeldInv
    <2>1. journal' = x.journal /\ lastSeq' = x.lastSeq
      BY <1>3 DEF Recover, Load, Images
    <2>2. Held(journal, lastSeq)'
      BY <1>3, <2>1 DEF Recover, Held, Posted
    <2> QED BY <1>3, <2>2 DEF Recover, HeldInv, Held, Posted, Batch
  <1>4. CASE UNCHANGED vars
    BY <1>4 DEF vars, HeldInv, Held, Posted, Batch
  <1> QED BY <1>1, <1>2, <1>3, <1>4

\* Whatever the poster and the manager have done, however often they failed
\* between an upload and its bookkeeping, and however often the database was
\* lost and recovered: every operation after any snapshot on the channel is on
\* the channel too, or a row the poster has still to post.
THEOREM PruningStrandsNothing == Spec => []RetainedReplayable
  <1>1. RecoveryTypes /\ HeldInv => RetainedReplayable
    <2> SUFFICES ASSUME RecoveryTypes, HeldInv, NEW m \in 1..Len(snaps),
                        NEW s \in snaps[m].seq + 1 .. lastSeq
                 PROVE  \/ \E e \in journal : e.seq = s /\ ~e.posted
                        \/ Posted(s)
      BY DEF RetainedReplayable, Posted
    <2>0. snaps[m] \in Snapshots
      BY DEF RecoveryTypes
    <2>1. snaps[m].seq \in Nat /\ lastSeq \in Nat
      BY <2>0 DEF RecoveryTypes, Snapshots
    <2>2. s \in 1..lastSeq
      BY <2>1
    <2> QED BY <2>2 DEF HeldInv, Held
  <1>2. RecoveryTypes /\ HeldInv /\ [Next]_vars => HeldInv'
    BY HeldFile, HeldManager, HeldPoster, HeldOther DEF Next
  <1> QED BY <1>1, <1>2, HeldInit, RecoveryKeepsTypes, PTL DEF Spec
-----------------------------------------------------------------------------
(* The namespace is all a replay goes by *)

LEMMA ViewErrors ==
  ASSUME NEW d, NEW v, v.kind = d.kind, v.dirents = d.dirents, NEW o
  PROVE  /\ Error(v, o) = Error(d, o) /\ Replayable(v, o) = Replayable(d, o)
         /\ \A p, n : /\ At(v, p, n) = At(d, p, n) /\ Found(v, p, n) = Found(d, p, n)
                      /\ Lookup(v, p, n) = Lookup(d, p, n)
  <1>1. \A p, n : At(v, p, n) = At(d, p, n)
    BY DEF At
  <1>2. \A p, n : Found(v, p, n) = Found(d, p, n)
    BY <1>1 DEF Found
  <1>3. \A p, n : Lookup(v, p, n) = Lookup(d, p, n)
    BY DEF Lookup, Found, At
  <1>4. \A i : Exists(v, i) = Exists(d, i) /\ HasChildren(v, i) = HasChildren(d, i)
    BY DEF Exists, HasChildren
  <1>5. \A p : ParentError(v, p) = ParentError(d, p)
    BY <1>4 DEF ParentError
  <1>6. \A i : Ancestors(v, i) = Ancestors(d, i)
    BY DEF Ancestors, Upward
  <1>7. \A i, q : Cycle(v, i, q) = Cycle(d, i, q)
    BY <1>6 DEF Cycle
  <1>8. CreateError(v, o) = CreateError(d, o)
    BY <1>2, <1>4, <1>5 DEF CreateError
  <1>9. LinkError(v, o) = LinkError(d, o)
    BY <1>2, <1>4, <1>5 DEF LinkError, Linkable
  <1>10. UnlinkError(v, o) = UnlinkError(d, o)
    BY <1>3, <1>4 DEF UnlinkError
  <1>11. RenameError(v, o) = RenameError(d, o)
    BY <1>3, <1>4, <1>5, <1>7 DEF RenameError
  <1>12. Error(v, o) = Error(d, o)
    BY <1>4, <1>8, <1>9, <1>10, <1>11 DEF Error
  <1>13. Tolerated(v, o) = Tolerated(d, o)
    BY <1>2, <1>12 DEF Tolerated
  <1>14. Replayable(v, o) = Replayable(d, o)
    BY <1>12, <1>13 DEF Replayable
  <1> QED BY <1>1, <1>2, <1>3, <1>12, <1>14

LEMMA ViewOfTables ==
  ASSUME NEW k, NEW n, NEW z, NEW e, NEW c
  PROVE  View([kind |-> k, nlink |-> n, size |-> z, dirents |-> e, chunks |-> c])
           = [kind |-> k, nlink |-> n, size |-> z, dirents |-> e, chunks |-> {}]
  BY DEF View

\* An operation on the namespace is the namespace of the operation.
LEMMA ViewReplays ==
  ASSUME NEW d \in Trees, NEW o \in Ops
  PROVE  /\ Error(View(d), o) = Error(d, o) /\ Replayable(View(d), o) = Replayable(d, o)
         /\ Error(d, o) = "ok" => View(Apply(d, o)) = Apply(View(d), o)
         /\ View(Replay(d, o)) = Replay(View(d), o)
  <1> DEFINE v == View(d)
  <1>0. d \in Databases /\ v \in Databases /\ v = [d EXCEPT !.chunks = {}]
    BY ViewIs DEF Trees, View
  <1>1. /\ v.kind = d.kind /\ v.nlink = d.nlink /\ v.size = d.size /\ v.dirents = d.dirents
        /\ v.chunks = {}
    BY ViewIs
  <1> HIDE DEF v
  <1>2. /\ Error(v, o) = Error(d, o) /\ Replayable(v, o) = Replayable(d, o)
        /\ \A p, n : /\ At(v, p, n) = At(d, p, n) /\ Found(v, p, n) = Found(d, p, n)
                     /\ Lookup(v, p, n) = Lookup(d, p, n)
    BY <1>1, ViewErrors
  <1>3. \A p, n : /\ Unlinked(d, p, n) = [kind |-> Unlinked(d, p, n).kind,
                        nlink |-> Unlinked(d, p, n).nlink, size |-> Unlinked(d, p, n).size,
                        dirents |-> Unlinked(d, p, n).dirents, chunks |-> Unlinked(d, p, n).chunks]
                  /\ View(Unlinked(d, p, n)) = Unlinked(v, p, n)
    <2> TAKE p, n
    <2> PICK c : c = Lookup(d, p, n)
      OBVIOUS
    <2> PICK last : last = (d.nlink[c] = 1)
      OBVIOUS
    <2>1. Unlinked(d, p, n) = [d EXCEPT !.dirents = @ \ At(d, p, n),
                  !.nlink[c] = @ - 1,
                  !.kind[c] = IF last THEN "none" ELSE @,
                  !.size[c] = IF last THEN 0 ELSE @,
                  !.chunks = IF last THEN @ \ {c} ELSE @]
      BY DEF Unlinked
    <2>2. Unlinked(v, p, n) = [v EXCEPT !.dirents = @ \ At(d, p, n),
                  !.nlink[c] = @ - 1,
                  !.kind[c] = IF last THEN "none" ELSE @,
                  !.size[c] = IF last THEN 0 ELSE @,
                  !.chunks = IF last THEN @ \ {c} ELSE @]
      BY <1>1, <1>2 DEF Unlinked
    <2>3. Unlinked(d, p, n) = [kind |-> [d.kind EXCEPT ![c] = IF last THEN "none" ELSE @],
                               nlink |-> [d.nlink EXCEPT ![c] = @ - 1],
                               size |-> [d.size EXCEPT ![c] = IF last THEN 0 ELSE @],
                               dirents |-> d.dirents \ At(d, p, n),
                               chunks |-> IF last THEN d.chunks \ {c} ELSE d.chunks]
      BY <1>0, <2>1 DEF Databases
    <2>4. Unlinked(v, p, n) = [kind |-> [d.kind EXCEPT ![c] = IF last THEN "none" ELSE @],
                               nlink |-> [d.nlink EXCEPT ![c] = @ - 1],
                               size |-> [d.size EXCEPT ![c] = IF last THEN 0 ELSE @],
                               dirents |-> d.dirents \ At(d, p, n),
                               chunks |-> {}]
      BY <1>0, <1>1, <2>2, ZenonT(60) DEF Databases
    <2> PICK K, N, Z, E, X : /\ K = [d.kind EXCEPT ![c] = IF last THEN "none" ELSE @]
                             /\ N = [d.nlink EXCEPT ![c] = @ - 1]
                             /\ Z = [d.size EXCEPT ![c] = IF last THEN 0 ELSE @]
                             /\ E = d.dirents \ At(d, p, n)
                             /\ X = IF last THEN d.chunks \ {c} ELSE d.chunks
      OBVIOUS
    <2>5. Unlinked(d, p, n) = [kind |-> K, nlink |-> N, size |-> Z, dirents |-> E, chunks |-> X]
      BY <2>3
    <2>6. Unlinked(v, p, n) = [kind |-> K, nlink |-> N, size |-> Z, dirents |-> E, chunks |-> {}]
      BY <2>4
    <2>7. View(Unlinked(d, p, n)) = Unlinked(v, p, n)
      BY <2>5, <2>6, ViewOfTables
    <2> PICK w : w = Unlinked(d, p, n)
      OBVIOUS
    <2>8. w = [kind |-> w.kind, nlink |-> w.nlink, size |-> w.size, dirents |-> w.dirents,
               chunks |-> w.chunks]
      BY <2>5
    <2> QED BY <2>7, <2>8
  <1>4. Error(d, o) = "ok" => View(Apply(d, o)) = Apply(v, o)
    <2>1. ASSUME NEW n \in Names, NEW i \in Inos, o = OpCreate(RootIno, n, i, "file")
          PROVE  View(Apply(d, o)) = Apply(v, o)
      <3>1. Apply(d, o) = Created(d, o) /\ Apply(v, o) = Created(v, o)
        BY <2>1 DEF Apply, OpCreate
      <3> PICK x : x = [parent |-> RootIno, name |-> n, child |-> i]
        OBVIOUS
      <3>2. /\ Created(d, o) = [d EXCEPT !.kind[i] = "file", !.nlink[i] = 1, !.size[i] = 0,
                                         !.dirents = @ \cup {x}]
            /\ Created(v, o) = [v EXCEPT !.kind[i] = "file", !.nlink[i] = 1, !.size[i] = 0,
                                         !.dirents = @ \cup {x}]
        <4>1. o.parent = RootIno /\ o.name = n /\ o.ino = i /\ o.kind = "file"
          BY <2>1 DEF OpCreate
        <4> QED BY <4>1 DEF Created
      <3>3. Created(d, o) = [kind |-> [d.kind EXCEPT ![i] = "file"],
                             nlink |-> [d.nlink EXCEPT ![i] = 1],
                             size |-> [d.size EXCEPT ![i] = 0],
                             dirents |-> d.dirents \cup {x}, chunks |-> d.chunks]
        BY <1>0, <3>2 DEF Databases
      <3>4. Created(v, o) = [kind |-> [d.kind EXCEPT ![i] = "file"],
                             nlink |-> [d.nlink EXCEPT ![i] = 1],
                             size |-> [d.size EXCEPT ![i] = 0],
                             dirents |-> d.dirents \cup {x}, chunks |-> {}]
        BY <1>0, <1>1, <3>2, ZenonT(60) DEF Databases
      <3>5. View(Created(d, o)) = Created(v, o)
        BY <3>3, <3>4, ViewOfTables
      <3> QED BY <3>1, <3>5
    <2>2. ASSUME NEW n \in Names, NEW t \in Inos, o = OpLink(RootIno, n, t)
          PROVE  View(Apply(d, o)) = Apply(v, o)
      <3>1. Apply(d, o) = Linked(d, o) /\ Apply(v, o) = Linked(v, o)
        BY <2>2 DEF Apply, OpLink
      <3> QED BY <1>0, <3>1, ZenonT(40) DEF Linked, View, Databases
    <2>3. ASSUME NEW n \in Names, o = OpUnlink(RootIno, n)
          PROVE  View(Apply(d, o)) = Apply(v, o)
      <3>1. Apply(d, o) = Unlinked(d, RootIno, n) /\ Apply(v, o) = Unlinked(v, RootIno, n)
        BY <2>3 DEF Apply, OpUnlink
      <3> QED BY <1>3, <3>1
    <2>4. ASSUME NEW n \in Names, NEW m \in Names, o = OpRename(RootIno, n, RootIno, m)
          PROVE  View(Apply(d, o)) = Apply(v, o)
      <3>1. /\ Apply(d, o) = Renamed(d, o) /\ Apply(v, o) = Renamed(v, o)
            /\ o.parent = RootIno /\ o.name = n /\ o.newParent = RootIno /\ o.newName = m
        BY <2>4 DEF Apply, OpRename
      <3> PICK x : x = IF Found(d, RootIno, m) THEN Unlinked(d, RootIno, m) ELSE d
        OBVIOUS
      <3> PICK y : y = IF Found(v, RootIno, m) THEN Unlinked(v, RootIno, m) ELSE v
        OBVIOUS
      <3> PICK E : E = At(d, RootIno, n)
        OBVIOUS
      <3> PICK r : r = [parent |-> RootIno, name |-> m, child |-> Lookup(d, RootIno, n)]
        OBVIOUS
      <3>2. Renamed(d, o) = [x EXCEPT !.dirents = (@ \ E) \cup {r}]
        BY <3>1 DEF Renamed
      <3>3. Renamed(v, o) = [y EXCEPT !.dirents = (@ \ E) \cup {r}]
        BY <1>2, <3>1 DEF Renamed
      <3>4. y = View(x)
        BY <1>2, <1>3 DEF v
      <3>5. x = [kind |-> x.kind, nlink |-> x.nlink, size |-> x.size, dirents |-> x.dirents,
                 chunks |-> x.chunks]
        BY <1>0, <1>3 DEF Databases
      <3>6. View([x EXCEPT !.dirents = (@ \ E) \cup {r}]) = [View(x) EXCEPT !.dirents = (@ \ E) \cup {r}]
        BY <3>5 DEF View
      <3> QED BY <3>1, <3>2, <3>3, <3>4, <3>6
    <2> QED BY <2>1, <2>2, <2>3, <2>4, OpsAre
  <1>5. View(Replay(d, o)) = Replay(v, o)
    BY <1>2, <1>4 DEF Replay, v
  <1> QED BY <1>2, <1>4, <1>5 DEF v
-----------------------------------------------------------------------------
(* Before the first loss *)

\* A batch has consecutive seqs.
Consecutive(b) == \A k \in 1..Len(b) : b[k].seq = b[1].seq + k - 1

\* Before the first loss, an entry is what led from one state to the next.
Genuine(e) ==
    /\ e.seq \in 1..Len(past)
    /\ e.seq > 1 => /\ Error(past[e.seq - 1], e.op) = "ok"
                    /\ past[e.seq] = Apply(past[e.seq - 1], e.op)
                    /\ Idempotent(past[e.seq - 1], e.op)

\* past has one state per operation, the last is that of the database.
HistoryInv ==
    /\ Len(past) = lastSeq /\ lastSeq > 0
    /\ past[lastSeq] = View(db)
    /\ \A k \in 1..Len(past) : past[k] \in Trees

EntriesInv ==
    /\ \A e \in journal : Genuine(e)
    /\ \A k \in 1..Len(pending) : Genuine(pending[k])
    /\ \A m \in 1..Len(batches) : \A k \in 1..Len(batches[m]) : Genuine(batches[m][k])

\* The journal is posted up to p, row by row.
JournalInv(p) ==
    /\ p \in 0..lastSeq
    /\ IsFiniteSet(journal)
    /\ \A e, f \in journal : e.seq = f.seq => e = f
    /\ \A e \in journal : e.posted <=> e.seq <= p
    /\ \A s \in p + 1 .. lastSeq : \E e \in journal : e.seq = s

\* The last operation the channel has seen, and which batches have them:
\* from the first of any batch on, none is missing in the batches since.
Top == LastSeq(batches[Len(batches)])
BatchesInv ==
    /\ FirstSeq(batches[1]) = 1
    /\ \A m \in 1..Len(batches) : Consecutive(batches[m]) /\ LastSeq(batches[m]) <= Top
    /\ \A m \in 1..Len(batches) : \A s \in FirstSeq(batches[m]) .. Top :
         \E j \in m..Len(batches) : s \in FirstSeq(batches[j]) .. LastSeq(batches[j])

\* The poster works from p on; the channel may be ahead by a batch.
PosterInv(p) ==
    /\ p <= Top /\ Top <= p + BatchSize
    /\ \A k \in 1..Len(pending) : pending[k].seq = p + k
    /\ post = "upload" => Top <= p + Len(pending)
    /\ post = "mark" => batches[Len(batches)] = Batch

\* The newest snapshot holds the state after the operation of its seq, and
\* it or the batches reach as far as the operations thought safe.
Snapshotted(s) == /\ s.seq \in 1..lastSeq
                  /\ View(s.image.db) = past[s.seq]
ManagerInv ==
    /\ Snapshotted(snaps[Len(snaps)])
    /\ mgr = "vacuum" => snap.seq = lastSeq
    /\ mgr = "upload" => Snapshotted(snap) /\ snaps[Len(snaps)].seq <= snap.seq
    /\ safe < snaps[Len(snaps)].seq \/ safe < Top

FirstInv ==
    losses = 0 => /\ ~lost /\ HistoryInv /\ EntriesInv /\ BatchesInv /\ ManagerInv
                  /\ \E p \in 0..lastSeq : JournalInv(p) /\ PosterInv(p)

\* What the scan finds: genuine entries, and every operation up to Top.
LEMMA FoundAll ==
  ASSUME RecoveryTypes, HistoryInv, EntriesInv, BatchesInv, NEW since \in 1..lastSeq
  PROVE  LET L == ListJournalOps(since)
         IN  /\ \A k \in 1..Len(L) : Genuine(L[k]) /\ L[k].seq > since /\ L[k].seq <= Top
             /\ \A s \in since + 1 .. Top : \E k \in 1..Len(L) : L[k].seq = s
  <1> PICK L : L = ListJournalOps(since)
    OBVIOUS
  <1> PICK from : from = ScanFrom(since)
    OBVIOUS
  <1>1. batches \in Seq(Batches) /\ batches # <<>> /\ lastSeq \in Nat /\ since \in Nat
    BY DEF RecoveryTypes
  <1>2. /\ \A k \in 1..Len(L) : L[k].seq \in Nat /\ L[k] \in JournalMessages(since)
        /\ \A x \in JournalMessages(since) : \E k \in 1..Len(L) : L[k] = x
    BY <1>1, ListIs
  <1>3. /\ from \in 1..Len(batches) /\ Len(batches) \in Nat
        /\ (\E m \in 1..Len(batches) : Boundary(batches[m], since)) => Boundary(batches[from], since)
    BY <1>1, ScanFromIs
  <1>4. \A x : x \in JournalMessages(since) <=>
          \E m \in from..Len(batches) : \E k \in 1..Len(batches[m]) :
             x = Message(m, k) /\ batches[m][k].seq > since
    BY <1>1, MessagesAre
  <1>5. \A m \in from..Len(batches) : m \in 1..Len(batches) /\ batches[m] \in Batches
    BY <1>1, <1>3
  <1>6. \A m \in 1..Len(batches) : /\ \A k \in 1..Len(batches[m]) :
                                        batches[m][k].seq = FirstSeq(batches[m]) + k - 1
                                   /\ LastSeq(batches[m]) = FirstSeq(batches[m]) + Len(batches[m]) - 1
                                   /\ FirstSeq(batches[m]) \in Nat /\ Len(batches[m]) \in Nat
                                   /\ LastSeq(batches[m]) <= Top /\ Len(batches[m]) >= 1
    <2> TAKE m \in 1..Len(batches)
    <2>1. batches[m] \in Batches
      BY <1>1
    <2>2. /\ Len(batches[m]) \in Nat /\ Len(batches[m]) >= 1 /\ batches[m][1].seq \in Nat
      BY <2>1, OwnSeq
    <2>3. /\ \A k \in 1..Len(batches[m]) : batches[m][k].seq = batches[m][1].seq + k - 1
          /\ LastSeq(batches[m]) <= Top
      BY DEF BatchesInv, Consecutive
    <2>4. FirstSeq(batches[m]) = batches[m][1].seq
      BY DEF FirstSeq
    <2>5. LastSeq(batches[m]) = batches[m][1].seq + Len(batches[m]) - 1
      <3>1. Len(batches[m]) \in 1..Len(batches[m])
        BY <2>2
      <3> QED BY <2>3, <3>1 DEF LastSeq
    <2> QED BY <2>2, <2>3, <2>4, <2>5
  <1>7. Top \in Nat
    BY <1>1, <1>6 DEF Top
  <1>8. \A k \in 1..Len(L) : Genuine(L[k]) /\ L[k].seq > since /\ L[k].seq <= Top
    <2> TAKE k \in 1..Len(L)
    <2>1. PICK m \in from..Len(batches) : \E j \in 1..Len(batches[m]) :
             L[k] = Message(m, j) /\ batches[m][j].seq > since
      BY <1>2, <1>4
    <2>2. PICK j \in 1..Len(batches[m]) : L[k] = Message(m, j) /\ batches[m][j].seq > since
      BY <2>1
    <2>3. L[k].seq = batches[m][j].seq /\ L[k].op = batches[m][j].op
      BY <2>2 DEF Message
    <2>4. Genuine(batches[m][j])
      BY <1>5 DEF EntriesInv
    <2>5. Genuine(L[k])
      BY <2>3, <2>4 DEF Genuine
    <2>6. batches[m][j].seq <= Top
      <3>1. /\ batches[m][j].seq = FirstSeq(batches[m]) + j - 1
            /\ LastSeq(batches[m]) = FirstSeq(batches[m]) + Len(batches[m]) - 1
            /\ FirstSeq(batches[m]) \in Nat /\ Len(batches[m]) \in Nat
            /\ LastSeq(batches[m]) <= Top
        BY <1>5, <1>6
      <3> QED BY <1>7, <3>1
    <2> QED BY <2>2, <2>3, <2>5, <2>6
  <1>9. FirstSeq(batches[from]) <= since + 1
    <2>1. 1 \in 1..Len(batches) /\ Boundary(batches[1], since)
      BY <1>1, <1>3 DEF BatchesInv, Boundary
    <2>2. LastSeq(batches[from]) <= since \/ FirstSeq(batches[from]) <= since + 1
      BY <1>3, <2>1 DEF Boundary
    <2>3. /\ LastSeq(batches[from]) = FirstSeq(batches[from]) + Len(batches[from]) - 1
          /\ FirstSeq(batches[from]) \in Nat /\ Len(batches[from]) \in Nat /\ Len(batches[from]) >= 1
      BY <1>3, <1>6
    <2> QED BY <1>1, <2>2, <2>3
  <1>10. \A s \in since + 1 .. Top : \E k \in 1..Len(L) : L[k].seq = s
    <2> TAKE s \in since + 1 .. Top
    <2>0. FirstSeq(batches[from]) \in Nat
      BY <1>3, <1>6
    <2>1. s \in FirstSeq(batches[from]) .. Top /\ s > since /\ s \in Nat
      BY <1>1, <1>7, <1>9, <2>0
    <2>2. PICK j \in from..Len(batches) : s \in FirstSeq(batches[j]) .. LastSeq(batches[j])
      BY <1>3, <2>1 DEF BatchesInv
    <2> PICK k : k = s - FirstSeq(batches[j]) + 1
      OBVIOUS
    <2>3. k \in 1..Len(batches[j]) /\ batches[j][k].seq = s
      <3>1. /\ \A i \in 1..Len(batches[j]) : batches[j][i].seq = FirstSeq(batches[j]) + i - 1
            /\ LastSeq(batches[j]) = FirstSeq(batches[j]) + Len(batches[j]) - 1
            /\ FirstSeq(batches[j]) \in Nat /\ Len(batches[j]) \in Nat
        BY <1>5, <1>6
      <3>2. k \in 1..Len(batches[j])
        BY <2>1, <2>2, <3>1
      <3>3. batches[j][k].seq = FirstSeq(batches[j]) + k - 1
        BY <3>1, <3>2
      <3> QED BY <2>1, <3>1, <3>2, <3>3
    <2>4. Message(j, k) \in JournalMessages(since)
      BY <1>4, <2>1, <2>3
    <2>5. PICK i \in 1..Len(L) : L[i] = Message(j, k)
      BY <1>2, <2>4
    <2>6. L[i].seq = s
      BY <2>3, <2>5 DEF Message
    <2> QED BY <2>6
  <1> QED BY <1>8, <1>10

\* One step of the replay: to the next state, or a repetition of the last.
LEMMA ReplayOne ==
  ASSUME HistoryInv, NEW d \in Trees, NEW q \in 1..Len(past), View(d) = past[q], NEW e,
         Genuine(e), e.op \in Ops, e.seq = q \/ e.seq = q + 1, e.seq > 1
  PROVE  /\ Replayable(d, e.op) /\ Replay(d, e.op) \in Trees
         /\ View(Replay(d, e.op)) = past[e.seq]
  <1>1. /\ Replayable(past[q], e.op) = Replayable(d, e.op)
        /\ View(Replay(d, e.op)) = Replay(past[q], e.op) /\ Replay(d, e.op) \in Trees
    BY ViewReplays, ReplayTree
  <1>2. CASE e.seq = q + 1
    <2>1. e.seq - 1 = q
      BY <1>2 DEF HistoryInv
    <2>2. Error(past[q], e.op) = "ok" /\ past[e.seq] = Apply(past[q], e.op)
      BY <2>1 DEF Genuine
    <2> QED BY <1>1, <2>2 DEF Replayable, Replay
  <1>3. CASE e.seq = q
    <2>1. past[q] = Apply(past[q - 1], e.op) /\ Idempotent(past[q - 1], e.op)
      BY <1>3 DEF Genuine
    <2>2. Replayable(past[q], e.op) /\ Replay(past[q], e.op) = past[q]
      BY <2>1 DEF Idempotent
    <2> QED BY <1>1, <1>3, <2>2
  <1> QED BY <1>2, <1>3

\* A number next to another.
LEMMA SameOrNext == \A x, q \in Nat : x >= q /\ x <= q + 1 => x = q \/ x = q + 1
  OBVIOUS

\* The replay goes through past, operation by operation.
LEMMA ReplayFollows ==
  ASSUME HistoryInv, NEW d \in Trees, NEW since \in 1..Len(past), View(d) = past[since],
         NEW top \in Nat, NEW S, NEW L \in Seq(S), Len(past) \in Nat,
         \A k \in 1..Len(L) : /\ Genuine(L[k]) /\ L[k].op \in Ops
                              /\ L[k].seq > since /\ L[k].seq <= top,
         \A s \in since + 1 .. top : \E k \in 1..Len(L) : L[k].seq = s,
         \A j, k \in 1..Len(L) : j < k => L[j].seq <= L[k].seq
  PROVE  \A k \in 0..Len(L) :
           /\ Replays(d, L)[k] \in Trees
           /\ View(Replays(d, L)[k]) = past[IF k = 0 THEN since ELSE L[k].seq]
           /\ k # 0 => Replayable(Replays(d, L)[k - 1], L[k].op)
  <1> DEFINE r == Replays(d, L)
             at(k) == IF k = 0 THEN since ELSE L[k].seq
             Good(k) == /\ r[k] \in Trees /\ View(r[k]) = past[at(k)]
                        /\ k # 0 => Replayable(r[k - 1], L[k].op)
             T == {k \in 0..Len(L) : ~Good(k)}
  <1>1. Len(L) \in Nat /\ since \in Nat
    OBVIOUS
  <1>2. r[0] = d /\ \A k \in 1..Len(L) : r[k] = Replay(r[k - 1], L[k].op)
    BY ReplayStep
  <1> HIDE DEF r
  <1> SUFFICES ASSUME T # {} PROVE FALSE
    BY DEF r
  <1>3. PICK k \in T : \A m \in T : k <= m
    <2>1. T \in SUBSET Nat
      BY <1>1
    <2> HIDE DEF T
    <2> QED BY <2>1, Least
  <1>4. k \in 0..Len(L) /\ ~Good(k)
    BY <1>3
  <1>5. k # 0
    <2>1. Good(0)
      BY <1>2
    <2> HIDE DEF Good
    <2> QED BY <1>4, <2>1
  <1>6. k \in 1..Len(L) /\ k - 1 \in 0..Len(L) /\ ~(k <= k - 1) /\ k \in Nat
    BY <1>1, <1>4, <1>5
  <1>7. Good(k - 1)
    BY <1>3, <1>6
  <1> PICK q : q = at(k - 1)
    OBVIOUS
  <1>8. \A j \in 1..Len(L) : L[j].seq \in 1..Len(past) /\ L[j].seq \in Nat
    <2> TAKE j \in 1..Len(L)
    <2>1. Genuine(L[j])
      OBVIOUS
    <2>2. L[j].seq \in 1..Len(past)
      BY <2>1 DEF Genuine
    <2> QED BY <2>2
  <1>9. q \in 1..Len(past) /\ q \in Nat /\ since <= q /\ (k # 1 => q = L[k - 1].seq)
    <2>1. CASE k = 1
      BY <1>1, <2>1
    <2>2. CASE k # 1
      <3>1. k - 1 \in 1..Len(L) /\ k - 1 # 0
        BY <1>1, <1>6, <2>2
      <3>2. q = L[k - 1].seq
        BY <3>1
      <3>3. L[k - 1].seq > since /\ L[k - 1].seq \in 1..Len(past) /\ L[k - 1].seq \in Nat
        BY <1>8, <3>1
      <3> QED BY <1>1, <3>2, <3>3
    <2> QED BY <2>1, <2>2
  <1>10. L[k].seq >= q /\ (k = 1 => L[k].seq > q)
    <2>1. CASE k = 1
      BY <1>1, <1>6, <1>8, <2>1
    <2>2. CASE k # 1
      <3>1. k - 1 \in 1..Len(L) /\ k - 1 < k
        BY <1>1, <1>6, <2>2
      <3>2. L[k - 1].seq <= L[k].seq
        BY <1>6, <3>1
      <3> QED BY <1>6, <1>8, <1>9, <2>2, <3>2
    <2> QED BY <2>1, <2>2
  <1>11. L[k].seq <= q + 1
    <2> SUFFICES ASSUME L[k].seq > q + 1 PROVE FALSE
      BY <1>6, <1>8, <1>9, SMTT(40)
    <2>1. q + 1 \in since + 1 .. top
      <3> PICK x : x = L[k].seq
        OBVIOUS
      <3>1. x <= top /\ x \in Nat /\ x > q + 1
        BY <1>6, <1>8
      <3>2. q \in Nat /\ since \in Nat /\ top \in Nat /\ since <= q
        BY <1>1, <1>9
      <3> HIDE DEF r, at, Good, T
      <3> QED BY <3>1, <3>2
    <2>2. PICK i \in 1..Len(L) : L[i].seq = q + 1
      BY <2>1
    <2>3. i < k \/ i = k \/ k < i
      BY <1>1, <1>6
    <2>4. CASE i = k
      BY <1>9, <2>2, <2>4
    <2>5. CASE k < i
      <3>1. L[k].seq <= L[i].seq
        BY <1>6, <2>5
      <3> QED BY <1>6, <1>8, <1>9, <2>2, <3>1, SMTT(40)
    <2>6. CASE i < k
      <3>1. k # 1 /\ k - 1 \in 1..Len(L) /\ (i < k - 1 \/ i = k - 1)
        BY <1>1, <1>6, <2>6
      <3>2. L[i].seq <= L[k - 1].seq
        <4>1. CASE i = k - 1
          BY <1>8, <4>1
        <4>2. CASE i < k - 1
          BY <3>1, <4>2
        <4> QED BY <3>1, <4>1, <4>2
      <3>3. q + 1 <= q
        BY <1>9, <2>2, <3>1, <3>2
      <3> QED BY <1>9, <3>3
    <2> QED BY <2>3, <2>4, <2>5, <2>6
  <1>12. L[k].seq = q \/ L[k].seq = q + 1
    <2> PICK x : x = L[k].seq
      OBVIOUS
    <2>1. x \in Nat /\ q \in Nat /\ x >= q /\ x <= q + 1
      BY <1>6, <1>8, <1>9, <1>10, <1>11
    <2>2. x = q \/ x = q + 1
      BY <2>1, SameOrNext
    <2> QED BY <2>2
  <1>13. r[k - 1] \in Trees /\ View(r[k - 1]) = past[q] /\ r[k] = Replay(r[k - 1], L[k].op)
    BY <1>2, <1>6, <1>7
  <1>14. L[k].seq > 1 /\ Genuine(L[k]) /\ L[k].op \in Ops
    <2>1. L[k].seq > since /\ L[k].seq \in Nat /\ Genuine(L[k]) /\ L[k].op \in Ops
      BY <1>6, <1>8
    <2> QED BY <1>1, <2>1
  <1>15. Good(k)
    <2>1. /\ Replayable(r[k - 1], L[k].op) /\ Replay(r[k - 1], L[k].op) \in Trees
          /\ View(Replay(r[k - 1], L[k].op)) = past[L[k].seq]
      BY <1>9, <1>12, <1>13, <1>14, ReplayOne
    <2> QED BY <1>5, <1>13, <2>1
  <1> QED BY <1>4, <1>15
\* What tryRecover would bring back now is a state of the past, and none that
\* is older than what was thought safe.
LEMMA RecoverableNow ==
  ASSUME RecoveryTypes, FirstInv, losses = 0
  PROVE  Recoverable
  <1> PICK new \in Snapshots : new = snaps[Len(snaps)]
    BY DEF RecoveryTypes
  <1> PICK L : L = ListJournalOps(new.seq)
    OBVIOUS
  <1> PICK d : d = new.image.db
    OBVIOUS
  <1> PICK top : top = Top
    OBVIOUS
  <1>1. HistoryInv /\ EntriesInv /\ BatchesInv /\ ManagerInv
    BY DEF FirstInv
  <1>2. d \in Trees
    BY DEF Snapshots, Images
  <1>3. new.seq \in 1..lastSeq /\ View(d) = past[new.seq] /\ (safe < new.seq \/ safe < top)
    BY <1>1 DEF ManagerInv, Snapshotted
  <1>4. Len(past) = lastSeq /\ lastSeq \in Nat /\ safe \in Nat /\ new.seq \in Nat
    BY <1>1, <1>3 DEF HistoryInv, RecoveryTypes
  <1>5. top \in Nat
    <2>1. batches[Len(batches)] \in Batches
      BY DEF RecoveryTypes
    <2> QED BY <2>1, OwnSeq DEF Top, LastSeq
  <1>6. batches \in Seq(Batches) /\ batches # <<>>
    BY DEF RecoveryTypes
  <1>7. /\ L \in Seq(JournalMessages(new.seq))
        /\ \A k \in 1..Len(L) : L[k].op \in Ops /\ L[k].seq \in Nat
        /\ \A j, k \in 1..Len(L) : j < k => L[j].seq <= L[k].seq
    BY <1>6, ListIs
  <1>8. /\ \A k \in 1..Len(L) : Genuine(L[k]) /\ L[k].seq > new.seq /\ L[k].seq <= top
        /\ \A s \in new.seq + 1 .. top : \E k \in 1..Len(L) : L[k].seq = s
    BY <1>1, <1>3, FoundAll
  <1>9. \A k \in 0..Len(L) :
           /\ Replays(d, L)[k] \in Trees
           /\ View(Replays(d, L)[k]) = past[IF k = 0 THEN new.seq ELSE L[k].seq]
           /\ k # 0 => Replayable(Replays(d, L)[k - 1], L[k].op)
    <2> PICK S : S = JournalMessages(new.seq)
      OBVIOUS
    <2> PICK since : since = new.seq
      OBVIOUS
    <2>1. L \in Seq(S) /\ since \in 1..Len(past) /\ View(d) = past[since] /\ Len(past) \in Nat
      BY <1>3, <1>4, <1>7
    <2>2. \A k \in 1..Len(L) : /\ Genuine(L[k]) /\ L[k].op \in Ops
                                /\ L[k].seq > since /\ L[k].seq <= top
      BY <1>7, <1>8
    <2>3. \A s \in since + 1 .. top : \E k \in 1..Len(L) : L[k].seq = s
      BY <1>8
    <2>4. HistoryInv /\ \A j, k \in 1..Len(L) : j < k => L[j].seq <= L[k].seq
      BY <1>1, <1>7
    <2> HIDE DEF HistoryInv, Genuine
    <2>5. \A k \in 0..Len(L) :
           /\ Replays(d, L)[k] \in Trees
           /\ View(Replays(d, L)[k]) = past[IF k = 0 THEN since ELSE L[k].seq]
           /\ k # 0 => Replayable(Replays(d, L)[k - 1], L[k].op)
      BY ONLY <1>2, <1>5, <2>1, <2>2, <2>3, <2>4, ReplayFollows, Zenon
    <2> QED BY <2>5
  <1>10. Len(L) \in Nat /\ Len(L) \in 0..Len(L)
    BY <1>7
  <1>11. ReplaySucceeds(d, L)
    <2>1. \A k \in 1..Len(L) : k \in 0..Len(L) /\ k # 0
      BY <1>10
    <2> QED BY <1>9, <2>1 DEF ReplaySucceeds
  <1> PICK h : h = IF Len(L) = 0 THEN new.seq ELSE L[Len(L)].seq
    OBVIOUS
  <1>12. View(ReplayAll(d, L)) = past[h]
    BY <1>9, <1>10 DEF ReplayAll
  <1>13. h \in safe + 1 .. Len(past)
    <2>1. CASE Len(L) = 0
      <3>1. ~(new.seq + 1 \in new.seq + 1 .. top)
        BY <1>8, <1>10, <2>1
      <3>2. top <= new.seq
        BY <1>4, <1>5, <3>1
      <3> QED BY <1>3, <1>4, <1>5, <2>1, <3>2
    <2>2. CASE Len(L) # 0
      <3> PICK n : n = Len(L)
        OBVIOUS
      <3>1. n \in 1..Len(L) /\ n \in Nat /\ h = L[n].seq
        BY <1>10, <2>2
      <3>2. h > new.seq /\ h \in Nat /\ h \in 1..Len(past)
        BY <1>7, <1>8, <3>1 DEF Genuine
      <3>3. top > new.seq => top <= h
        <4> SUFFICES ASSUME top > new.seq PROVE top <= h
          OBVIOUS
        <4>1. top \in new.seq + 1 .. top
          BY <1>4, <1>5
        <4>2. PICK k \in 1..Len(L) : L[k].seq = top
          BY <1>8, <4>1
        <4>3. k < n \/ k = n
          BY <1>10, <3>1
        <4>4. CASE k = n
          BY <1>5, <3>1, <4>2, <4>4
        <4>5. CASE k < n
          BY <1>7, <3>1, <4>2, <4>5
        <4> QED BY <4>3, <4>4, <4>5
      <3>4. safe < h
        BY <1>3, <1>4, <1>5, <3>2, <3>3
      <3> QED BY <1>4, <3>2, <3>4
    <2> QED BY <2>1, <2>2
  <1> QED BY <1>11, <1>12, <1>13 DEF Recoverable

-----------------------------------------------------------------------------
(* ... and that stays so until the first loss *)

\* An ascending list of all the numbers from p + 1 to n.
LEMMA ListsAll ==
  ASSUME NEW s \in RowLists, NEW p \in Nat, NEW n \in Nat, p <= n,
         \A k \in 1..Len(s) : s[k].seq \in p + 1 .. n,
         \A q \in p + 1 .. n : \E k \in 1..Len(s) : s[k].seq = q
  PROVE  /\ \A k \in 1..Len(s) : s[k].seq = p + k
         /\ Len(s) = n - p
  <1>1. s \in Seq(Rows) /\ Ascending(s) /\ Len(s) \in Nat
    BY DEF RowLists
  <1>2. \A k \in 1..Len(s) : s[k].seq \in Nat /\ p + 1 <= s[k].seq /\ s[k].seq <= n
    OBVIOUS
  <1> DEFINE T == {k \in 1..Len(s) : s[k].seq # p + k}
  <1>3. T = {}
    <2> SUFFICES ASSUME T # {} PROVE FALSE
      OBVIOUS
    <2>1. PICK k \in T : \A m \in T : k <= m
      <3>1. T \in SUBSET Nat
        BY <1>1
      <3> HIDE DEF T
      <3> QED BY <3>1, Least
    <2>2. k \in 1..Len(s) /\ s[k].seq # p + k /\ k \in Nat
      BY <1>1, <2>1
    <2> PICK x : x = s[k].seq
      OBVIOUS
    <2>3. x \in Nat /\ p + 1 <= x /\ x <= n /\ x # p + k
      BY <1>2, <2>2
    <2>4. k # 1 => k - 1 \in 1..Len(s) /\ s[k - 1].seq = p + (k - 1)
      <3> SUFFICES ASSUME k # 1 PROVE k - 1 \in 1..Len(s) /\ s[k - 1].seq = p + (k - 1)
        OBVIOUS
      <3>1. k - 1 \in 1..Len(s) /\ ~(k <= k - 1)
        BY <1>1, <2>2
      <3> QED BY <2>1, <3>1
    <2>5. x >= p + k
      <3>1. CASE k = 1
        BY <2>3, <3>1
      <3>2. CASE k # 1
        <4>1. s[k - 1].seq < s[k].seq
          <5>1. k - 1 < k
            BY <2>2
          <5> QED BY <1>1, <2>2, <2>4, <3>2, <5>1 DEF Ascending
        <4>2. p + (k - 1) < x
          BY <2>4, <3>2, <4>1
        <4> QED BY <2>2, <2>3, <4>2
      <3> QED BY <3>1, <3>2
    <2>6. p + k \in p + 1 .. n
      BY <2>2, <2>3, <2>5
    <2>7. PICK j \in 1..Len(s) : s[j].seq = p + k
      BY <2>6
    <2>8. j < k \/ j = k \/ k < j
      BY <1>1, <2>2
    <2>9. CASE j = k
      BY <2>2, <2>7, <2>9
    <2>10. CASE k < j
      <3>1. x < p + k
        BY <1>1, <2>2, <2>7, <2>10 DEF Ascending
      <3> QED BY <2>2, <2>3, <2>5, <3>1
    <2>11. CASE j < k
      <3>1. k # 1 /\ j \in Nat /\ (j = k - 1 \/ j < k - 1)
        BY <1>1, <2>2, <2>11
      <3>2. CASE j = k - 1
        <4>1. p + k = p + (k - 1)
          BY <2>4, <2>7, <3>1, <3>2
        <4> QED BY <2>2, <4>1
      <3>3. CASE j < k - 1
        <4>1. s[j].seq < s[k - 1].seq
          BY <1>1, <2>4, <3>1, <3>3 DEF Ascending
        <4>2. p + k < p + (k - 1)
          BY <2>4, <2>7, <3>1, <4>1
        <4> QED BY <2>2, <4>2
      <3> QED BY <3>1, <3>2, <3>3
    <2> QED BY <2>8, <2>9, <2>10, <2>11
  <1>4. \A k \in 1..Len(s) : s[k].seq = p + k
    BY <1>3
  <1> HIDE DEF T
  <1>5. Len(s) <= n - p
    <2>1. CASE Len(s) = 0
      BY <2>1
    <2>2. CASE Len(s) # 0
      <3>1. Len(s) \in 1..Len(s)
        BY <1>1, <2>2
      <3>2. p + Len(s) <= n
        BY <1>2, <1>4, <3>1
      <3> QED BY <1>1, <3>2
    <2> QED BY <2>1, <2>2
  <1>6. n - p <= Len(s)
    <2>1. CASE n = p
      BY <1>1, <2>1
    <2>2. CASE n # p
      <3>1. n \in p + 1 .. n
        BY <2>2
      <3>2. PICK k \in 1..Len(s) : s[k].seq = n
        BY <3>1
      <3>3. n = p + k
        BY <1>4, <3>2
      <3> QED BY <1>1, <3>3
    <2> QED BY <2>1, <2>2
  <1>7. Len(s) = n - p
    <2> PICK l : l = Len(s)
      OBVIOUS
    <2>1. l \in Nat /\ l <= n - p /\ n - p <= l
      BY <1>1, <1>5, <1>6
    <2>2. l = n - p
      BY <2>1
    <2> QED BY <2>2
  <1> QED BY <1>4, <1>7
\* The types, and what they say of batches.
LEMMA BatchShapes ==
  ASSUME RecoveryTypes
  PROVE  /\ Len(batches) \in Nat /\ Len(batches) >= 1 /\ Len(batches) \in 1..Len(batches)
         /\ \A m \in 1..Len(batches) : batches[m] \in Batches
         /\ Top \in Nat /\ snaps[Len(snaps)] \in Snapshots /\ snaps[Len(snaps)].seq \in Nat
         /\ snap.seq \in Nat /\ lastSeq \in Nat /\ safe \in Nat /\ Len(past) \in Nat
  <1>1. /\ Len(batches) \in Nat /\ Len(batches) >= 1 /\ Len(batches) \in 1..Len(batches)
        /\ \A m \in 1..Len(batches) : batches[m] \in Batches
    BY DEF RecoveryTypes
  <1>2. Top \in Nat
    BY <1>1, OwnSeq DEF Top, LastSeq
  <1>3. snaps[Len(snaps)] \in Snapshots
    BY DEF RecoveryTypes
  <1>4. snaps[Len(snaps)].seq \in Nat /\ snap.seq \in Nat
    BY <1>3 DEF RecoveryTypes, Snapshots
  <1> QED BY <1>1, <1>2, <1>3, <1>4 DEF RecoveryTypes

LEMMA FirstInit == Init => FirstInv
  <1> SUFFICES ASSUME Init PROVE FirstInv
    OBVIOUS
  <1> PICK e : e = Entry(1, FirstOp)
    OBVIOUS
  <1> PICK b : b = <<e>>
    OBVIOUS
  <1>1. e.seq = 1 /\ b \in Batches /\ db = FirstImage.db /\ db \in Trees
    BY FirstIs DEF Init, Images
  <1>2. Len(b) = 1 /\ b[1] = e /\ FirstSeq(b) = 1 /\ LastSeq(b) = 1
    BY <1>1 DEF FirstSeq, LastSeq
  <1>3. batches = <<b>> /\ Len(batches) = 1 /\ batches[1] = b
    BY DEF Init
  <1>4. past = <<View(db)>> /\ Len(past) = 1 /\ past[1] = View(db) /\ View(db) \in Trees
    BY <1>1, ViewIs DEF Init
  <1>5. lastSeq = 1 /\ journal = {} /\ pending = <<>> /\ post = "idle" /\ mgr = "idle" /\ safe = 0 /\ lost = FALSE
    BY DEF Init
  <1> PICK s : s = [seq |-> 1, image |-> FirstImage]
    OBVIOUS
  <1>6. snaps[Len(snaps)] = s /\ s.seq = 1 /\ s.image.db = db
    BY <1>1 DEF Init
  <1>7. Top = 1
    BY <1>2, <1>3 DEF Top
  <1>8. HistoryInv
    BY <1>4, <1>5 DEF HistoryInv
  <1>9. Genuine(e)
    BY <1>1, <1>4 DEF Genuine
  <1>10. EntriesInv
    BY <1>2, <1>3, <1>5, <1>9 DEF EntriesInv
  <1>11. BatchesInv
    BY <1>1, <1>2, <1>3, <1>7 DEF BatchesInv, Consecutive
  <1>12. ManagerInv
    BY <1>4, <1>5, <1>6 DEF ManagerInv, Snapshotted
  <1>13. JournalInv(1) /\ PosterInv(1)
    BY <1>5, <1>7, FS_EmptySet, RecoveryAssumption DEF JournalInv, PosterInv
  <1>14. 1 \in 0..lastSeq
    BY <1>5
  <1> QED BY <1>5, <1>8, <1>10, <1>11, <1>12, <1>13, <1>14 DEF FirstInv

\* What was genuine stays so when a state is added.
LEMMA StaysGenuine ==
  ASSUME past \in Seq(Databases), NEW v \in Databases, past' = Append(past, v)
  PROVE  /\ \A k \in 1..Len(past) : past'[k] = past[k]
         /\ Len(past') = Len(past) + 1 /\ past'[Len(past) + 1] = v
         /\ \A e : Genuine(e) => Genuine(e)'
  <1>1. /\ \A k \in 1..Len(past) : past'[k] = past[k]
        /\ Len(past') = Len(past) + 1 /\ past'[Len(past) + 1] = v /\ Len(past) \in Nat
    OBVIOUS
  <1>2. ASSUME NEW e, Genuine(e) PROVE Genuine(e)'
    <2> PICK q : q = e.seq
      OBVIOUS
    <2>1. q \in 1..Len(past) /\ q \in 1..Len(past') /\ (q > 1 => q - 1 \in 1..Len(past))
      BY <1>1, <1>2 DEF Genuine
    <2> QED BY <1>1, <1>2, <2>1 DEF Genuine
  <1> QED BY <1>1, <1>2

LEMMA FirstCommit ==
  ASSUME RecoveryTypes, RecoveryTypes', FirstInv, losses = 0, ~OpDuringTake, NEW o \in Ops, Commits(o)
  PROVE  FirstInv'
  <1> PICK e : e = Entry(lastSeq + 1, o)
    OBVIOUS
  <1>1. /\ lastSeq' = lastSeq + 1 /\ journal' = journal \cup {e} /\ snaps' = snaps /\ snap' = snap
        /\ batches' = batches /\ post' = post /\ pending' = pending /\ mgr' = mgr /\ mgr # "vacuum"
        /\ past' = Append(past, View(db')) /\ safe' = safe /\ lost' = lost /\ losses' = losses
    BY DEF Commits, Journaled, mgrVars, channelVars, postVars
  <1>2. e.seq = lastSeq + 1 /\ ~e.posted /\ e.op = o
    BY DEF Entry
  <1>3. HistoryInv /\ EntriesInv /\ BatchesInv /\ ManagerInv /\ ~lost
    BY DEF FirstInv
  <1>4. PICK p \in 0..lastSeq : JournalInv(p) /\ PosterInv(p)
    BY DEF FirstInv
  <1>5. db \in Trees /\ View(db) \in Trees /\ db' \in Trees /\ View(db') \in Trees /\ View(db') \in Databases
        /\ past \in Seq(Databases) /\ lastSeq \in Nat
    BY ViewIs DEF RecoveryTypes, Trees
  <1>6. /\ \A k \in 1..Len(past) : past'[k] = past[k]
        /\ Len(past') = Len(past) + 1 /\ past'[Len(past) + 1] = View(db')
        /\ \A f : Genuine(f) => Genuine(f)'
    BY <1>1, <1>5, StaysGenuine
  <1>7. Len(past) = lastSeq /\ lastSeq > 0 /\ past[lastSeq] = View(db)
    BY <1>3 DEF HistoryInv
  <1>8. HistoryInv'
    <2>1. Len(past') = lastSeq' /\ lastSeq' > 0 /\ past'[lastSeq'] = View(db')
      BY <1>1, <1>5, <1>6, <1>7
    <2>2. \A k \in 1..Len(past') : k \in 1..Len(past) \/ k = Len(past) + 1
      BY <1>5, <1>6
    <2>3. \A k \in 1..Len(past') : past'[k] \in Trees
      BY <1>3, <1>5, <1>6, <2>2 DEF HistoryInv
    <2> QED BY <2>1, <2>3 DEF HistoryInv
  <1>9. Genuine(e)'
    <2>1. Error(View(db), o) = "ok" /\ View(db') = Apply(View(db), o)
      BY <1>5, ViewReplays DEF Commits
    <2>2. Idempotent(View(db), o)
      BY <1>5, <2>1, OpIdempotent
    <2>3. past'[e.seq - 1] = View(db) /\ past'[e.seq] = View(db') /\ e.seq \in 1..Len(past')
      <3>1. e.seq - 1 = lastSeq /\ lastSeq \in 1..Len(past) /\ e.seq = Len(past) + 1
        BY <1>2, <1>5, <1>7
      <3>2. e.seq \in 1..Len(past')
        BY <1>5, <1>6, <1>7, <3>1
      <3> QED BY <1>6, <1>7, <3>1, <3>2
    <2> QED BY <1>2, <2>1, <2>2, <2>3 DEF Genuine
  <1>10. EntriesInv'
    BY <1>1, <1>3, <1>6, <1>9 DEF EntriesInv
  <1>11. BatchesInv'
    BY <1>1, <1>3 DEF BatchesInv, Top
  <1>12. ManagerInv'
    <2>1. \A s : Snapshotted(s) => Snapshotted(s)'
      <3> SUFFICES ASSUME NEW s, Snapshotted(s) PROVE Snapshotted(s)'
        OBVIOUS
      <3>1. s.seq \in 1..lastSeq /\ s.seq \in 1..lastSeq' /\ s.seq \in 1..Len(past)
        BY <1>1, <1>5, <1>7 DEF Snapshotted
      <3> QED BY <1>6, <3>1 DEF Snapshotted
    <2> QED BY <1>1, <1>3, <2>1 DEF ManagerInv, Top
  <1>13. JournalInv(p)'
    <2>1. IsFiniteSet(journal') /\ \A f, g \in journal' : f.seq = g.seq => f = g
      BY DEF RecoveryTypes, Keyed
    <2>2. p \in Nat /\ p \in 0..lastSeq' /\ ~(e.seq <= p)
      BY <1>1, <1>2, <1>5
    <2>3. \A f \in journal' : f.posted <=> f.seq <= p
      BY <1>1, <1>2, <1>4, <2>2 DEF JournalInv
    <2>4. \A s \in p + 1 .. lastSeq' : s \in p + 1 .. lastSeq \/ s = e.seq
      BY <1>1, <1>2, <1>5, <2>2
    <2>5. \A s \in p + 1 .. lastSeq' : \E f \in journal' : f.seq = s
      BY <1>1, <1>4, <2>4 DEF JournalInv
    <2> QED BY <2>1, <2>2, <2>3, <2>5 DEF JournalInv
  <1>14. PosterInv(p)'
    BY <1>1, <1>4 DEF PosterInv, Top, Batch
  <1>15. p \in 0..lastSeq'
    BY <1>1, <1>5
  <1> QED BY <1>1, <1>3, <1>8, <1>10, <1>11, <1>12, <1>13, <1>14, <1>15 DEF FirstInv

\* Steps that leave the journal, the batches and the history as they are.
LEMMA FirstSame ==
  ASSUME RecoveryTypes, FirstInv, losses = 0,
         View(db') = View(db), past' = past, lastSeq' = lastSeq, journal' = journal,
         batches' = batches, pending' = pending, post' = post, lost' = lost, ManagerInv'
  PROVE  FirstInv'
  <1>1. HistoryInv' /\ EntriesInv' /\ BatchesInv'
    BY DEF FirstInv, HistoryInv, EntriesInv, Genuine, BatchesInv, Top
  <1>2. \A p : (JournalInv(p) => JournalInv(p)') /\ (PosterInv(p) => PosterInv(p)')
    BY DEF JournalInv, PosterInv, Top, Batch
  <1> QED BY <1>1, <1>2 DEF FirstInv

LEMMA FirstPut ==
  ASSUME RecoveryTypes, FirstInv, losses = 0, NEW i \in Inos, PutChunk(i)
  PROVE  FirstInv'
  <1>1. View(db') = View(db)
    BY PutChunkIs DEF RecoveryTypes
  <1>2. /\ past' = past /\ lastSeq' = lastSeq /\ journal' = journal /\ batches' = batches
        /\ pending' = pending /\ post' = post /\ lost' = lost /\ snaps' = snaps /\ mgr' = mgr
        /\ snap' = snap /\ safe' = safe
    BY DEF PutChunk, channelVars, mgrVars, postVars, histVars
  <1>3. ManagerInv'
    BY <1>2 DEF FirstInv, ManagerInv, Snapshotted, Top
  <1> QED BY <1>1, <1>2, <1>3, FirstSame
LEMMA FirstManager ==
  ASSUME RecoveryTypes, FirstInv, losses = 0,
         OnceStep \/ OnceFails \/ DeleteJournalFails \/ RetentionFails
  PROVE  FirstInv'
  <1> USE DEF channelVars, mgrVars, postVars, histVars, localVars
  <1>0. /\ Top \in Nat /\ snaps[Len(snaps)].seq \in Nat /\ snap.seq \in Nat /\ lastSeq \in Nat
        /\ safe \in Nat /\ HistoryInv /\ ManagerInv
    BY BatchShapes DEF FirstInv
  <1>1. CASE OnceBegin
    <2>1. snap'.seq = lastSeq /\ mgr' = "vacuum" /\ snaps' = snaps /\ past' = past /\ lastSeq' = lastSeq
          /\ batches' = batches /\ safe' = safe
      BY <1>1 DEF OnceBegin
    <2>2. ManagerInv'
      BY <1>0, <2>1 DEF ManagerInv, Snapshotted, Top
    <2> QED BY <1>1, <2>2, FirstSame DEF OnceBegin
  <1>2. CASE Vacuum
    <2>1. /\ snap'.seq = snap.seq /\ snap'.image.db = db /\ mgr = "vacuum" /\ mgr' = "upload"
          /\ snaps' = snaps /\ past' = past /\ lastSeq' = lastSeq /\ batches' = batches /\ safe' = safe
      BY <1>2 DEF Vacuum, Image
    <2>2. snap.seq = lastSeq /\ lastSeq \in 1..lastSeq /\ View(db) = past[lastSeq]
          /\ snaps[Len(snaps)].seq <= lastSeq
      BY <1>0, <2>1 DEF ManagerInv, HistoryInv, Snapshotted
    <2>3. ManagerInv'
      BY <1>0, <2>1, <2>2 DEF ManagerInv, Snapshotted, Top
    <2> QED BY <1>2, <2>3, FirstSame DEF Vacuum
  <1>3. CASE UploadSnapshot
    <2>1. /\ snaps' = Append(snaps, snap) /\ mgr = "upload" /\ mgr' = "kv" /\ past' = past
          /\ lastSeq' = lastSeq /\ batches' = batches /\ safe' = Larger(safe, Nth(snap.seq))
      BY <1>3 DEF UploadSnapshot
    <2>2. snaps'[Len(snaps')] = snap
      BY <2>1 DEF RecoveryTypes
    <2>3. Nth(snap.seq) = snap.seq - 1
      BY <1>0 DEF Nth, HistoryInv
    <2>4. safe' < snap.seq \/ safe' < Top
      <3>1. safe < snaps[Len(snaps)].seq \/ safe < Top
        BY <1>0 DEF ManagerInv
      <3>2. snaps[Len(snaps)].seq <= snap.seq /\ snap.seq \in 1..lastSeq
        BY <1>0, <2>1 DEF ManagerInv, Snapshotted
      <3> QED BY <1>0, <2>1, <2>3, <3>1, <3>2 DEF Larger
    <2>5. ManagerInv'
      BY <1>0, <2>1, <2>2, <2>4 DEF ManagerInv, Snapshotted, Top
    <2> QED BY <1>3, <2>5, FirstSame DEF UploadSnapshot
  <1>4. CASE StoreCurrent
    <2>1. ManagerInv'
      BY <1>0, <1>4 DEF StoreCurrent, ManagerInv, Snapshotted, Top
    <2> QED BY <1>4, <2>1, FirstSame DEF StoreCurrent
  <1>5. CASE DeleteJournalUpTo
    <2>1. /\ journal' \in SUBSET journal /\ \A e \in journal : ~e.posted => e \in journal'
          /\ db' = db /\ past' = past /\ lastSeq' = lastSeq /\ batches' = batches /\ pending' = pending
          /\ post' = post /\ lost' = lost /\ snaps' = snaps /\ mgr' = "baseline" /\ safe' = safe
      BY <1>5 DEF DeleteJournalUpTo, Superseded
    <2>2. ManagerInv'
      BY <1>0, <2>1 DEF ManagerInv, Snapshotted, Top
    <2>3. HistoryInv' /\ EntriesInv' /\ BatchesInv'
      BY <2>1 DEF FirstInv, HistoryInv, EntriesInv, Genuine, BatchesInv, Top
    <2>4. PICK p \in 0..lastSeq : JournalInv(p) /\ PosterInv(p)
      BY DEF FirstInv
    <2>5. PosterInv(p)'
      BY <2>1, <2>4 DEF PosterInv, Top, Batch
    <2>6. JournalInv(p)'
      <3>1. IsFiniteSet(journal')
        BY <2>1, FS_Subset DEF RecoveryTypes, Keyed
      <3>2. \A s \in p + 1 .. lastSeq : \E e \in journal' : e.seq = s
        <4> TAKE s \in p + 1 .. lastSeq
        <4>1. PICK e \in journal : e.seq = s
          BY <2>4 DEF JournalInv
        <4>2. ~(e.seq <= p)
          BY <1>0, <4>1
        <4>3. ~e.posted
          BY <2>4, <4>2 DEF JournalInv
        <4> QED BY <2>1, <4>1, <4>3
      <3> QED BY <2>1, <2>4, <3>1, <3>2 DEF JournalInv
    <2> QED BY <2>1, <2>2, <2>3, <2>4, <2>5, <2>6 DEF FirstInv
  <1>6. CASE OnceEnd
    <2>1. snaps'[Len(snaps')] = snaps[Len(snaps)]
      BY <1>6, RetentionKeeps
    <2>2. mgr' = "idle" /\ past' = past /\ lastSeq' = lastSeq /\ batches' = batches /\ safe' = safe
      BY <1>6 DEF OnceEnd
    <2>3. ManagerInv'
      BY <1>0, <2>1, <2>2 DEF ManagerInv, Snapshotted, Top
    <2> QED BY <1>6, <2>3, FirstSame DEF OnceEnd
  <1>7. CASE OnceFails
    <2>1. ManagerInv'
      BY <1>0, <1>7 DEF OnceFails, ManagerInv, Snapshotted, Top
    <2> QED BY <1>7, <2>1, FirstSame DEF OnceFails
  <1>8. CASE DeleteJournalFails
    <2>1. ManagerInv'
      BY <1>0, <1>8 DEF DeleteJournalFails, ManagerInv, Snapshotted, Top
    <2> QED BY <1>8, <2>1, FirstSame DEF DeleteJournalFails
  <1>9. CASE RetentionFails
    <2>1. ManagerInv'
      BY <1>0, <1>9 DEF RetentionFails, ManagerInv, Snapshotted, Top
    <2> QED BY <1>9, <2>1, FirstSame DEF RetentionFails
  <1> QED BY <1>1, <1>2, <1>3, <1>4, <1>5, <1>6, <1>7, <1>8, <1>9 DEF OnceStep

\* Steps that leave all but the poster's list as it is.
LEMMA FirstIdle ==
  ASSUME RecoveryTypes, FirstInv, losses = 0,
         db' = db, past' = past, lastSeq' = lastSeq, journal' = journal,
         batches' = batches, snaps' = snaps, safe' = safe, lost' = lost,
         mgr' \notin {"vacuum", "upload"} \/ (mgr' = mgr /\ snap' = snap)
  PROVE  /\ HistoryInv' /\ BatchesInv' /\ ManagerInv' /\ ~lost'
         /\ \A e : Genuine(e) => Genuine(e)'
         /\ \A p : JournalInv(p) => JournalInv(p)'
         /\ pending' = <<>> /\ post' = "idle" => FirstInv'
  <1>1. HistoryInv' /\ BatchesInv' /\ ManagerInv' /\ ~lost'
    BY DEF FirstInv, HistoryInv, BatchesInv, ManagerInv, Snapshotted, Top
  <1>2. \A e : Genuine(e) => Genuine(e)'
    BY DEF Genuine
  <1>3. \A p : JournalInv(p) => JournalInv(p)'
    BY DEF JournalInv
  <1>4. ASSUME pending' = <<>>, post' = "idle"
        PROVE  FirstInv'
    <2>1. EntriesInv'
      BY <1>2, <1>4 DEF FirstInv, EntriesInv
    <2>2. \A p : PosterInv(p) => PosterInv(p)'
      BY <1>4 DEF PosterInv, Top
    <2> QED BY <1>1, <1>3, <2>1, <2>2 DEF FirstInv
  <1> QED BY <1>1, <1>2, <1>3, <1>4

LEMMA FirstDrain ==
  ASSUME RecoveryTypes, FirstInv, losses = 0, DrainBegin
  PROVE  FirstInv'
  <1>1. /\ db' = db /\ past' = past /\ lastSeq' = lastSeq /\ journal' = journal
        /\ batches' = batches /\ snaps' = snaps /\ safe' = safe /\ lost' = lost
        /\ mgr' = mgr /\ snap' = snap /\ pending' = Unposted /\ post' = "upload"
    BY DEF DrainBegin, channelVars, mgrVars, histVars, localVars
  <1>2. /\ HistoryInv' /\ BatchesInv' /\ ManagerInv' /\ ~lost'
        /\ \A e : Genuine(e) => Genuine(e)'
        /\ \A p : JournalInv(p) => JournalInv(p)'
    BY <1>1, FirstIdle
  <1> PICK u : u = Unposted
    OBVIOUS
  <1>3. /\ u \in RowLists
        /\ \A k \in 1..Len(u) : u[k] \in journal /\ ~u[k].posted
        /\ \A e \in journal : ~e.posted => \E k \in 1..Len(u) : u[k] = e
    BY UnpostedIs DEF RecoveryTypes
  <1>4. PICK p \in 0..lastSeq : JournalInv(p) /\ PosterInv(p)
    BY DEF FirstInv
  <1>5. lastSeq \in Nat /\ p \in Nat /\ p <= lastSeq
    BY <1>4 DEF RecoveryTypes
  <1>6. \A k \in 1..Len(u) : u[k].seq \in p + 1 .. lastSeq
    <2> TAKE k \in 1..Len(u)
    <2>1. u[k] \in journal /\ ~u[k].posted
      BY <1>3
    <2>2. ~(u[k].seq <= p) /\ u[k].seq \in 1..lastSeq
      BY <1>4, <2>1 DEF JournalInv, RecoveryTypes, Keyed
    <2> QED BY <1>5, <2>2
  <1>7. \A q \in p + 1 .. lastSeq : \E k \in 1..Len(u) : u[k].seq = q
    <2> TAKE q \in p + 1 .. lastSeq
    <2>1. PICK e \in journal : e.seq = q
      BY <1>4 DEF JournalInv
    <2>2. ~(e.seq <= p)
      BY <1>5, <2>1
    <2>3. ~e.posted
      BY <1>4, <2>2 DEF JournalInv
    <2> QED BY <1>3, <2>1, <2>3
  <1>8. (\A k \in 1..Len(u) : u[k].seq = p + k) /\ Len(u) = lastSeq - p
    BY <1>3, <1>5, <1>6, <1>7, ListsAll, ZenonT(60)
  <1>9. EntriesInv'
    BY <1>1, <1>2, <1>3 DEF FirstInv, EntriesInv
  <1>10. Top <= lastSeq
    <2>1. \A k \in 1..Len(batches[Len(batches)]) : batches[Len(batches)][k].seq \in 1..Len(past)
      BY BatchShapes DEF FirstInv, EntriesInv, Genuine
    <2>2. Len(batches[Len(batches)]) \in 1..Len(batches[Len(batches)])
      BY BatchShapes, OwnSeq
    <2>3. Top \in 1..Len(past) /\ Len(past) = lastSeq
      BY <2>1, <2>2 DEF Top, LastSeq, FirstInv, HistoryInv
    <2> QED BY <1>5, <2>3
  <1>11. PosterInv(p)'
    <2>1. Top <= p + Len(u)
      BY <1>5, <1>8, <1>10
    <2> QED BY <1>1, <1>4, <1>8, <2>1 DEF PosterInv, Top
  <1> QED BY <1>1, <1>2, <1>4, <1>9, <1>11 DEF FirstInv
LEMMA FirstUpload ==
  ASSUME RecoveryTypes, FirstInv, losses = 0, UploadJournalOpBatch
  PROVE  FirstInv'
  <1>1. /\ db' = db /\ past' = past /\ lastSeq' = lastSeq /\ journal' = journal
        /\ snaps' = snaps /\ safe' = safe /\ lost' = lost /\ mgr' = mgr /\ snap' = snap
        /\ pending' = pending /\ post = "upload" /\ post' = "mark" /\ batches' = Append(batches, Batch)
    BY DEF UploadJournalOpBatch, mgrVars, histVars, localVars
  <1>2. /\ HistoryInv /\ EntriesInv /\ BatchesInv /\ ManagerInv /\ ~lost
    BY DEF FirstInv
  <1>3. PICK p \in 0..lastSeq : JournalInv(p) /\ PosterInv(p)
    BY DEF FirstInv
  <1> PICK b, n, l, L : b = Batch /\ n = Len(b) /\ l = Len(pending) /\ L = Len(batches)
    OBVIOUS
  <1> PICK top : top = Top
    OBVIOUS
  <1>4. pending \in RowLists /\ pending # <<>> /\ batches \in Seq(Batches)
    BY <1>1 DEF RecoveryTypes
  <1>5. /\ n \in 1..l /\ n <= BatchSize /\ (n = BatchSize \/ n = l) /\ b \in Batches /\ l \in Nat
        /\ \A k \in 1..n : b[k] = pending[k] /\ k \in 1..l
    <2>1. l \in Nat
      BY <1>4 DEF RowLists
    <2>2. /\ n \in 1..l /\ n <= BatchSize /\ (n = BatchSize \/ n = l) /\ b \in Batches
          /\ \A k \in 1..n : b[k] = pending[k]
      BY <1>4, BatchIs
    <2> QED BY <2>1, <2>2
  <1>6. p \in Nat /\ lastSeq \in Nat /\ n \in Nat /\ n >= 1 /\ top \in Nat /\ L \in Nat /\ L >= 1
        /\ BatchSize \in Nat /\ safe \in Nat /\ snaps[Len(snaps)].seq \in Nat
    BY <1>5, BatchShapes, RecoveryAssumption
  <1>7. \A k \in 1..n : b[k].seq = p + k
    BY <1>3, <1>5 DEF PosterInv
  <1>8. FirstSeq(b) = p + 1 /\ LastSeq(b) = p + n /\ Consecutive(b)
    <2>1. 1 \in 1..n /\ n \in 1..n
      BY <1>6
    <2>2. b[1].seq = p + 1 /\ b[n].seq = p + n
      BY <1>7, <2>1
    <2>3. \A k \in 1..n : p + k = p + 1 + k - 1
      BY <1>6
    <2> QED BY <1>7, <2>2, <2>3 DEF FirstSeq, LastSeq, Consecutive
  <1>9. /\ Len(batches') = L + 1 /\ batches'[L + 1] = b
        /\ \A m \in 1..L : batches'[m] = batches[m]
        /\ \A m \in 1..L + 1 : m \in 1..L \/ m = L + 1
    BY <1>1, <1>4, <1>5, <1>6
  <1>10. Top' = p + n
    BY <1>8, <1>9 DEF Top
  <1>11. top <= p + n /\ p <= top
    <2>1. p <= top /\ top <= p + BatchSize /\ top <= p + l
      BY <1>1, <1>3 DEF PosterInv
    <2> QED BY <1>5, <1>6, <2>1
  <1>12. BatchesInv'
    <2>1. FirstSeq(batches'[1]) = 1
      BY <1>2, <1>6, <1>9 DEF BatchesInv
    <2>2. \A m \in 1..L + 1 : Consecutive(batches'[m]) /\ LastSeq(batches'[m]) <= p + n
      <3> TAKE m \in 1..L + 1
      <3>1. CASE m \in 1..L
        <4>1. batches[m] \in Batches
          BY <1>4, <3>1
        <4>2. Consecutive(batches[m]) /\ LastSeq(batches[m]) <= top /\ LastSeq(batches[m]) \in Nat
          BY <1>2, <3>1, <4>1, OwnSeq DEF BatchesInv, LastSeq
        <4> QED BY <1>6, <1>9, <1>11, <3>1, <4>2
      <3>2. CASE m = L + 1
        BY <1>6, <1>8, <1>9, <3>2
      <3> QED BY <1>9, <3>1, <3>2
    <2>3. \A m \in 1..L + 1 : \A s \in FirstSeq(batches'[m]) .. p + n :
            \E j \in m .. L + 1 : s \in FirstSeq(batches'[j]) .. LastSeq(batches'[j])
      <3> TAKE m \in 1..L + 1
      <3> TAKE s \in FirstSeq(batches'[m]) .. p + n
      <3>0. L + 1 \in m .. L + 1
        BY <1>6
      <3>1. CASE m = L + 1
        BY <1>8, <1>9, <3>0, <3>1
      <3>2. CASE m \in 1..L
        <4>1. batches[m] \in Batches /\ batches'[m] = batches[m] /\ FirstSeq(batches[m]) \in Nat
          <5>1. batches[m] \in Batches
            BY <1>4, <3>2
          <5> QED BY <1>9, <3>2, <5>1, OwnSeq DEF FirstSeq
        <4>2. s \in Nat /\ FirstSeq(batches[m]) <= s /\ s <= p + n
          BY <1>6, <4>1
        <4>3. CASE s <= top
          <5>1. s \in FirstSeq(batches[m]) .. top
            BY <1>6, <4>1, <4>2, <4>3
          <5>2. PICK j \in m..L : s \in FirstSeq(batches[j]) .. LastSeq(batches[j])
            BY <1>2, <3>2, <5>1 DEF BatchesInv
          <5>3. j \in 1..L /\ j \in m .. L + 1
            BY <1>6, <3>2
          <5> QED BY <1>9, <5>2, <5>3
        <4>4. CASE ~(s <= top)
          <5>1. s \in p + 1 .. p + n
            BY <1>6, <1>11, <4>2, <4>4
          <5> QED BY <1>8, <1>9, <3>0, <5>1
        <4> QED BY <4>3, <4>4
      <3> QED BY <1>9, <3>1, <3>2
    <2> QED BY <1>9, <1>10, <2>1, <2>2, <2>3 DEF BatchesInv
  <1>13. HistoryInv'
    BY <1>1, <1>2 DEF HistoryInv
  <1>14. EntriesInv'
    <2>1. \A e : Genuine(e) => Genuine(e)'
      BY <1>1 DEF Genuine
    <2>2. \A k \in 1..Len(b) : Genuine(b[k])
      BY <1>2, <1>5 DEF EntriesInv
    <2>3. \A m \in 1..L + 1 : \A k \in 1..Len(batches'[m]) : Genuine(batches'[m][k])
      BY <1>2, <1>9, <2>2 DEF EntriesInv
    <2> QED BY <1>1, <1>2, <1>9, <2>1, <2>3 DEF EntriesInv
  <1>15. ManagerInv'
    <2>1. safe < snaps[Len(snaps)].seq \/ safe < p + n
      <3>1. safe < snaps[Len(snaps)].seq \/ safe < top
        BY <1>2 DEF ManagerInv
      <3> QED BY <1>6, <1>11, <3>1
    <2> QED BY <1>1, <1>2, <1>10, <2>1 DEF ManagerInv, Snapshotted
  <1>16. JournalInv(p)'
    BY <1>1, <1>3 DEF JournalInv
  <1>17. PosterInv(p)'
    <2>1. batches'[Len(batches')] = Batch'
      BY <1>1, <1>9 DEF Batch
    <2>2. p <= p + n /\ p + n <= p + BatchSize
      BY <1>5, <1>6
    <2>3. \A k \in 1..Len(pending) : pending[k].seq = p + k
      BY <1>3 DEF PosterInv
    <2> QED BY <1>1, <1>10, <2>1, <2>2, <2>3 DEF PosterInv
  <1> QED BY <1>1, <1>2, <1>3, <1>12, <1>13, <1>14, <1>15, <1>16, <1>17 DEF FirstInv

LEMMA FirstMark ==
  ASSUME RecoveryTypes, RecoveryTypes', FirstInv, losses = 0, BatchMarkJournalPosted
  PROVE  FirstInv'
  <1>1. /\ db' = db /\ past' = past /\ lastSeq' = lastSeq /\ batches' = batches
        /\ snaps' = snaps /\ lost' = lost /\ mgr' = mgr /\ snap' = snap /\ post = "mark"
        /\ pending' = Rest /\ post' # "mark" /\ safe' = Larger(safe, Nth(Batch[Len(Batch)].seq))
    BY DEF BatchMarkJournalPosted, channelVars, mgrVars, AfterBatch
  <1>2. /\ HistoryInv /\ EntriesInv /\ BatchesInv /\ ManagerInv /\ ~lost
    BY DEF FirstInv
  <1>3. PICK p \in 0..lastSeq : JournalInv(p) /\ PosterInv(p)
    BY DEF FirstInv
  <1> PICK b, n, l : b = Batch /\ n = Len(b) /\ l = Len(pending)
    OBVIOUS
  <1> PICK top : top = Top
    OBVIOUS
  <1>4. pending \in RowLists /\ pending # <<>>
    BY <1>1 DEF RecoveryTypes
  <1>5. /\ n \in 1..l /\ n <= BatchSize /\ b \in Batches /\ l \in Nat
        /\ \A k \in 1..n : b[k] = pending[k] /\ k \in 1..l
        /\ Len(Rest) = l - n
        /\ \A k \in 1..l - n : Rest[k] = pending[n + k] /\ n + k \in 1..l
    <2>1. l \in Nat
      BY <1>4 DEF RowLists
    <2>2. /\ n \in 1..l /\ n <= BatchSize /\ b \in Batches
          /\ \A k \in 1..n : b[k] = pending[k]
          /\ Len(Rest) = l - n
          /\ \A k \in 1..l - n : Rest[k] = pending[n + k] /\ n + k \in 1..l
      BY <1>4, BatchIs
    <2>3. \A k \in 1..n : k \in 1..l
      BY <2>1, <2>2
    <2>4. \A k \in 1..n : b[k] = pending[k] /\ k \in 1..l
      BY <2>2, <2>3
    <2> QED BY <2>1, <2>2, <2>4
  <1>6. p \in Nat /\ lastSeq \in Nat /\ n \in Nat /\ n >= 1 /\ top \in Nat
        /\ BatchSize \in Nat /\ safe \in Nat /\ snaps[Len(snaps)].seq \in Nat
    BY <1>5, BatchShapes, RecoveryAssumption
  <1>7. \A k \in 1..n : b[k].seq = p + k
    BY <1>3, <1>5 DEF PosterInv
  <1>8. b[n].seq = p + n /\ top = p + n
    <2>1. n \in 1..n
      BY <1>6
    <2>2. b[n].seq = p + n /\ batches[Len(batches)] = b
      BY <1>1, <1>3, <1>7, <2>1 DEF PosterInv
    <2> QED BY <2>2 DEF Top, LastSeq
  <1>9. p + n \in 0..lastSeq
    <2>1. n \in 1..Len(pending) /\ pending[n].seq = p + n
      BY <1>3, <1>5 DEF PosterInv
    <2>2. pending[n].seq \in 1..Len(past) /\ Len(past) = lastSeq
      BY <1>2, <2>1 DEF EntriesInv, Genuine, HistoryInv
    <2> QED BY <1>6, <2>1, <2>2
  <1>10. \A s \in Nat : InBatch(s) <=> s \in p + 1 .. p + n
    <2> SUFFICES ASSUME NEW s \in Nat
                 PROVE  (\E k \in 1..n : b[k].seq = s) <=> s \in p + 1 .. p + n
      BY DEF InBatch
    <2>1. ASSUME NEW k \in 1..n, b[k].seq = s
          PROVE  s \in p + 1 .. p + n
      <3>1. s = p + k /\ k \in Nat /\ 1 <= k /\ k <= n
        BY <1>6, <1>7, <2>1
      <3> QED BY <1>6, <3>1
    <2>2. ASSUME s \in p + 1 .. p + n
          PROVE  \E k \in 1..n : b[k].seq = s
      <3> PICK k : k = s - p
        OBVIOUS
      <3>1. k \in 1..n /\ s = p + k
        BY <1>6, <2>2
      <3> QED BY <1>7, <3>1
    <2> QED BY <2>1, <2>2
  <1>11. \A f \in journal' : \E e \in journal :
              f.seq = e.seq /\ f.op = e.op /\ f.posted = (e.posted \/ InBatch(e.seq))
    BY MarkIs
  <1>12. \A e \in journal : \E f \in journal' :
              f.seq = e.seq /\ f.op = e.op /\ f.posted = (e.posted \/ InBatch(e.seq))
    BY MarkIs
  <1>13. JournalInv(p + n)'
    <2>1. IsFiniteSet(journal') /\ \A f, g \in journal' : f.seq = g.seq => f = g
      BY DEF RecoveryTypes, Keyed
    <2>2. \A f \in journal' : f.posted <=> f.seq <= p + n
      <3> TAKE f \in journal'
      <3>1. PICK e \in journal : f.seq = e.seq /\ f.posted = (e.posted \/ InBatch(e.seq))
        BY <1>11
      <3>2. e.seq \in Nat /\ e.seq \in 1..lastSeq /\ e.posted \in BOOLEAN /\ (e.posted <=> e.seq <= p)
        BY <1>3 DEF JournalInv, RecoveryTypes, Keyed, Rows
      <3>3. InBatch(e.seq) <=> e.seq \in p + 1 .. p + n
        BY <1>10, <3>2
      <3>4. (e.seq <= p \/ e.seq \in p + 1 .. p + n) <=> e.seq <= p + n
        BY <1>6, <3>2
      <3> QED BY <3>1, <3>2, <3>3, <3>4
    <2>3. \A s \in p + n + 1 .. lastSeq : \E f \in journal' : f.seq = s
      <3> TAKE s \in p + n + 1 .. lastSeq
      <3>1. s \in p + 1 .. lastSeq
        BY <1>6
      <3>2. PICK e \in journal : e.seq = s
        BY <1>3, <3>1 DEF JournalInv
      <3> QED BY <1>12, <3>2
    <2> QED BY <1>1, <1>9, <2>1, <2>2, <2>3 DEF JournalInv
  <1>14. PosterInv(p + n)'
    <2>1. \A k \in 1..l - n : Rest[k].seq = p + n + k
      <3> TAKE k \in 1..l - n
      <3>1. Rest[k] = pending[n + k] /\ n + k \in 1..Len(pending)
        BY <1>5
      <3>2. pending[n + k].seq = p + (n + k)
        BY <1>3, <3>1 DEF PosterInv
      <3> QED BY <1>5, <1>6, <3>1, <3>2
    <2>2. top <= p + n + BatchSize /\ p + n <= top /\ l - n \in Nat /\ top <= p + n + (l - n)
      BY <1>5, <1>6, <1>8
    <2> QED BY <1>1, <1>5, <2>1, <2>2 DEF PosterInv, Top
  <1>15. EntriesInv'
    <2>1. \A e : Genuine(e) => Genuine(e)'
      BY <1>1 DEF Genuine
    <2>2. \A f \in journal' : Genuine(f)
      BY <1>2, <1>11 DEF EntriesInv, Genuine
    <2>3. \A k \in 1..Len(Rest) : Genuine(Rest[k])
      BY <1>2, <1>5 DEF EntriesInv
    <2> QED BY <1>1, <1>2, <2>1, <2>2, <2>3 DEF EntriesInv
  <1>16. ManagerInv'
    <2>1. Nth(Batch[Len(Batch)].seq) = p + n - 1
      BY <1>2, <1>6, <1>8 DEF Nth, HistoryInv
    <2>2. safe' < snaps[Len(snaps)].seq \/ safe' < top
      <3>1. safe < snaps[Len(snaps)].seq \/ safe < top
        BY <1>2 DEF ManagerInv
      <3> QED BY <1>1, <1>6, <1>8, <2>1, <3>1 DEF Larger
    <2> QED BY <1>1, <1>2, <2>2 DEF ManagerInv, Snapshotted, Top
  <1>17. HistoryInv' /\ BatchesInv'
    BY <1>1, <1>2 DEF HistoryInv, BatchesInv, Top
  <1> QED BY <1>1, <1>2, <1>9, <1>13, <1>14, <1>15, <1>16, <1>17 DEF FirstInv

LEMMA FirstOther ==
  ASSUME RecoveryTypes, FirstInv,
         DrainFails \/ (\E gone \in BOOLEAN : Crash(gone)) \/ Mount \/ Recover \/ UNCHANGED vars
  PROVE  FirstInv'
  <1> USE DEF channelVars, mgrVars, postVars, histVars, localVars
  <1>1. CASE losses # 0
    <2>1. losses' # 0
      BY <1>1 DEF RecoveryTypes, DrainFails, Crash, Mount, Recover, vars
    <2> QED BY <2>1 DEF FirstInv
  <1>2. CASE losses = 0
    <2>1. CASE DrainFails
      BY <1>2, <2>1, FirstIdle DEF DrainFails
    <2>2. ASSUME NEW gone \in BOOLEAN, Crash(gone)
          PROVE  FirstInv'
      <3>1. CASE gone
        BY <1>2, <2>2, <3>1 DEF Crash, FirstInv
      <3>2. CASE ~gone
        <4>1. /\ db' = db /\ past' = past /\ lastSeq' = lastSeq /\ journal' = journal
              /\ batches' = batches /\ snaps' = snaps /\ safe' = safe
              /\ mgr' = "idle" /\ pending' = <<>> /\ post' = "idle"
          BY <2>2, <3>2 DEF Crash
        <4>2. lost = FALSE /\ lost' = FALSE
          <5>1. ~lost /\ lost \in BOOLEAN
            BY <1>2 DEF FirstInv, RecoveryTypes
          <5>2. gone = FALSE /\ lost' = gone
            BY <2>2, <3>2 DEF Crash
          <5> QED BY <5>1, <5>2
        <4>3. mgr' \notin {"vacuum", "upload"}
          BY <4>1
        <4> QED BY <1>2, <4>1, <4>2, <4>3, FirstIdle
      <3> QED BY <3>1, <3>2
    <2>3. CASE Mount
      <3>1. ManagerInv'
        BY <1>2, <2>3 DEF Mount, FirstInv, ManagerInv, Snapshotted, Top
      <3> QED BY <1>2, <2>3, <3>1, FirstSame DEF Mount
    <2>4. CASE Recover
      BY <1>2, <2>4 DEF Recover, FirstInv
    <2>5. CASE UNCHANGED vars
      <3>1. ManagerInv'
        BY <1>2, <2>5 DEF vars, FirstInv, ManagerInv, Snapshotted, Top
      <3> QED BY <1>2, <2>5, <3>1, FirstSame DEF vars
    <2> QED BY <2>1, <2>2, <2>3, <2>4, <2>5
  <1> QED BY <1>1, <1>2

LEMMA FirstNext ==
  ASSUME RecoveryTypes, RecoveryTypes', FirstInv, ~OpDuringTake, [Next]_vars
  PROVE  FirstInv'
  <1> USE DEF channelVars, mgrVars, postVars, histVars, localVars
  <1> DEFINE Manager == OnceStep \/ OnceFails \/ DeleteJournalFails \/ RetentionFails
  <1>1. CASE DrainFails \/ (\E gone \in BOOLEAN : Crash(gone)) \/ Mount \/ Recover \/ UNCHANGED vars
    BY <1>1, FirstOther
  <1>2. CASE FileStep
    <2>1. \/ \E o \in Ops : Commits(o)
          \/ \E i \in Inos : PutChunk(i)
      BY <1>2, FileStepIs DEF RecoveryTypes
    <2>2. losses' = losses
      BY <2>1 DEF Commits, Journaled, PutChunk
    <2> QED BY <2>1, <2>2, FirstCommit, FirstPut DEF FirstInv
  <1>3. CASE Manager
    <2>1. losses' = losses
      BY <1>3 DEF OnceStep, OnceBegin, Vacuum, UploadSnapshot, StoreCurrent, DeleteJournalUpTo,
                  OnceEnd, OnceFails, DeleteJournalFails, RetentionFails
    <2> QED BY <1>3, <2>1, FirstManager DEF FirstInv
  <1>4. CASE PostStep
    <2>1. losses' = losses
      BY <1>4 DEF PostStep, DrainBegin, UploadJournalOpBatch, BatchMarkJournalPosted
    <2> QED BY <1>4, <2>1, FirstDrain, FirstUpload, FirstMark DEF PostStep, FirstInv
  <1> QED BY <1>1, <1>2, <1>3, <1>4 DEF Next

\* No operation commits between Take's reading of the journal seq and its
\* VACUUM INTO.
QuietTake == ~OpDuringTake

\* tryRecover after the first loss of the local database, wherever it falls
\* between an upload and its bookkeeping, and however often batches were posted
\* twice, entries pruned, snapshots retired or processes killed before: every
\* entry it lists can be replayed, and the result is a state the file system
\* was in, none older than what the poster or the manager had recorded.  The
\* hypothesis is that no operation commits while a snapshot is taken (between
\* Take's reading of the journal seq and its VACUUM INTO).
THEOREM FirstLossIsRecovered ==
  ASSUME QuietTake
  PROVE  Spec => []FirstLossRecovers
  <1>1. RecoveryTypes /\ FirstInv => FirstLossRecovers
    BY RecoverableNow DEF FirstLossRecovers
  <1>2. RecoveryTypes /\ RecoveryTypes' /\ FirstInv /\ [Next]_vars => FirstInv'
    BY FirstNext DEF QuietTake
  <1> QED BY <1>1, <1>2, FirstInit, RecoveryKeepsTypes, PTL DEF Spec
=============================================================================
