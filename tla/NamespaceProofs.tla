--------------------------- MODULE NamespaceProofs ---------------------------
(***************************************************************************)
(* What the operations of Namespace do to a well-formed database, for any  *)
(* number of inodes and names.                                             *)
(***************************************************************************)
EXTENDS Namespace, FiniteSetTheorems, TLAPS

Databases == [kind : [Inos -> Kinds \cup {"none"}], nlink : [Inos -> Nat],
              size : [Inos -> 0..MaxSize], dirents : SUBSET Dirents,
              chunks : SUBSET Inos]

\* The dirents that name an inode.
LinksOf(d, i) == {e \in d.dirents : e.child = i}

\* dirents is finite and keyed by parent and name; what an entry names exists,
\* and its parent is a directory.
EntriesSound(d) ==
    /\ IsFiniteSet(d.dirents)
    /\ \A e, f \in d.dirents : e.parent = f.parent /\ e.name = f.name => e = f
    /\ \A e \in d.dirents : Exists(d, e.child) /\ d.kind[e.parent] = "dir"

\* The root is a directory without a name, other directories have one name.
DirsSound(d) ==
    /\ d.kind[RootIno] = "dir"
    /\ \A e \in d.dirents : e.child # RootIno
    /\ \A e, f \in d.dirents : d.kind[e.child] = "dir" /\ e.child = f.child => e = f

\* nlink counts names.
Counted(d) == \A i \in Inos \ {RootIno} : d.nlink[i] = Cardinality(LinksOf(d, i))

\* Every inode is reachable from the root.
Connected(d) == \A i \in Inos : Exists(d, i) => RootIno \in Ancestors(d, i)

\* chunk_map has rows of existing inodes only.
Owned(d) == \A i \in d.chunks : Exists(d, i)

WellFormed(d) == /\ d \in Databases
                 /\ EntriesSound(d) /\ DirsSound(d)
                 /\ Counted(d) /\ Connected(d) /\ Owned(d)

-----------------------------------------------------------------------------
(* Walking up *)

\* Reaching the root, by the sets that are closed under parents.
LEMMA ReachesRoot ==
  ASSUME NEW d, NEW i
  PROVE  RootIno \in Ancestors(d, i) <=>
           \A S \in SUBSET Inos : i \in S /\ Upward(d, S) => RootIno \in S
  BY NamespaceAssumption DEF Ancestors

\* An inode other than the root that exists has a name.
LEMMA HasName ==
  ASSUME NEW d, WellFormed(d), NEW i \in Inos, Exists(d, i), i # RootIno
  PROVE  \E e \in d.dirents : e.child = i
  <1> SUFFICES ASSUME \A e \in d.dirents : e.child # i
               PROVE  FALSE
    OBVIOUS
  <1>1. Upward(d, {i})
    BY DEF Upward
  <1> QED BY <1>1, ReachesRoot DEF WellFormed, Connected

\* More entries leave what reached the root reaching it.
LEMMA MoreEntries ==
  ASSUME NEW d, NEW b, NEW i, d.dirents \subseteq b.dirents, RootIno \in Ancestors(d, i)
  PROVE  RootIno \in Ancestors(b, i)
  <1>1. \A S : Upward(b, S) => Upward(d, S)
    BY DEF Upward
  <1> QED BY <1>1, ReachesRoot

\* So does the removal of a name of a childless inode for every other inode.
LEMMA LeafEntryGone ==
  ASSUME NEW d, NEW b, NEW c \in Inos, NEW i \in Inos, i # c,
         \A e \in d.dirents : e \in b.dirents \/ e.child = c,
         \A e \in d.dirents : e.parent # c,
         RootIno \in Ancestors(d, i)
  PROVE  RootIno \in Ancestors(b, i)
  <1> SUFFICES ASSUME NEW S \in SUBSET Inos, i \in S, Upward(b, S)
               PROVE  RootIno \in S
    BY ReachesRoot
  <1>1. Upward(d, S \ {c})
    BY DEF Upward
  <1>2. S \ {c} \in SUBSET Inos /\ i \in S \ {c}
    OBVIOUS
  <1> QED BY <1>1, <1>2, ReachesRoot

\* And so does moving an inode to a directory that is not below it.
LEMMA EntryMoved ==
  ASSUME NEW d, NEW b, NEW src \in Inos, NEW q \in Inos, NEW i \in Inos,
         \A e \in d.dirents : e \in b.dirents \/ e.child = src,
         \E e \in b.dirents : e.child = src /\ e.parent = q,
         NEW A \in SUBSET Inos, Upward(d, A), q \in A, src \notin A,
         RootIno \in Ancestors(d, i), RootIno \in Ancestors(d, q)
  PROVE  RootIno \in Ancestors(b, i)
  <1> SUFFICES ASSUME NEW S \in SUBSET Inos, i \in S, Upward(b, S)
               PROVE  RootIno \in S
    BY ReachesRoot
  <1>1. CASE src \notin S
    <2>1. Upward(d, S)
      BY <1>1 DEF Upward
    <2> QED BY <2>1, ReachesRoot
  <1>2. CASE src \in S
    <2>1. q \in S \cap A
      BY <1>2 DEF Upward
    <2>2. Upward(d, S \cap A)
      BY DEF Upward
    <2>3. S \cap A \in SUBSET Inos
      OBVIOUS
    <2> QED BY <2>1, <2>2, <2>3, ReachesRoot
  <1> QED BY <1>1, <1>2

-----------------------------------------------------------------------------
(* Lookup *)

\* Lookup finds the one entry with the key.
LEMMA LookupIs ==
  ASSUME NEW d, d \in Databases, EntriesSound(d), NEW p, NEW n
  PROVE  /\ ~Found(d, p, n) => Lookup(d, p, n) = 0
         /\ Found(d, p, n) => /\ Lookup(d, p, n) \in Inos /\ Lookup(d, p, n) # 0
                              /\ \E e \in d.dirents : /\ e.parent = p /\ e.name = n
                                                      /\ e.child = Lookup(d, p, n)
                                                      /\ At(d, p, n) = {e}
  <1>1. CASE ~Found(d, p, n)
    BY <1>1 DEF Lookup
  <1>2. CASE Found(d, p, n)
    <2>1. PICK e \in d.dirents : e.parent = p /\ e.name = n
      BY <1>2 DEF Found, At
    <2>2. At(d, p, n) = {e}
      BY <2>1 DEF At, EntriesSound
    <2>3. Lookup(d, p, n) = e.child
      BY <1>2, <2>2 DEF Lookup
    <2>4. e.child \in Inos /\ e.child # 0
      BY NamespaceAssumption DEF Databases, Dirents
    <2> QED BY <1>2, <2>1, <2>2, <2>3, <2>4
  <1> QED BY <1>1, <1>2

\* Finite sets of names.
LEMMA LinksFinite ==
  ASSUME NEW d, EntriesSound(d), NEW i
  PROVE  IsFiniteSet(LinksOf(d, i)) /\ Cardinality(LinksOf(d, i)) \in Nat
  <1>1. LinksOf(d, i) \in SUBSET d.dirents
    BY DEF LinksOf
  <1> QED BY <1>1, FS_Subset, FS_CardinalityType DEF EntriesSound

-----------------------------------------------------------------------------
(* Operations *)

\* The tables a Store starts with are well formed.
LEMMA EmptyWellFormed == WellFormed(EmptyDB)
  <1>1. /\ EmptyDB \in Databases /\ EmptyDB.dirents = {} /\ EmptyDB.chunks = {}
        /\ EmptyDB.kind = [i \in Inos |-> IF i = RootIno THEN "dir" ELSE "none"]
        /\ EmptyDB.nlink = [i \in Inos |-> IF i = RootIno THEN 1 ELSE 0]
    BY NamespaceAssumption DEF EmptyDB, Databases, Kinds
  <1>2. EntriesSound(EmptyDB) /\ DirsSound(EmptyDB) /\ Owned(EmptyDB)
    BY <1>1, FS_EmptySet, NamespaceAssumption DEF EntriesSound, DirsSound, Owned
  <1>3. Counted(EmptyDB)
    <2>1. \A i : LinksOf(EmptyDB, i) = {}
      BY <1>1 DEF LinksOf
    <2> QED BY <1>1, <2>1, FS_EmptySet DEF Counted
  <1>4. Connected(EmptyDB)
    <2>1. \A i \in Inos : Exists(EmptyDB, i) => i = RootIno
      BY <1>1 DEF Exists
    <2> QED BY <2>1, ReachesRoot DEF Connected
  <1> QED BY <1>1, <1>2, <1>3, <1>4 DEF WellFormed

\* CreateChild adds an inode with one name.
LEMMA CreatedWellFormed ==
  ASSUME NEW d, WellFormed(d), NEW p \in Inos, NEW n \in Names, NEW i \in Inos, NEW k \in Kinds,
         CreateError(d, OpCreate(p, n, i, k)) = "ok"
  PROVE  /\ WellFormed(Created(d, OpCreate(p, n, i, k)))
         /\ d.dirents \subseteq Created(d, OpCreate(p, n, i, k)).dirents
  <1> DEFINE b == Created(d, OpCreate(p, n, i, k))
             new == [parent |-> p, name |-> n, child |-> i]
  <1>1. Exists(d, p) /\ d.kind[p] = "dir" /\ ~Found(d, p, n) /\ ~Exists(d, i)
    BY DEF CreateError, ParentError, OpCreate
  <1>2. d \in Databases /\ new \in Dirents
    BY DEF WellFormed, Dirents
  <1>3. /\ b \in Databases
        /\ b.kind = [d.kind EXCEPT ![i] = k] /\ b.nlink = [d.nlink EXCEPT ![i] = 1]
        /\ b.dirents = d.dirents \cup {new} /\ b.chunks = d.chunks
    <2> DEFINE kind == [d.kind EXCEPT ![i] = k]
               nlink == [d.nlink EXCEPT ![i] = 1]
               size == [d.size EXCEPT ![i] = 0]
               dirents == d.dirents \cup {new}
    <2>1. b = [d EXCEPT !.kind = kind, !.nlink = nlink, !.size = size, !.dirents = dirents]
      BY <1>2 DEF Created, OpCreate, Databases
    <2>2. /\ kind \in [Inos -> Kinds \cup {"none"}] /\ nlink \in [Inos -> Nat]
          /\ size \in [Inos -> 0..MaxSize] /\ dirents \in SUBSET Dirents
      BY <1>2, NamespaceAssumption DEF Databases
    <2> HIDE DEF kind, nlink, size, dirents
    <2>3. /\ b \in Databases /\ b.kind = kind /\ b.nlink = nlink /\ b.dirents = dirents
          /\ b.chunks = d.chunks
      BY <1>2, <2>1, <2>2 DEF Databases
    <2> QED BY <2>3 DEF kind, nlink, dirents
  <1> HIDE DEF b
  <1>4. /\ \A j \in Inos : b.kind[j] = IF j = i THEN k ELSE d.kind[j]
        /\ \A j \in Inos : Exists(b, j) <=> Exists(d, j) \/ j = i
    BY <1>2, <1>3 DEF Databases, Exists, Kinds
  <1>5. /\ new.parent = p /\ new.name = n /\ new.child = i /\ i # p
        /\ \A e \in d.dirents : e.child # i /\ e.parent # i /\ e.child \in Inos /\ e.parent \in Inos
    BY <1>1, <1>2 DEF WellFormed, EntriesSound, Databases, Dirents, Exists
  <1> HIDE DEF new
  <1>6. EntriesSound(b)
    <2>1. IsFiniteSet(b.dirents)
      BY <1>3, FS_AddElement DEF WellFormed, EntriesSound
    <2>2. \A e, f \in b.dirents : e.parent = f.parent /\ e.name = f.name => e = f
      BY <1>1, <1>3, <1>5 DEF WellFormed, EntriesSound, Found, At
    <2>3. \A e \in b.dirents : Exists(b, e.child) /\ b.kind[e.parent] = "dir"
      BY <1>1, <1>3, <1>4, <1>5 DEF WellFormed, EntriesSound
    <2> QED BY <2>1, <2>2, <2>3 DEF EntriesSound
  <1>7. DirsSound(b)
    BY <1>1, <1>3, <1>4, <1>5, NamespaceAssumption DEF WellFormed, DirsSound, Exists
  <1>8. Counted(b)
    <2> SUFFICES ASSUME NEW j \in Inos \ {RootIno}
                 PROVE  b.nlink[j] = Cardinality(LinksOf(b, j))
      BY DEF Counted
    <2>1. CASE j = i
      <3>1. LinksOf(b, j) = {new}
        BY <1>3, <1>5, <2>1 DEF LinksOf
      <3> QED BY <1>2, <1>3, <2>1, <3>1, FS_Singleton DEF Databases
    <2>2. CASE j # i
      <3>1. LinksOf(b, j) = LinksOf(d, j)
        BY <1>3, <1>5, <2>2 DEF LinksOf
      <3> QED BY <1>2, <1>3, <2>2, <3>1 DEF Databases, WellFormed, Counted
    <2> QED BY <2>1, <2>2
  <1>9. Connected(b)
    <2>1. \A j \in Inos : Exists(d, j) => RootIno \in Ancestors(b, j)
      BY <1>3, MoreEntries DEF WellFormed, Connected
    <2>2. RootIno \in Ancestors(b, i)
      <3> SUFFICES ASSUME NEW S \in SUBSET Inos, i \in S, Upward(b, S)
                   PROVE  RootIno \in S
        BY ReachesRoot
      <3>1. p \in S
        BY <1>3, <1>5 DEF Upward
      <3> QED BY <1>1, <2>1, <3>1, ReachesRoot
    <2> QED BY <1>4, <2>1, <2>2 DEF Connected
  <1>10. Owned(b)
    BY <1>2, <1>3, <1>4 DEF WellFormed, Owned, Databases
  <1> QED BY <1>3, <1>6, <1>7, <1>8, <1>9, <1>10 DEF WellFormed, b

\* Link gives a file one more name.
LEMMA LinkedWellFormed ==
  ASSUME NEW d, WellFormed(d), NEW p \in Inos, NEW n \in Names, NEW t \in Inos,
         LinkError(d, OpLink(p, n, t)) = "ok"
  PROVE  /\ WellFormed(Linked(d, OpLink(p, n, t)))
         /\ d.dirents \subseteq Linked(d, OpLink(p, n, t)).dirents
  <1> DEFINE b == Linked(d, OpLink(p, n, t))
             new == [parent |-> p, name |-> n, child |-> t]
  <1>1. /\ Exists(d, p) /\ d.kind[p] = "dir" /\ ~Found(d, p, n)
        /\ Exists(d, t) /\ d.kind[t] # "dir"
    BY DEF LinkError, ParentError, OpLink, Linkable
  <1>2. d \in Databases /\ new \in Dirents /\ d.nlink[t] \in Nat
    BY DEF WellFormed, Dirents, Databases
  <1>3. /\ b \in Databases
        /\ b.kind = d.kind /\ b.nlink = [d.nlink EXCEPT ![t] = d.nlink[t] + 1]
        /\ b.dirents = d.dirents \cup {new} /\ b.chunks = d.chunks
    <2> DEFINE nlink == [d.nlink EXCEPT ![t] = d.nlink[t] + 1]
               dirents == d.dirents \cup {new}
    <2>1. b = [d EXCEPT !.nlink = nlink, !.dirents = dirents]
      BY <1>2 DEF Linked, OpLink, Databases
    <2>2. nlink \in [Inos -> Nat] /\ dirents \in SUBSET Dirents
      BY <1>2 DEF Databases
    <2> HIDE DEF nlink, dirents
    <2>3. /\ b \in Databases /\ b.kind = d.kind /\ b.nlink = nlink /\ b.dirents = dirents
          /\ b.chunks = d.chunks
      BY <1>2, <2>1, <2>2 DEF Databases
    <2> QED BY <2>3 DEF nlink, dirents
  <1> HIDE DEF b
  <1>4. \A j : Exists(b, j) <=> Exists(d, j)
    BY <1>3 DEF Exists
  <1>5. new.parent = p /\ new.name = n /\ new.child = t /\ new \notin d.dirents
    BY <1>1 DEF Found, At
  <1> HIDE DEF new
  <1>6. EntriesSound(b)
    <2>1. IsFiniteSet(b.dirents)
      BY <1>3, FS_AddElement DEF WellFormed, EntriesSound
    <2>2. \A e, f \in b.dirents : e.parent = f.parent /\ e.name = f.name => e = f
      BY <1>1, <1>3, <1>5 DEF WellFormed, EntriesSound, Found, At
    <2>3. \A e \in b.dirents : Exists(b, e.child) /\ b.kind[e.parent] = "dir"
      BY <1>1, <1>3, <1>4, <1>5 DEF WellFormed, EntriesSound
    <2> QED BY <2>1, <2>2, <2>3 DEF EntriesSound
  <1>7. DirsSound(b)
    BY <1>1, <1>3, <1>5 DEF WellFormed, DirsSound
  <1>8. Counted(b)
    <2> SUFFICES ASSUME NEW j \in Inos \ {RootIno}
                 PROVE  b.nlink[j] = Cardinality(LinksOf(b, j))
      BY DEF Counted
    <2>1. CASE j = t
      <3>1. LinksOf(b, j) = LinksOf(d, j) \cup {new} /\ new \notin LinksOf(d, j)
        BY <1>3, <1>5, <2>1 DEF LinksOf
      <3>2. Cardinality(LinksOf(b, j)) = Cardinality(LinksOf(d, j)) + 1
        BY <3>1, FS_AddElement, LinksFinite DEF WellFormed
      <3> QED BY <1>2, <1>3, <2>1, <3>2 DEF Databases, WellFormed, Counted
    <2>2. CASE j # t
      <3>1. LinksOf(b, j) = LinksOf(d, j)
        BY <1>3, <1>5, <2>2 DEF LinksOf
      <3> QED BY <1>2, <1>3, <2>2, <3>1 DEF Databases, WellFormed, Counted
    <2> QED BY <2>1, <2>2
  <1>9. Connected(b)
    BY <1>3, <1>4, MoreEntries DEF WellFormed, Connected
  <1>10. Owned(b)
    BY <1>3, <1>4 DEF WellFormed, Owned
  <1> QED BY <1>3, <1>6, <1>7, <1>8, <1>9, <1>10 DEF WellFormed, b

\* unlinkInTx takes one name, and the inode with its last.
LEMMA UnlinkedWellFormed ==
  ASSUME NEW d, WellFormed(d), NEW p, NEW n, Found(d, p, n),
         d.kind[Lookup(d, p, n)] = "dir" => ~HasChildren(d, Lookup(d, p, n))
  PROVE  LET b == Unlinked(d, p, n)
             c == Lookup(d, p, n)
         IN  /\ WellFormed(b)
             /\ b.dirents = d.dirents \ At(d, p, n)
             /\ \A j \in Inos \ {c} : b.kind[j] = d.kind[j]
             /\ c \in Inos
             /\ Exists(b, c) => b.kind[c] = d.kind[c]
  <1> DEFINE b == Unlinked(d, p, n)
             c == Lookup(d, p, n)
             last == d.nlink[c] = 1
  <1>1. d \in Databases /\ EntriesSound(d) /\ DirsSound(d) /\ Counted(d) /\ Connected(d) /\ Owned(d)
    BY DEF WellFormed
  <1>2. PICK gone \in d.dirents : /\ gone.parent = p /\ gone.name = n /\ gone.child = c
                                  /\ At(d, p, n) = {gone}
    BY <1>1, LookupIs
  <1>3. c \in Inos /\ c # RootIno /\ Exists(d, c)
    BY <1>1, <1>2 DEF Databases, Dirents, DirsSound, EntriesSound
  <1>4. /\ d.nlink[c] = Cardinality(LinksOf(d, c)) /\ gone \in LinksOf(d, c)
        /\ IsFiniteSet(LinksOf(d, c)) /\ d.nlink[c] \in Nat /\ d.nlink[c] # 0
    <2>1. d.nlink[c] = Cardinality(LinksOf(d, c)) /\ gone \in LinksOf(d, c)
      BY <1>1, <1>2, <1>3 DEF Counted, LinksOf
    <2> QED BY <1>1, <2>1, LinksFinite, FS_EmptySet
  <1>5. /\ b \in Databases
        /\ b.kind = [d.kind EXCEPT ![c] = IF last THEN "none" ELSE d.kind[c]]
        /\ b.nlink = [d.nlink EXCEPT ![c] = d.nlink[c] - 1]
        /\ b.dirents = d.dirents \ {gone}
        /\ b.chunks = IF last THEN d.chunks \ {c} ELSE d.chunks
    <2>1. d.nlink[c] - 1 \in Nat /\ 0 \in 0..MaxSize
      BY <1>4, NamespaceAssumption
    <2> DEFINE kind == [d.kind EXCEPT ![c] = IF last THEN "none" ELSE d.kind[c]]
               nlink == [d.nlink EXCEPT ![c] = d.nlink[c] - 1]
               size == [d.size EXCEPT ![c] = IF last THEN 0 ELSE d.size[c]]
               dirents == d.dirents \ {gone}
               chunks == IF last THEN d.chunks \ {c} ELSE d.chunks
    <2>2. b = [d EXCEPT !.kind = kind, !.nlink = nlink, !.size = size, !.dirents = dirents,
                        !.chunks = chunks]
      BY <1>1, <1>2 DEF Unlinked, Databases
    <2>3. /\ kind \in [Inos -> Kinds \cup {"none"}] /\ nlink \in [Inos -> Nat]
          /\ size \in [Inos -> 0..MaxSize] /\ dirents \in SUBSET Dirents /\ chunks \in SUBSET Inos
      BY <1>1, <1>3, <2>1 DEF Databases
    <2> HIDE DEF kind, nlink, size, dirents, chunks
    <2>4. /\ b \in Databases /\ b.kind = kind /\ b.nlink = nlink /\ b.dirents = dirents
          /\ b.chunks = chunks
      BY <1>1, <2>2, <2>3 DEF Databases
    <2> QED BY <2>4 DEF kind, nlink, dirents, chunks
  <1> HIDE DEF b, c
  <1>6. last => LinksOf(d, c) = {gone}
    <2> SUFFICES ASSUME last PROVE LinksOf(d, c) = {gone}
      OBVIOUS
    <2>1. PICK e : LinksOf(d, c) = {e}
      BY <1>4, FS_Singleton
    <2> QED BY <1>4, <2>1
  <1>7. /\ \A j \in Inos \ {c} : b.kind[j] = d.kind[j] /\ (Exists(b, j) <=> Exists(d, j))
        /\ b.kind[c] = IF last THEN "none" ELSE d.kind[c]
    BY <1>1, <1>3, <1>5 DEF Databases, Exists
  <1>8. /\ \A e \in d.dirents : e.parent # c
        /\ d.kind[c] = "dir" => last
    <2>1. \A e \in d.dirents : e.parent # c
      BY <1>1 DEF HasChildren, EntriesSound, c
    <2>2. ASSUME d.kind[c] = "dir" PROVE last
      <3>1. LinksOf(d, c) = {gone}
        BY <1>1, <1>2, <2>2 DEF DirsSound, LinksOf
      <3> QED BY <1>4, <3>1, FS_Singleton
    <2> QED BY <2>1, <2>2
  <1>9. EntriesSound(b)
    <2>1. IsFiniteSet(b.dirents)
      BY <1>1, <1>5, FS_RemoveElement DEF EntriesSound
    <2>2. ASSUME NEW e \in b.dirents PROVE Exists(b, e.child) /\ b.kind[e.parent] = "dir"
      <3>1. e \in d.dirents /\ e # gone /\ e.child \in Inos /\ e.parent \in Inos /\ e.parent # c
        BY <1>1, <1>5, <1>8, <2>2 DEF Databases, Dirents
      <3>2. e.child = c => ~last
        BY <1>6, <3>1 DEF LinksOf
      <3> QED BY <1>1, <1>3, <1>7, <3>1, <3>2 DEF EntriesSound, Exists
    <2> QED BY <1>1, <1>5, <2>1, <2>2 DEF EntriesSound
  <1>10. DirsSound(b)
    <2>1. b.kind[RootIno] = "dir"
      BY <1>1, <1>3, <1>7, NamespaceAssumption DEF DirsSound
    <2>2. \A e \in b.dirents : e \in d.dirents /\ (b.kind[e.child] = "dir" => d.kind[e.child] = "dir")
      BY <1>1, <1>5, <1>7 DEF Databases, Dirents
    <2> QED BY <1>1, <2>1, <2>2 DEF DirsSound
  <1>11. Counted(b)
    <2> SUFFICES ASSUME NEW j \in Inos \ {RootIno}
                 PROVE  b.nlink[j] = Cardinality(LinksOf(b, j))
      BY DEF Counted
    <2>1. CASE j = c
      <3>1. LinksOf(b, j) = LinksOf(d, j) \ {gone}
        BY <1>5 DEF LinksOf
      <3>2. Cardinality(LinksOf(b, j)) = Cardinality(LinksOf(d, j)) - 1
        BY <1>4, <2>1, <3>1, FS_RemoveElement
      <3> QED BY <1>1, <1>3, <1>4, <1>5, <2>1, <3>2 DEF Databases
    <2>2. CASE j # c
      <3>1. LinksOf(b, j) = LinksOf(d, j)
        BY <1>2, <1>5, <2>2 DEF LinksOf
      <3> QED BY <1>1, <1>5, <2>2, <3>1 DEF Databases, Counted
    <2> QED BY <2>1, <2>2
  <1>12. Connected(b)
    <2>1. \A e \in d.dirents : e \in b.dirents \/ e.child = c
      BY <1>2, <1>5
    <2>2. \A j \in Inos \ {c} : Exists(b, j) => RootIno \in Ancestors(b, j)
      BY <1>1, <1>3, <1>7, <1>8, <2>1, LeafEntryGone DEF Connected
    <2>3. ASSUME Exists(b, c) PROVE RootIno \in Ancestors(b, c)
      <3>1. ~last
        BY <1>7, <2>3 DEF Exists
      <3>2. PICK e \in LinksOf(d, c) : e # gone
        BY <1>4, <3>1, FS_Singleton
      <3>3. /\ e \in b.dirents /\ e.child = c
            /\ e.parent \in Inos \ {c} /\ Exists(b, e.parent)
        <4>1. e \in b.dirents /\ e.child = c /\ e.parent \in Inos \ {c} /\ d.kind[e.parent] = "dir"
          BY <1>1, <1>5, <1>8, <3>2 DEF LinksOf, Databases, Dirents, EntriesSound
        <4> QED BY <1>7, <4>1 DEF Exists
      <3> SUFFICES ASSUME NEW S \in SUBSET Inos, c \in S, Upward(b, S)
                   PROVE  RootIno \in S
        BY ReachesRoot
      <3>4. e.parent \in S
        BY <3>3 DEF Upward
      <3> QED BY <2>2, <3>3, <3>4, ReachesRoot
    <2> QED BY <2>2, <2>3 DEF Connected
  <1>13. Owned(b)
    BY <1>1, <1>3, <1>5, <1>7 DEF Owned, Databases, Exists
  <1>14. Exists(b, c) => b.kind[c] = d.kind[c]
    BY <1>7 DEF Exists
  <1>15. WellFormed(b) /\ b.dirents = d.dirents \ At(d, p, n)
    BY <1>2, <1>5, <1>9, <1>10, <1>11, <1>12, <1>13 DEF WellFormed
  <1> QED BY <1>3, <1>7, <1>14, <1>15 DEF b, c

\* The dirents of b are those of d with one moved, perhaps over another.
Moved(b, d, p, n, q, m) ==
    b.dirents = (d.dirents \ (At(d, q, m) \cup At(d, p, n)))
                  \cup {[parent |-> q, name |-> m, child |-> Lookup(d, p, n)]}

\* Rename moves a name, over one it may replace, and leaves the tree a tree.
LEMMA RenamedWellFormed ==
  ASSUME NEW d, WellFormed(d), NEW p, NEW n, NEW q \in Inos, NEW m \in Names,
         RenameError(d, OpRename(p, n, q, m)) = "ok"
  PROVE  /\ WellFormed(Renamed(d, OpRename(p, n, q, m)))
         /\ Moved(Renamed(d, OpRename(p, n, q, m)), d, p, n, q, m)
         /\ ~(p = q /\ n = m) /\ Found(d, p, n)
  <1> DEFINE src == Lookup(d, p, n)
             dst == Lookup(d, q, m)
             a == IF Found(d, q, m) THEN Unlinked(d, q, m) ELSE d
             b == Renamed(d, OpRename(p, n, q, m))
             new == [parent |-> q, name |-> m, child |-> src]
  <1>1. d \in Databases /\ EntriesSound(d)
    BY DEF WellFormed
  <1>2. /\ ~(p = q /\ n = m) /\ src # 0 /\ Exists(d, q) /\ d.kind[q] = "dir"
        /\ ~Cycle(d, src, q)
        /\ dst # 0 => /\ dst # src
                      /\ d.kind[dst] = "dir" => ~HasChildren(d, dst)
    BY DEF RenameError, ParentError, OpRename
  <1>3. PICK e0 \in d.dirents : /\ e0.parent = p /\ e0.name = n /\ e0.child = src
                                /\ At(d, p, n) = {e0}
    BY <1>1, <1>2, LookupIs
  <1>4. src \in Inos /\ Exists(d, src)
    BY <1>1, <1>3 DEF Databases, Dirents, EntriesSound
  <1>5. Found(d, q, m) => /\ dst \in Inos \ {src, q}
                          /\ d.kind[dst] = "dir" => ~HasChildren(d, dst)
    <2> SUFFICES ASSUME Found(d, q, m)
                 PROVE  dst \in Inos \ {src, q} /\ (d.kind[dst] = "dir" => ~HasChildren(d, dst))
      OBVIOUS
    <2>1. /\ dst \in Inos /\ dst # 0
          /\ \E e \in d.dirents : e.parent = q /\ e.child = dst
      BY <1>1, LookupIs
    <2>2. dst # q
      BY <1>2, <2>1 DEF HasChildren
    <2> QED BY <1>2, <2>1, <2>2
  <1>6. /\ WellFormed(a) /\ a.dirents = d.dirents \ At(d, q, m)
        /\ a.kind[q] = "dir" /\ Exists(a, src) /\ a.kind[src] = d.kind[src]
    <2>1. CASE Found(d, q, m)
      <3>1. /\ WellFormed(a) /\ a.dirents = d.dirents \ At(d, q, m)
            /\ \A j \in Inos \ {dst} : a.kind[j] = d.kind[j]
        BY <1>5, <2>1, UnlinkedWellFormed
      <3> HIDE DEF a, dst, src
      <3> QED BY <1>2, <1>4, <1>5, <2>1, <3>1 DEF Exists
    <2>2. CASE ~Found(d, q, m)
      BY <1>2, <1>4, <2>2 DEF Found
    <2> QED BY <2>1, <2>2
  <1> HIDE DEF a, src, dst
  <1>7. /\ e0 \in a.dirents
        /\ \A e \in a.dirents : e \in d.dirents /\ ~(e.parent = q /\ e.name = m)
    BY <1>2, <1>3, <1>6 DEF At
  <1>8. new \in Dirents /\ new.parent = q /\ new.name = m /\ new.child = src /\ new \notin a.dirents
    BY <1>4, <1>7 DEF Dirents
  <1>9. b = [a EXCEPT !.dirents = (a.dirents \ {e0}) \cup {new}]
    BY <1>3 DEF Renamed, OpRename, a, src
  <1>10. /\ b \in Databases /\ b.kind = a.kind /\ b.nlink = a.nlink /\ b.chunks = a.chunks
         /\ b.dirents = (a.dirents \ {e0}) \cup {new}
    <2>1. (a.dirents \ {e0}) \cup {new} \in SUBSET Dirents
      BY <1>6, <1>8 DEF WellFormed, Databases
    <2> HIDE DEF new
    <2> QED BY <1>6, <1>9, <2>1 DEF WellFormed, Databases
  <1> HIDE DEF b, new
  <1>11. \A j : Exists(b, j) <=> Exists(a, j)
    BY <1>10 DEF Exists
  <1>12. EntriesSound(a) /\ DirsSound(a) /\ Counted(a) /\ Connected(a) /\ Owned(a) /\ a \in Databases
    BY <1>6 DEF WellFormed
  <1>13. EntriesSound(b)
    <2>1. IsFiniteSet(b.dirents)
      <3>1. IsFiniteSet(a.dirents \ {e0})
        BY <1>12, FS_RemoveElement DEF EntriesSound
      <3> QED BY <1>10, <3>1, FS_AddElement
    <2>2. \A e, f \in b.dirents : e.parent = f.parent /\ e.name = f.name => e = f
      BY <1>7, <1>8, <1>10, <1>12 DEF EntriesSound
    <2>3. \A e \in b.dirents : Exists(b, e.child) /\ b.kind[e.parent] = "dir"
      BY <1>6, <1>8, <1>10, <1>11, <1>12 DEF EntriesSound
    <2> QED BY <2>1, <2>2, <2>3 DEF EntriesSound
  <1>14. DirsSound(b)
    BY <1>3, <1>7, <1>8, <1>10, <1>12 DEF DirsSound
  <1>15. Counted(b)
    <2> SUFFICES ASSUME NEW j \in Inos \ {RootIno}
                 PROVE  b.nlink[j] = Cardinality(LinksOf(b, j))
      BY DEF Counted
    <2>1. CASE j = src
      <3> DEFINE rest == LinksOf(a, j) \ {e0}
      <3>1. LinksOf(b, j) = rest \cup {new} /\ new \notin rest /\ e0 \in LinksOf(a, j)
        BY <1>3, <1>7, <1>8, <1>10, <2>1 DEF LinksOf
      <3>2. IsFiniteSet(LinksOf(a, j)) /\ Cardinality(LinksOf(a, j)) \in Nat
        BY <1>12, LinksFinite
      <3>3. IsFiniteSet(rest) /\ Cardinality(rest) = Cardinality(LinksOf(a, j)) - 1
        BY <3>1, <3>2, FS_RemoveElement
      <3> HIDE DEF rest
      <3>4. Cardinality(LinksOf(b, j)) = Cardinality(rest) + 1
        BY <3>1, <3>3, FS_AddElement
      <3> QED BY <1>10, <1>12, <3>2, <3>3, <3>4 DEF Counted
    <2>2. CASE j # src
      <3>1. LinksOf(b, j) = LinksOf(a, j)
        BY <1>3, <1>8, <1>10, <2>2 DEF LinksOf
      <3> QED BY <1>10, <1>12, <3>1 DEF Counted
    <2> QED BY <2>1, <2>2
  <1>16. Connected(b)
    <2>1. PICK A \in SUBSET Inos : Upward(a, A) /\ q \in A /\ src \notin A
      <3>1. CASE d.kind[src] = "dir"
        <4>1. src \notin Ancestors(d, q)
          BY <1>2, <3>1 DEF Cycle
        <4>2. PICK A \in SUBSET Inos : q \in A /\ Upward(d, A) /\ src \notin A
          BY <1>4, <4>1 DEF Ancestors
        <4>3. Upward(a, A)
          BY <1>7, <4>2 DEF Upward
        <4> QED BY <4>2, <4>3
      <3>2. CASE d.kind[src] # "dir"
        <4>1. Upward(a, Inos \ {src})
          BY <1>6, <1>12, <3>2 DEF Upward, EntriesSound, Databases, Dirents
        <4>2. q \in Inos \ {src} /\ src \notin Inos \ {src}
          BY <1>2, <3>2
        <4> QED BY <4>1, <4>2
      <3> QED BY <3>1, <3>2
    <2>2. \A e \in a.dirents : e \in b.dirents \/ e.child = src
      BY <1>3, <1>10
    <2>3. \E e \in b.dirents : e.child = src /\ e.parent = q
      BY <1>8, <1>10
    <2>4. RootIno \in Ancestors(a, q)
      BY <1>6, <1>12 DEF Connected, Exists
    <2> QED BY <1>4, <1>11, <1>12, <2>1, <2>2, <2>3, <2>4, EntryMoved DEF Connected
  <1>17. Owned(b)
    BY <1>10, <1>11, <1>12 DEF Owned
  <1>18. WellFormed(b)
    BY <1>10, <1>13, <1>14, <1>15, <1>16, <1>17 DEF WellFormed
  <1>19. b.dirents = (d.dirents \ (At(d, q, m) \cup At(d, p, n))) \cup {new}
    BY <1>3, <1>6, <1>10
  <1>20. Found(d, p, n)
    BY <1>3 DEF Found
  <1>21. Moved(b, d, p, n, q, m)
    BY <1>19 DEF Moved, new, src
  <1> QED BY <1>2, <1>18, <1>20, <1>21 DEF b

\* Sizes and rows of existing inodes leave names and inodes alone.
LEMMA ContentsWellFormed ==
  ASSUME NEW d, WellFormed(d), NEW b \in Databases,
         b.kind = d.kind, b.nlink = d.nlink, b.dirents = d.dirents,
         \A i \in b.chunks : Exists(d, i)
  PROVE  WellFormed(b)
  <1>1. \A i : Exists(b, i) <=> Exists(d, i)
    BY DEF Exists
  <1>2. \A i : LinksOf(b, i) = LinksOf(d, i)
    BY DEF LinksOf
  <1>3. EntriesSound(b) /\ DirsSound(b) /\ Owned(b)
    BY <1>1 DEF WellFormed, EntriesSound, DirsSound, Owned
  <1>4. Counted(b)
    BY <1>2 DEF WellFormed, Counted
  <1>5. Connected(b)
    BY <1>1, MoreEntries DEF WellFormed, Connected
  <1> QED BY <1>3, <1>4, <1>5 DEF WellFormed

-----------------------------------------------------------------------------
(* ReplayOp *)

\* A second ReplayOp right after the first finds the operation done, and
\* leaves the database as it is.
Idempotent(d, o) == LET b == Apply(d, o) IN Replayable(b, o) /\ Replay(b, o) = b

\* CreateChild: the name, and the inode, are there.
LEMMA CreateIdempotent ==
  ASSUME NEW d, WellFormed(d), NEW p \in Inos, NEW n \in Names, NEW i \in Inos, NEW k \in Kinds,
         Error(d, OpCreate(p, n, i, k)) = "ok"
  PROVE  Idempotent(d, OpCreate(p, n, i, k))
  <1> DEFINE o == OpCreate(p, n, i, k)
             b == Created(d, o)
             new == [parent |-> p, name |-> n, child |-> i]
  <1>1. /\ o.op = "create" /\ o.parent = p /\ o.name = n /\ o.ino = i
        /\ CreateError(d, o) = "ok" /\ Apply(d, o) = b
    BY DEF OpCreate, Error, Apply
  <1>2. WellFormed(b) /\ d \in Databases
    BY <1>1, CreatedWellFormed DEF WellFormed
  <1>3. Exists(d, p) /\ d.kind[p] = "dir" /\ ~Exists(d, i)
    BY <1>1 DEF CreateError, ParentError
  <1>4. /\ b.kind[p] = d.kind[p] /\ new \in b.dirents
        /\ new.parent = p /\ new.name = n
    BY <1>2, <1>3 DEF Created, OpCreate, Databases, Exists
  <1> HIDE DEF b, new
  <1>5. CreateError(b, o) = "exists"
    BY <1>1, <1>3, <1>4 DEF CreateError, ParentError, Exists, Found, At
  <1> HIDE DEF o
  <1>6. Error(b, o) = "exists"
    BY <1>1, <1>5 DEF Error
  <1>7. Tolerated(b, o) /\ Replay(b, o) = b
    BY <1>1, <1>6 DEF Tolerated, Replay
  <1> QED BY <1>1, <1>7 DEF Idempotent, Replayable, o

\* Link: the name is there.
LEMMA LinkIdempotent ==
  ASSUME NEW d, WellFormed(d), NEW p \in Inos, NEW n \in Names, NEW t \in Inos,
         Error(d, OpLink(p, n, t)) = "ok"
  PROVE  Idempotent(d, OpLink(p, n, t))
  <1> DEFINE o == OpLink(p, n, t)
             b == Linked(d, o)
             new == [parent |-> p, name |-> n, child |-> t]
  <1>1. /\ o.op = "link" /\ o.parent = p /\ o.name = n /\ o.target = t
        /\ LinkError(d, o) = "ok" /\ Apply(d, o) = b
    BY DEF OpLink, Error, Apply
  <1>2. d \in Databases
    BY DEF WellFormed
  <1>3. Exists(d, p) /\ d.kind[p] = "dir" /\ Exists(d, t) /\ d.kind[t] # "dir"
    BY <1>1 DEF LinkError, ParentError, Linkable
  <1>4. b.kind = d.kind /\ new \in b.dirents /\ new.parent = p /\ new.name = n
    BY <1>2 DEF Linked, OpLink, Databases
  <1> HIDE DEF b, new
  <1>5. LinkError(b, o) = "exists"
    BY <1>1, <1>3, <1>4 DEF LinkError, ParentError, Linkable, Exists, Found, At
  <1> HIDE DEF o
  <1>6. Error(b, o) = "exists"
    BY <1>1, <1>5 DEF Error
  <1>7. Tolerated(b, o) /\ Replay(b, o) = b
    BY <1>1, <1>6 DEF Tolerated, Replay
  <1> QED BY <1>1, <1>7 DEF Idempotent, Replayable, o

\* Unlink: the name is gone.
LEMMA UnlinkIdempotent ==
  ASSUME NEW d, WellFormed(d), NEW p, NEW n, Error(d, OpUnlink(p, n)) = "ok"
  PROVE  Idempotent(d, OpUnlink(p, n))
  <1> DEFINE o == OpUnlink(p, n)
             b == Unlinked(d, p, n)
  <1>1. /\ o.op = "unlink" /\ o.parent = p /\ o.name = n
        /\ UnlinkError(d, o) = "ok" /\ Apply(d, o) = b
    BY DEF OpUnlink, Error, Apply
  <1>2. b.dirents = d.dirents \ At(d, p, n)
    BY DEF Unlinked, WellFormed, Databases
  <1> HIDE DEF b
  <1>3. Lookup(b, p, n) = 0
    BY <1>2 DEF Lookup, Found, At
  <1>4. UnlinkError(b, o) = "notFound"
    BY <1>1, <1>3 DEF UnlinkError
  <1> HIDE DEF o
  <1>5. Error(b, o) = "notFound"
    BY <1>1, <1>4 DEF Error
  <1>6. Tolerated(b, o) /\ Replay(b, o) = b
    BY <1>1, <1>5 DEF Tolerated, Replay
  <1> QED BY <1>1, <1>6 DEF Idempotent, Replayable, o

\* Rename: the old name is gone and the new one is there.
LEMMA RenameIdempotent ==
  ASSUME NEW d, WellFormed(d), NEW p, NEW n, NEW q \in Inos, NEW m \in Names,
         Error(d, OpRename(p, n, q, m)) = "ok"
  PROVE  Idempotent(d, OpRename(p, n, q, m))
  <1> DEFINE o == OpRename(p, n, q, m)
             b == Renamed(d, o)
             new == [parent |-> q, name |-> m, child |-> Lookup(d, p, n)]
  <1>1. /\ o.op = "rename" /\ o.parent = p /\ o.name = n /\ o.newParent = q /\ o.newName = m
        /\ RenameError(d, o) = "ok" /\ Apply(d, o) = b
    BY DEF OpRename, Error, Apply
  <1>2. /\ b.dirents = (d.dirents \ (At(d, q, m) \cup At(d, p, n))) \cup {new}
        /\ ~(p = q /\ n = m)
    <2>1. RenameError(d, OpRename(p, n, q, m)) = "ok"
      BY <1>1
    <2>2. Moved(b, d, p, n, q, m) /\ ~(p = q /\ n = m)
      BY <2>1, RenamedWellFormed
    <2> HIDE DEF b
    <2> QED BY <2>2 DEF Moved
  <1>3. new.parent = q /\ new.name = m
    OBVIOUS
  <1> HIDE DEF b, new
  <1>4. Lookup(b, p, n) = 0 /\ Found(b, q, m)
    BY <1>2, <1>3 DEF Lookup, Found, At
  <1>5. RenameError(b, o) = "notFound"
    BY <1>1, <1>2, <1>4 DEF RenameError
  <1> HIDE DEF o
  <1>6. Error(b, o) = "notFound"
    BY <1>1, <1>5 DEF Error
  <1>7. Tolerated(b, o) /\ Replay(b, o) = b
    BY <1>1, <1>4, <1>6 DEF Tolerated, Replay
  <1> QED BY <1>1, <1>7 DEF Idempotent, Replayable, o

\* SetSize: the size is written again.
LEMMA SetSizeIdempotent ==
  ASSUME NEW d, WellFormed(d), NEW i \in Inos, NEW z, Error(d, OpSetSize(i, z)) = "ok"
  PROVE  Idempotent(d, OpSetSize(i, z))
  <1> DEFINE o == OpSetSize(i, z)
             b == [d EXCEPT !.size[i] = z]
  <1>1. /\ o.op = "setsize" /\ o.ino = i /\ o.size = z
        /\ Exists(d, i) /\ Apply(d, o) = b
    BY DEF OpSetSize, Error, Apply
  <1>2. b.kind = d.kind /\ [b EXCEPT !.size[i] = z] = b
    BY DEF WellFormed, Databases
  <1> HIDE DEF b, o
  <1>3. Error(b, o) = "ok"
    BY <1>1, <1>2 DEF Error, Exists
  <1>4. Replay(b, o) = b
    BY <1>1, <1>2, <1>3 DEF Replay, Apply
  <1> QED BY <1>1, <1>3, <1>4 DEF Idempotent, Replayable, o

=============================================================================
