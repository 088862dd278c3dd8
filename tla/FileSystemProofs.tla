-------------------------- MODULE FileSystemProofs --------------------------
(***************************************************************************)
(* The metadata store under the FUSE handlers, the trash and its collector *)
(* is always well formed, what rm moved to the trash stays until its TTL   *)
(* is over, and every operation may be replayed twice: for any number of   *)
(* inodes, names and events.                                               *)
(***************************************************************************)
EXTENDS FileSystem, NamespaceProofs, Integers

Picks == {NoPick} \cup {<<n>> : n \in Names}

\* The types of everything but the tables.
FSTypeOK ==
    /\ nextIno \in Inos
    /\ trashIno \in Inos \cup {0} /\ enabled \in BOOLEAN /\ clock \in 1..MaxClock
    /\ gc \in [running : BOOLEAN, cutoff : Int, todo : SUBSET Names, pick : Picks]
    /\ uploads \in SUBSET Inos /\ moves \in Nat /\ binned \in [Inos -> 0..MaxClock]

\* Every stamp is of the past.
StampsPast == \A e \in db.dirents : e.name \notin Given => e.name[1] < clock

\* A file that is in the trash and has not expired has the name that
\* MoveToTrash gave it last.
InTrash ==
    \A i \in Inos : binned[i] # 0 /\ clock < binned[i] + TTL =>
        \E e \in db.dirents : e.child = i /\ e.name \notin Given /\ e.name[1] = binned[i]

\* The collector's cutoff is a TTL ago or longer, and its pick is older.
GCSound ==
    /\ gc.running => gc.cutoff + TTL <= clock
    /\ gc.pick # NoPick => gc.running /\ Expired(gc.pick[1])

FSInv == WellFormed(db) /\ FSTypeOK /\ StampsPast /\ InTrash /\ GCSound

-----------------------------------------------------------------------------
(* Commits *)

\* The kinds of change a commit makes to the entries.
Adds(n) == /\ \A e \in db.dirents : e \in db'.dirents
           /\ \A e \in db'.dirents : e \in db.dirents \/ e.name = n
Drops(p, n) ==
    \A e : e \in db'.dirents <=> e \in db.dirents /\ ~(e.parent = p /\ e.name = n)

\* The entries under a key name what Lookup finds.
LEMMA KeyedByName ==
  ASSUME NEW d, WellFormed(d), NEW e \in d.dirents, NEW p, NEW n, e.parent = p, e.name = n
  PROVE  e.child = Lookup(d, p, n) /\ Found(d, p, n) /\ Lookup(d, p, n) \in Inos
  <1>1. Found(d, p, n) /\ e \in At(d, p, n)
    BY DEF Found, At
  <1>2. d \in Databases /\ EntriesSound(d)
    BY DEF WellFormed
  <1> QED BY <1>1, <1>2, LookupIs

\* CreateChild commits.
LEMMA CreateStep ==
  ASSUME WellFormed(db), nextIno \in Inos, NEW p \in Inos, NEW n \in Names, NEW k \in Kinds,
         CreateChild(p, n, k)
  PROVE  WellFormed(db') /\ nextIno' \in Inos /\ nextIno' = nextIno + 1 /\ Adds(n)
  <1> DEFINE o == OpCreate(p, n, nextIno + 1, k)
             new == [parent |-> p, name |-> n, child |-> nextIno + 1]
  <1>1. nextIno + 1 \in Inos /\ CreateError(db, o) = "ok" /\ db' = Created(db, o) /\ nextIno' = nextIno + 1
    BY DEF CreateChild, Commit, Error, Apply, OpCreate
  <1>2. WellFormed(db')
    BY <1>1, CreatedWellFormed
  <1>3. db'.dirents = db.dirents \cup {new} /\ new.name = n
    BY <1>1 DEF Created, OpCreate, WellFormed, Databases
  <1> QED BY <1>1, <1>2, <1>3 DEF Adds

\* Link commits.
LEMMA LinkStep ==
  ASSUME WellFormed(db), NEW p \in Inos, NEW n \in Names, NEW t \in Inos, Link(p, n, t)
  PROVE  WellFormed(db') /\ nextIno' = nextIno /\ Adds(n)
  <1> DEFINE o == OpLink(p, n, t)
             new == [parent |-> p, name |-> n, child |-> t]
  <1>1. LinkError(db, o) = "ok" /\ db' = Linked(db, o) /\ nextIno' = nextIno
    BY DEF Link, Commit, Error, Apply, OpLink
  <1>2. WellFormed(db')
    BY <1>1, LinkedWellFormed
  <1>3. db'.dirents = db.dirents \cup {new} /\ new.name = n
    BY <1>1 DEF Linked, OpLink, WellFormed, Databases
  <1> QED BY <1>1, <1>2, <1>3 DEF Adds

\* Unlink commits.
LEMMA UnlinkStep ==
  ASSUME WellFormed(db), NEW p, NEW n, Unlink(p, n)
  PROVE  WellFormed(db') /\ nextIno' = nextIno /\ Drops(p, n) /\ Lookup(db, p, n) \in Inos
  <1> DEFINE o == OpUnlink(p, n)
             c == Lookup(db, p, n)
  <1>1. /\ c # 0 /\ (db.kind[c] = "dir" => ~HasChildren(db, c))
        /\ db' = Unlinked(db, p, n) /\ nextIno' = nextIno
    BY DEF Unlink, Commit, Error, Apply, OpUnlink, UnlinkError
  <1>2. Found(db, p, n)
    BY <1>1 DEF Lookup
  <1>3. WellFormed(db') /\ db'.dirents = db.dirents \ At(db, p, n) /\ c \in Inos
    BY <1>1, <1>2, UnlinkedWellFormed
  <1> QED BY <1>1, <1>3 DEF Drops, At

\* Rename commits.
LEMMA RenameStep ==
  ASSUME WellFormed(db), NEW p, NEW n, NEW q \in Inos, NEW m \in Names, Rename(p, n, q, m)
  PROVE  /\ WellFormed(db') /\ nextIno' = nextIno /\ Found(db, p, n)
         /\ Moved(db', db, p, n, q, m)
  <1>1. /\ RenameError(db, OpRename(p, n, q, m)) = "ok"
        /\ db' = Renamed(db, OpRename(p, n, q, m)) /\ nextIno' = nextIno
    BY DEF Rename, Commit, Error, Apply, OpRename
  <1> QED BY <1>1, RenamedWellFormed

\* A row, a size: the names stay.
LEMMA ContentStep ==
  ASSUME WellFormed(db), NEW ch \in SUBSET Inos, NEW sz \in [Inos -> 0..MaxSize],
         db' = [db EXCEPT !.chunks = ch, !.size = sz], \A i \in ch : Exists(db, i)
  PROVE  WellFormed(db') /\ db'.dirents = db.dirents
  <1>1. /\ db' \in Databases /\ db'.kind = db.kind /\ db'.nlink = db.nlink
        /\ db'.dirents = db.dirents /\ db'.chunks = ch
    BY DEF WellFormed, Databases
  <1> HIDE DEF WellFormed
  <1>2. \A i \in db'.chunks : Exists(db, i)
    BY <1>1
  <1> QED BY <1>1, <1>2, ContentsWellFormed

-----------------------------------------------------------------------------
(* Steps *)

\* A stamped name is a pair of a time and a name.
LEMMA StampIsTime ==
  ASSUME NEW n \in Names, n \notin Given
  PROVE  n[1] \in 1..(MaxClock - 1) /\ n[1] \in Nat
  BY FileSystemAssumption DEF Stamped

\* A step that leaves the collector alone leaves it sound.
LEMMA GCSame ==
  ASSUME FSInv, FSTypeOK', gc' = gc, clock <= clock'
  PROVE  GCSound'
  <1>1. /\ gc.cutoff \in Int /\ clock \in Int /\ clock' \in Int /\ TTL \in Int
    BY FileSystemAssumption DEF FSInv, FSTypeOK
  <1> QED BY <1>1 DEF FSInv, GCSound, Expired

\* What a step has to do to keep the invariant: names it adds are not stamped,
\* and a name it takes away is of no file that still counts as in the trash.
LEMMA StepKeeps ==
  ASSUME FSInv, WellFormed(db'), FSTypeOK', GCSound', clock <= clock',
         \A i \in Inos : binned'[i] = 0 \/ binned'[i] = binned[i],
         \A e \in db'.dirents : e \in db.dirents \/ e.name \in Given,
         \A e \in db.dirents : \/ e \in db'.dirents \/ e.name \in Given
                                \/ binned'[e.child] = 0 \/ e.name[1] + TTL <= clock
  PROVE  FSInv'
  <1>1. /\ clock \in Int /\ clock' \in Int /\ TTL \in Int
        /\ \A i \in Inos : binned[i] \in Int /\ binned'[i] \in Int
        /\ \A e \in db.dirents : e.name \in Names /\ e.child \in Inos
    BY FileSystemAssumption DEF FSInv, FSTypeOK, WellFormed, Databases, Dirents
  <1>2. \A e \in db.dirents : e.name \notin Given => e.name[1] \in Int
    BY <1>1, StampIsTime
  <1>3. StampsPast'
    BY <1>1, <1>2 DEF FSInv, StampsPast, Given
  <1>4. InTrash'
    <2> SUFFICES ASSUME NEW i \in Inos, binned'[i] # 0, clock' < binned'[i] + TTL
                 PROVE  \E e \in db'.dirents : (e.child = i /\ e.name \notin Given
                                                  /\ e.name[1] = binned'[i])
      BY DEF InTrash, Given
    <2>1. binned'[i] = binned[i] /\ clock < binned[i] + TTL
      BY <1>1
    <2>2. PICK e \in db.dirents : e.child = i /\ e.name \notin Given /\ e.name[1] = binned[i]
      BY <2>1 DEF FSInv, InTrash
    <2>3. e \in db'.dirents
      BY <1>1, <2>1, <2>2
    <2> QED BY <2>1, <2>2, <2>3
  <1> QED BY <1>3, <1>4 DEF FSInv

\* The same, for a step that leaves tables, trash and clock alone.
LEMMA TablesSame ==
  ASSUME FSInv, db' = db, binned' = binned, FSTypeOK', GCSound', clock <= clock'
  PROVE  FSInv'
  BY StepKeeps DEF FSInv

\* A new name.
LEMMA AddKeeps ==
  ASSUME FSInv, WellFormed(db'), nextIno' \in Inos, NEW n \in Given, Adds(n),
         trashIno' = trashIno, enabled' \in BOOLEAN, UNCHANGED <<clock, gc, binned, uploads>>,
         moves' \in Nat
  PROVE  FSInv'
  <1>1. FSTypeOK' /\ clock <= clock'
    BY DEF FSInv, FSTypeOK
  <1>2. GCSound'
    BY <1>1, GCSame
  <1>3. /\ \A i \in Inos : binned'[i] = 0 \/ binned'[i] = binned[i]
        /\ \A e \in db'.dirents : e \in db.dirents \/ e.name \in Given
        /\ \A e \in db.dirents : e \in db'.dirents
    BY DEF Adds
  <1> QED BY <1>1, <1>2, <1>3, StepKeeps

\* A name less, of a file that no longer counts as in the trash.
LEMMA DropKeeps ==
  ASSUME FSInv, WellFormed(db'), nextIno' = nextIno, NEW p, NEW n, Drops(p, n),
         Unbin(Lookup(db, p, n)), UNCHANGED <<trashIno, enabled, clock, gc, moves, uploads>>
  PROVE  FSInv'
  <1>1. binned' \in [Inos -> 0..MaxClock] /\ binned \in [Inos -> 0..MaxClock]
    <2>1. binned \in [Inos -> 0..MaxClock] /\ 0 \in 0..MaxClock
      BY FileSystemAssumption DEF FSInv, FSTypeOK
    <2> QED BY <2>1 DEF Unbin
  <1>2. FSTypeOK' /\ clock <= clock'
    BY <1>1 DEF FSInv, FSTypeOK
  <1>3. GCSound'
    BY <1>2, GCSame
  <1>4. \A i \in Inos : binned'[i] = 0 \/ binned'[i] = binned[i]
    BY <1>1 DEF Unbin
  <1>5. \A e \in db'.dirents : e \in db.dirents
    BY DEF Drops
  <1>6. ASSUME NEW e \in db.dirents PROVE e \in db'.dirents \/ binned'[e.child] = 0
    <2>1. CASE e.parent = p /\ e.name = n
      <3>1. e.child = Lookup(db, p, n) /\ Lookup(db, p, n) \in Inos
        BY <2>1, KeyedByName DEF FSInv
      <3> QED BY <1>1, <3>1 DEF Unbin
    <2>2. CASE ~(e.parent = p /\ e.name = n)
      BY <2>2 DEF Drops
    <2> QED BY <2>1, <2>2
  <1> QED BY <1>2, <1>3, <1>4, <1>5, <1>6, StepKeeps

\* A rename takes what it moves, and what it replaces, out of the trash.
LEMMA RenameKeeps ==
  ASSUME FSInv, NEW p, NEW n, NEW q \in Inos, NEW m \in Given, NodeRename(p, n, q, m)
  PROVE  FSInv'
  <1> DEFINE src == Lookup(db, p, n)
             dst == Lookup(db, q, m)
             new == [parent |-> q, name |-> m, child |-> src]
  <1>1. m \in Names /\ WellFormed(db)
    BY FileSystemAssumption DEF FSInv
  <1>2. WellFormed(db') /\ nextIno' = nextIno /\ Moved(db', db, p, n, q, m)
    BY <1>1, RenameStep DEF NodeRename
  <1>3. /\ binned' = [i \in Inos |-> IF i \in {src, dst} THEN 0 ELSE binned[i]]
        /\ binned \in [Inos -> 0..MaxClock] /\ MaxClock \in Nat
    BY FileSystemAssumption DEF NodeRename, FSInv, FSTypeOK
  <1>4. binned' \in [Inos -> 0..MaxClock]
    BY <1>3
  <1>5. FSTypeOK' /\ clock <= clock' /\ gc' = gc
    BY <1>2, <1>4 DEF FSInv, FSTypeOK, NodeRename
  <1>6. GCSound'
    BY <1>5, GCSame
  <1>7. \A i \in Inos : binned'[i] = 0 \/ binned'[i] = binned[i]
    BY <1>3
  <1>8. \A e \in db'.dirents : e \in db.dirents \/ e.name \in Given
    <2>1. new.name = m
      OBVIOUS
    <2> HIDE DEF new, src
    <2>2. \A e \in db'.dirents : e \in db.dirents \/ e = new
      BY <1>2 DEF Moved, new, src
    <2> QED BY <2>1, <2>2
  <1>9. ASSUME NEW e \in db.dirents PROVE e \in db'.dirents \/ binned'[e.child] = 0
    <2>1. \/ e \in db'.dirents
          \/ (e.parent = p /\ e.name = n)
          \/ (e.parent = q /\ e.name = m)
      BY <1>2 DEF Moved, At
    <2>2. e.parent = p /\ e.name = n => e.child = src /\ src \in Inos
      BY <1>1, KeyedByName
    <2>3. e.parent = q /\ e.name = m => e.child = dst /\ dst \in Inos
      BY <1>1, KeyedByName
    <2> HIDE DEF src, dst
    <2> QED BY <1>3, <2>1, <2>2, <2>3
  <1> QED BY <1>2, <1>5, <1>6, <1>7, <1>8, <1>9, StepKeeps

\* rm with the trash on: the new name is the only one with its stamp.
LEMMA TrashKeeps ==
  ASSUME FSInv, NEW p, NEW n \in Given, Intercepted(p), MoveToTrash(p, n), uploads' = uploads
  PROVE  FSInv'
  <1> DEFINE c == Lookup(db, p, n)
             m == <<clock, n>>
             new == [parent |-> trashIno, name |-> m, child |-> c]
  <1>1. /\ clock \in Int /\ 1 <= clock /\ clock < MaxClock /\ TTL \in Nat /\ MaxClock \in Int
        /\ clock' = clock + 1 /\ trashIno \in Inos
    BY FileSystemAssumption DEF FSInv, FSTypeOK, MoveToTrash, Intercepted
  <1>2. m \in Names /\ m \notin Given /\ m[1] = clock
    <2>1. m \in Stamped
      BY <1>1 DEF Stamped
    <2> QED BY <2>1, FileSystemAssumption
  <1> HIDE DEF m
  <1>3. /\ WellFormed(db) /\ WellFormed(db') /\ nextIno' = nextIno
        /\ Moved(db', db, p, n, trashIno, m) /\ Found(db, p, n)
    BY <1>1, <1>2, RenameStep DEF FSInv, MoveToTrash, m
  <1>4. c \in Inos
    BY <1>3, KeyedByName DEF Found, At
  <1>5. /\ binned' = [binned EXCEPT ![c] = clock] /\ binned \in [Inos -> 0..MaxClock]
        /\ binned' \in [Inos -> 0..MaxClock]
    <2>1. binned \in [Inos -> 0..MaxClock] /\ clock \in 0..MaxClock
      BY <1>1 DEF FSInv, FSTypeOK
    <2>2. binned' = [binned EXCEPT ![c] = clock]
      BY DEF MoveToTrash
    <2> HIDE DEF c
    <2> QED BY <2>1, <2>2
  <1>6. FSTypeOK' /\ clock <= clock' /\ gc' = gc
    BY <1>1, <1>3, <1>5 DEF FSInv, FSTypeOK, MoveToTrash
  <1>7. GCSound'
    BY <1>6, GCSame
  <1>8. /\ \A e \in db.dirents : e.name # m
        /\ \A e \in db.dirents : e.name \notin Given => e.name[1] \in Int /\ e.name[1] < clock
    <2>1. \A e \in db.dirents : e.name \notin Given => e.name[1] \in Int /\ e.name[1] < clock
      BY <1>3, StampIsTime DEF FSInv, StampsPast, WellFormed, Databases, Dirents
    <2> QED BY <1>1, <1>2, <2>1
  <1> HIDE DEF c
  <1>9. new.name = m /\ new.child = c
    OBVIOUS
  <1>10. new \in db'.dirents /\ \A e \in db'.dirents : e \in db.dirents \/ e = new
    BY <1>3 DEF Moved, c
  <1> HIDE DEF new
  <1>11. \A e \in db.dirents : e \in db'.dirents \/ e.child = c
    <2> SUFFICES ASSUME NEW e \in db.dirents, e \notin db'.dirents
                 PROVE  e.child = c
      OBVIOUS
    <2>1. e.parent = p /\ e.name = n
      BY <1>3, <1>8 DEF Moved, At
    <2> QED BY <1>3, <2>1, KeyedByName DEF c
  <1>12. StampsPast'
    BY <1>1, <1>2, <1>8, <1>9, <1>10 DEF StampsPast, Given
  <1>13. InTrash'
    <2> SUFFICES ASSUME NEW i \in Inos, binned'[i] # 0, clock' < binned'[i] + TTL
                 PROVE  \E e \in db'.dirents : (e.child = i /\ e.name \notin Given
                                                  /\ e.name[1] = binned'[i])
      BY DEF InTrash, Given
    <2>1. CASE i = c
      BY <1>2, <1>4, <1>5, <1>9, <1>10, <2>1
    <2>2. CASE i # c
      <3>1. binned'[i] = binned[i] /\ clock < binned[i] + TTL
        BY <1>1, <1>5, <2>2
      <3>2. PICK e \in db.dirents : e.child = i /\ e.name \notin Given /\ e.name[1] = binned[i]
        BY <3>1 DEF FSInv, InTrash
      <3> QED BY <1>11, <2>2, <3>1, <3>2
    <2> QED BY <2>1, <2>2
  <1> QED BY <1>3, <1>6, <1>7, <1>12, <1>13 DEF FSInv

\* A directory handler keeps the invariant.
LEMMA DirectoryKeeps ==
  ASSUME FSInv, DirectoryNext
  PROVE  FSInv'
  <1>1. /\ WellFormed(db) /\ db.dirents \in SUBSET Dirents /\ nextIno \in Inos /\ moves \in Nat
        /\ Plain \subseteq Given /\ Given \subseteq Names /\ enabled \in BOOLEAN
    BY FileSystemAssumption DEF FSInv, FSTypeOK, WellFormed, Databases, Given
  <1>2. CASE \E p \in Dirs, n \in Plain : NodeMkdir(p, n) \/ NodeCreate(p, n)
    <2>1. PICK p \in Dirs, n \in Plain : NodeMkdir(p, n) \/ NodeCreate(p, n)
      BY <1>2
    <2>2. PICK k \in Kinds : CreateChild(p, n, k)
      BY <2>1 DEF NodeMkdir, NodeCreate, Kinds
    <2>3. p \in Inos /\ n \in Names /\ n \in Given
      BY <1>1 DEF Dirs
    <2>4. WellFormed(db') /\ nextIno' \in Inos /\ Adds(n)
      BY <1>1, <2>2, <2>3, CreateStep
    <2>5. UNCHANGED <<trashIno, enabled, clock, gc, moves, binned, uploads>>
      BY <2>1 DEF NodeMkdir, NodeCreate, trashVars
    <2> QED BY <1>1, <2>3, <2>4, <2>5, AddKeeps
  <1>3. CASE \E p \in Dirs, n \in Plain : \E t \in Files \cup Dirs : NodeLink(p, n, t)
    <2>1. PICK p \in Dirs, n \in Plain : \E t \in Files \cup Dirs : NodeLink(p, n, t)
      BY <1>3
    <2>2. PICK t \in Files \cup Dirs : NodeLink(p, n, t)
      BY <2>1
    <2>3. p \in Inos /\ n \in Names /\ n \in Given /\ t \in Inos
      BY <1>1 DEF Dirs, Files
    <2>4. WellFormed(db') /\ nextIno' = nextIno /\ Adds(n)
      BY <1>1, <2>2, <2>3, LinkStep DEF NodeLink
    <2>5. moves' \in Nat /\ UNCHANGED <<trashIno, enabled, clock, gc, binned, uploads>>
      BY <1>1, <2>2 DEF NodeLink
    <2> QED BY <1>1, <2>3, <2>4, <2>5, AddKeeps
  <1>4. CASE \E e \in db.dirents : NodeUnlink(e.parent, e.name) \/ NodeRmdir(e.parent, e.name)
    <2>1. PICK e \in db.dirents : NodeUnlink(e.parent, e.name) \/ NodeRmdir(e.parent, e.name)
      BY <1>4
    <2> DEFINE p == e.parent
               n == e.name
    <2>2. Remove(p, n) /\ uploads' = uploads
      BY <2>1 DEF NodeUnlink, NodeRmdir
    <2> HIDE DEF p, n
    <2>3. CASE Intercepted(p) /\ n \in Given /\ MoveToTrash(p, n)
      BY <2>2, <2>3, TrashKeeps
    <2>4. CASE /\ Unlink(p, n) /\ Unbin(Lookup(db, p, n))
               /\ UNCHANGED <<trashIno, enabled, clock, gc, moves>>
      <3>1. WellFormed(db') /\ nextIno' = nextIno /\ Drops(p, n)
        BY <1>1, <2>4, UnlinkStep
      <3> QED BY <2>2, <2>4, <3>1, DropKeeps
    <2> QED BY <2>2, <2>3, <2>4 DEF Remove
  <1>5. CASE \E e \in db.dirents : \E q \in Dirs, m \in Given : NodeRename(e.parent, e.name, q, m)
    <2>1. PICK e \in db.dirents, q \in Dirs, m \in Given : NodeRename(e.parent, e.name, q, m)
      BY <1>5
    <2>2. q \in Inos
      BY DEF Dirs
    <2> QED BY <2>1, <2>2, RenameKeeps
  <1> QED BY <1>2, <1>3, <1>4, <1>5 DEF DirectoryNext

\* So does what a file's handlers leave in the tables.
LEMMA FileKeeps ==
  ASSUME FSInv, NEW i \in Inos, HandleFlush(i) \/ UploadLands(i) \/ Truncate(i)
  PROVE  FSInv'
  <1>1. /\ WellFormed(db) /\ nextIno' = nextIno /\ uploads' \in SUBSET Inos
        /\ UNCHANGED <<trashIno, enabled, clock, gc, moves, binned>>
    BY DEF FSInv, FSTypeOK, HandleFlush, UploadLands, Truncate, trashVars, SetSize, PutChunk, storeVars
  <1>2. WellFormed(db') /\ db'.dirents = db.dirents
    <2>1. /\ db.chunks \in SUBSET Inos /\ db.size \in [Inos -> 0..MaxSize]
          /\ db = [db EXCEPT !.chunks = db.chunks, !.size = db.size]
          /\ \A j \in db.chunks : Exists(db, j)
      BY <1>1 DEF WellFormed, Databases, Owned
    <2>2. CASE HandleFlush(i)
      <3> DEFINE sz == [db.size EXCEPT ![i] = 1]
      <3>1. db' = [db EXCEPT !.chunks = db.chunks, !.size = sz]
        BY <1>1, <2>2 DEF HandleFlush, SetSize, Commit, Apply, OpSetSize, WellFormed, Databases
      <3>2. sz \in [Inos -> 0..MaxSize]
        BY <2>1, FileSystemAssumption
      <3> HIDE DEF sz
      <3> QED BY <1>1, <2>1, <3>1, <3>2, ContentStep
    <2>3. CASE UploadLands(i) /\ db' = db
      BY <1>1, <2>3
    <2>4. CASE PutChunk(i)
      <3> DEFINE ch == db.chunks \cup {i}
      <3>1. /\ db' = [db EXCEPT !.chunks = ch, !.size = db.size]
            /\ Exists(db, i)
        BY <1>1, <2>4 DEF PutChunk, WellFormed, Databases
      <3>2. ch \in SUBSET Inos /\ \A j \in ch : Exists(db, j)
        BY <2>1, <3>1
      <3> HIDE DEF ch
      <3> QED BY <1>1, <2>1, <3>1, <3>2, ContentStep
    <2>5. CASE Truncate(i)
      <3> DEFINE ch == db.chunks \ {i}
                 sz == [db.size EXCEPT ![i] = 0]
      <3>1. db' = [db EXCEPT !.chunks = ch, !.size = sz]
        BY <1>1, <2>5 DEF Truncate, WellFormed, Databases
      <3>2. /\ ch \in SUBSET Inos /\ sz \in [Inos -> 0..MaxSize]
            /\ \A j \in ch : Exists(db, j)
        BY <2>1, FileSystemAssumption
      <3> HIDE DEF ch, sz
      <3> QED BY <1>1, <3>1, <3>2, ContentStep
    <2> QED BY <2>2, <2>3, <2>4, <2>5 DEF UploadLands, storeVars
  <1>3. FSTypeOK' /\ clock <= clock'
    BY <1>1 DEF FSInv, FSTypeOK
  <1>4. GCSound'
    BY <1>1, <1>3, GCSame
  <1>5. /\ \A j \in Inos : binned'[j] = binned[j]
        /\ \A e \in db'.dirents : e \in db.dirents
        /\ \A e \in db.dirents : e \in db'.dirents
    BY <1>1, <1>2
  <1> QED BY <1>2, <1>3, <1>4, <1>5, StepKeeps

\* So do the trash commands, the clock and a new mount.
LEMMA TrashCommandKeeps ==
  ASSUME FSInv, TrashEnable \/ TrashDisable \/ TrashEmpty \/ Mount \/ Tick
  PROVE  FSInv'
  <1>1. /\ WellFormed(db) /\ nextIno \in Inos /\ moves \in Nat /\ RootIno \in Inos
        /\ TrashName \in Given /\ TrashName \in Names /\ clock \in 1..MaxClock
    BY FileSystemAssumption, NamespaceAssumption DEF FSInv, FSTypeOK, Given
  <1>2. ASSUME NEW t, EnsureRootDir(t)
        PROVE  \/ db' = db /\ nextIno' = nextIno
               \/ WellFormed(db') /\ nextIno' \in Inos /\ Adds(TrashName)
    <2>1. CASE UNCHANGED storeVars
      BY <2>1 DEF storeVars
    <2>2. CASE CreateChild(RootIno, TrashName, "dir")
      BY <1>1, <2>2, CreateStep DEF Kinds
    <2> QED BY <1>2, <2>1, <2>2 DEF EnsureRootDir
  <1>3. CASE TrashEnable
    <2>1. PICK t \in Inos \cup {0} : EnsureRootDir(t)
      BY <1>3 DEF TrashEnable
    <2>2. enabled' \in BOOLEAN /\ UNCHANGED <<trashIno, clock, gc, binned, moves, uploads>>
      BY <1>3 DEF TrashEnable
    <2>3. CASE db' = db /\ nextIno' = nextIno
      <3>1. FSTypeOK' /\ clock <= clock'
        BY <1>1, <2>2, <2>3 DEF FSInv, FSTypeOK
      <3> QED BY <2>2, <2>3, <3>1, GCSame, TablesSame
    <2>4. CASE WellFormed(db') /\ nextIno' \in Inos /\ Adds(TrashName)
      BY <1>1, <2>2, <2>4, AddKeeps
    <2> QED BY <1>2, <2>1, <2>3, <2>4
  <1>4. CASE TrashDisable
    <2>1. /\ enabled' \in BOOLEAN /\ UNCHANGED <<db, nextIno>>
          /\ UNCHANGED <<trashIno, clock, gc, binned, moves, uploads>>
      BY <1>4 DEF TrashDisable, storeVars
    <2>2. FSTypeOK' /\ clock <= clock'
      BY <1>1, <2>1 DEF FSInv, FSTypeOK
    <2> QED BY <2>1, <2>2, GCSame, TablesSame
  <1>5. CASE TrashEmpty
    <2> DEFINE t == Lookup(db, RootIno, TrashName)
    <2>1. PICK e \in Entries(t) : /\ Unlink(t, e.name) /\ Unbin(e.child)
                                   /\ UNCHANGED <<trashIno, enabled, clock, gc, moves, uploads>>
      BY <1>5 DEF TrashEmpty
    <2>2. WellFormed(db') /\ nextIno' = nextIno /\ Drops(t, e.name)
      BY <1>1, <2>1, UnlinkStep
    <2>3. e.child = Lookup(db, t, e.name)
      BY <1>1, KeyedByName DEF Entries
    <2> HIDE DEF t
    <2> QED BY <2>1, <2>2, <2>3, DropKeeps
  <1>6. CASE Mount
    <2>1. /\ gc' = NoGC /\ UNCHANGED <<enabled, clock, binned, moves, uploads>>
          /\ trashIno' \in Inos \cup {0}
          /\ \/ db' = db /\ nextIno' = nextIno
             \/ WellFormed(db') /\ nextIno' \in Inos /\ Adds(TrashName)
      <3>1. CASE enabled
        <4>1. PICK t \in Inos : EnsureRootDir(t) /\ trashIno' = t
          BY <1>6, <3>1 DEF Mount
        <4> QED BY <1>2, <1>6, <4>1 DEF Mount
      <3>2. CASE ~enabled
        BY <1>6, <3>2 DEF Mount, storeVars
      <3> QED BY <3>1, <3>2
    <2>2. NoGC \in [running : BOOLEAN, cutoff : Int, todo : SUBSET Names, pick : Picks]
      BY DEF NoGC, Picks
    <2>3. FSTypeOK' /\ clock <= clock'
      BY <1>1, <2>1, <2>2 DEF FSInv, FSTypeOK
    <2>4. GCSound'
      BY <2>1 DEF GCSound, NoGC
    <2>5. CASE db' = db
      BY <2>1, <2>3, <2>4, <2>5, TablesSame
    <2>6. CASE WellFormed(db') /\ Adds(TrashName)
      <3>1. /\ \A e \in db'.dirents : e \in db.dirents \/ e.name \in Given
            /\ \A e \in db.dirents : e \in db'.dirents
            /\ \A i \in Inos : binned'[i] = binned[i]
        BY <1>1, <2>1, <2>6 DEF Adds
      <3> QED BY <2>3, <2>4, <2>6, <3>1, StepKeeps
    <2> QED BY <2>1, <2>5, <2>6
  <1>7. CASE Tick
    <2>1. FSTypeOK' /\ clock <= clock' /\ db' = db /\ gc' = gc /\ binned' = binned
      BY <1>1, <1>7, FileSystemAssumption DEF FSInv, FSTypeOK, Tick, storeVars
    <2> QED BY <2>1, GCSame, TablesSame
  <1> QED BY <1>3, <1>4, <1>5, <1>6, <1>7

\* The collector keeps it: what it unlinks was in the trash for a TTL.
LEMMA CollectorKeeps ==
  ASSUME FSInv, GCStart \/ GCVisit \/ GCUnlink \/ GCEnd
  PROVE  FSInv'
  <1> DEFINE GCs == [running : BOOLEAN, cutoff : Int, todo : SUBSET Names, pick : Picks]
  <1>1. /\ UNCHANGED <<trashIno, enabled, clock, binned, moves, uploads>>
        /\ nextIno' = nextIno /\ clock \in Int /\ TTL \in Int /\ gc \in GCs /\ WellFormed(db)
        /\ clock <= clock'
    <2>1. UNCHANGED <<trashIno, enabled, clock, binned, moves, uploads>> /\ nextIno' = nextIno
      BY DEF GCStart, GCVisit, GCUnlink, GCEnd, storeVars, Unlink
    <2>2. clock \in Int /\ TTL \in Int /\ gc \in GCs /\ WellFormed(db)
      BY FileSystemAssumption DEF FSInv, FSTypeOK
    <2> QED BY <2>1, <2>2
  <1>2. ASSUME gc' \in GCs PROVE FSTypeOK'
    BY <1>1, <1>2 DEF FSInv, FSTypeOK
  <1>3. CASE GCStart
    <2> DEFINE todo == {e.name : e \in Entries(trashIno)}
    <2>1. todo \in SUBSET Names
      BY <1>1 DEF WellFormed, Databases, Dirents, Entries
    <2> HIDE DEF todo
    <2>2. /\ gc' = [running |-> TRUE, cutoff |-> clock - TTL, todo |-> todo, pick |-> NoPick]
          /\ db' = db /\ binned' = binned
      BY <1>3 DEF GCStart, storeVars, todo
    <2>3. gc' \in GCs /\ GCSound'
      BY <1>1, <2>1, <2>2 DEF GCSound, Picks
    <2> QED BY <1>1, <1>2, <2>2, <2>3, TablesSame
  <1>4. CASE GCVisit
    <2>1. PICK n \in gc.todo :
            gc' = [gc EXCEPT !.todo = @ \ {n},
                             !.pick = IF \/ ~Expired(n) \/ Lookup(db, trashIno, n) = 0
                                         \/ HasChildren(db, Lookup(db, trashIno, n))
                                      THEN NoPick ELSE <<n>>]
      BY <1>4 DEF GCVisit
    <2>2. gc.running /\ db' = db /\ binned' = binned
      BY <1>4 DEF GCVisit, storeVars
    <2>3. PICK pick : /\ gc' = [gc EXCEPT !.todo = gc.todo \ {n}, !.pick = pick]
                      /\ pick = NoPick \/ (pick = <<n>> /\ Expired(n))
      BY <2>1
    <2>4. pick \in Picks /\ n \in Names /\ gc.todo \ {n} \in SUBSET Names
      BY <1>1, <2>3 DEF Picks
    <2>5. gc' \in GCs /\ gc'.running = gc.running /\ gc'.cutoff = gc.cutoff /\ gc'.pick = pick
      BY <1>1, <2>3, <2>4
    <2>6. GCSound'
      <3>1. gc'.running => gc'.cutoff + TTL <= clock'
        BY <1>1, <2>5 DEF FSInv, GCSound
      <3>2. pick # NoPick => pick[1] = n
        BY <2>3
      <3>3. gc'.pick # NoPick => /\ gc'.running /\ gc'.pick[1] \notin Given
                                  /\ gc'.pick[1][1] <= gc'.cutoff
        BY <2>2, <2>3, <2>5, <3>2 DEF Expired
      <3> QED BY <3>1, <3>3 DEF GCSound, Expired, Given
    <2> QED BY <1>1, <1>2, <2>2, <2>5, <2>6, TablesSame
  <1>5. CASE GCUnlink
    <2> DEFINE n == gc.pick[1]
    <2>1. /\ gc.pick # NoPick /\ gc' = [gc EXCEPT !.pick = NoPick]
          /\ Unlink(trashIno, n) \/ db' = db
      BY <1>5 DEF GCUnlink, storeVars
    <2>2. n \in Names /\ n \notin Given /\ n[1] <= gc.cutoff /\ gc.running
      BY <1>1, <2>1 DEF FSInv, GCSound, Expired, Picks
    <2> HIDE DEF n
    <2>3. n[1] \in Int /\ gc.cutoff \in Int /\ n[1] + TTL <= clock /\ gc.cutoff + TTL <= clock
      <3>1. n[1] \in Int /\ gc.cutoff \in Int /\ gc.cutoff + TTL <= clock
        BY <1>1, <2>2, StampIsTime DEF FSInv, GCSound
      <3> QED BY <1>1, <2>2, <3>1
    <2>4. gc' \in GCs /\ gc'.cutoff = gc.cutoff /\ gc'.pick = NoPick
      BY <1>1, <2>1 DEF Picks
    <2>5. GCSound'
      BY <1>1, <2>3, <2>4 DEF GCSound
    <2>6. CASE Unlink(trashIno, n)
      <3>1. WellFormed(db') /\ Drops(trashIno, n)
        BY <1>1, <2>6, UnlinkStep
      <3>2. /\ \A e \in db'.dirents : e \in db.dirents
            /\ \A e \in db.dirents : e \in db'.dirents \/ e.name[1] + TTL <= clock
        BY <2>3, <3>1 DEF Drops
      <3> QED BY <1>1, <1>2, <2>4, <2>5, <3>1, <3>2, StepKeeps
    <2>7. CASE db' = db
      BY <1>1, <1>2, <2>4, <2>5, <2>7, TablesSame
    <2> QED BY <2>1, <2>6, <2>7
  <1>6. CASE GCEnd
    <2>1. gc' \in GCs /\ GCSound' /\ db' = db /\ binned' = binned
      BY <1>6 DEF GCEnd, NoGC, GCSound, Picks, storeVars
    <2> QED BY <1>1, <1>2, <2>1, TablesSame
  <1> QED BY <1>3, <1>4, <1>5, <1>6

-----------------------------------------------------------------------------
(* Theorems *)

\* The invariant holds throughout: the tables are a tree with exact link
\* counts, and the trash keeps what it was given.
THEOREM FSInvariant == Spec => []FSInv
  <1>1. Init => FSInv
    <2> SUFFICES ASSUME Init PROVE FSInv
      OBVIOUS
    <2>1. db = EmptyDB /\ WellFormed(db) /\ db.dirents = {}
      BY EmptyWellFormed DEF Init, StoreInit, EmptyDB
    <2>2. FSTypeOK
      <3>1. NoGC \in [running : BOOLEAN, cutoff : Int, todo : SUBSET Names, pick : Picks]
        BY DEF NoGC, Picks
      <3>2. [i \in Inos |-> 0] \in [Inos -> 0..MaxClock] /\ 1 \in 1..MaxClock /\ RootIno \in Inos
        BY FileSystemAssumption, NamespaceAssumption
      <3> QED BY <3>1, <3>2 DEF Init, StoreInit, FSTypeOK
    <2>3. StampsPast /\ InTrash
      BY <2>1 DEF Init, StampsPast, InTrash
    <2>4. GCSound
      BY DEF Init, NoGC, GCSound
    <2> QED BY <2>1, <2>2, <2>3, <2>4 DEF FSInv
  <1>2. FSInv /\ [Next]_vars => FSInv'
    <2> SUFFICES ASSUME FSInv, [Next]_vars PROVE FSInv'
      OBVIOUS
    <2>1. CASE DirectoryNext
      BY <2>1, DirectoryKeeps
    <2>2. CASE FileNext
      BY <2>2, FileKeeps DEF FileNext
    <2>3. CASE TrashNext
      BY <2>3, TrashCommandKeeps, CollectorKeeps DEF TrashNext
    <2>4. CASE UNCHANGED vars
      <3>1. /\ UNCHANGED <<db, nextIno, trashIno, enabled, clock, gc>>
            /\ UNCHANGED <<moves, binned, uploads>>
        BY <2>4 DEF vars, storeVars, trashVars
      <3>2. FSTypeOK' /\ clock <= clock'
        BY <3>1 DEF FSInv, FSTypeOK
      <3> QED BY <3>1, <3>2, GCSame, TablesSame
    <2> QED BY <2>1, <2>2, <2>3, <2>4 DEF Next
  <1> QED BY <1>1, <1>2, PTL DEF Spec

\* The type invariant of the tables and the trash.
THEOREM FSTypes == Spec => []TypeOK
  <1>1. FSInv => TypeOK
    <2> SUFFICES ASSUME FSInv PROVE TypeOK
      OBVIOUS
    <2>1. StoreTypeOK
      BY DEF FSInv, FSTypeOK, WellFormed, Databases, StoreTypeOK
    <2>2. gc.running \in BOOLEAN /\ gc.todo \subseteq Names
      BY DEF FSInv, FSTypeOK
    <2> QED BY <2>1, <2>2 DEF FSInv, FSTypeOK, TypeOK
  <1> QED BY <1>1, FSInvariant, PTL

\* nlink of every inode counts its names, so the last unlink is the one that
\* deletes (unlinkInTx, Link, Rename).
THEOREM LinkCountsExact == Spec => []NlinkExact
  <1>1. FSInv => NlinkExact
    BY DEF FSInv, WellFormed, Counted, LinksOf, NlinkExact
  <1> QED BY <1>1, FSInvariant, PTL

\* No rename, unlink or overwrite strands an inode or bends the tree into a
\* cycle, whatever the number of inodes (isAncestor).
THEOREM StaysATree == Spec => []TreeConnected
  <1>1. FSInv => TreeConnected
    BY DEF FSInv, WellFormed, Connected, EntriesSound, TreeConnected
  <1> QED BY <1>1, FSInvariant, PTL

\* chunk_map rows go with their inode, and an upload that lands after its
\* inode is deleted leaves none.
THEOREM RowsOwned == Spec => []RowsHaveInodes
  <1>1. FSInv => RowsHaveInodes
    BY DEF FSInv, WellFormed, Owned, RowsHaveInodes
  <1> QED BY <1>1, FSInvariant, PTL

\* What rm moved to the trash is reachable until its TTL is over, whatever
\* handlers, mounts, trash commands and passes of the collector come between.
THEOREM TrashKeepsFiles == Spec => []RmIsRecoverable
  <1>1. FSInv => RmIsRecoverable
    <2> SUFFICES ASSUME FSInv, NEW i \in Inos, binned[i] # 0, clock < binned[i] + TTL
                 PROVE  Exists(db, i) /\ RootIno \in Ancestors(db, i)
      BY DEF RmIsRecoverable
    <2>1. Exists(db, i)
      BY DEF FSInv, InTrash, WellFormed, EntriesSound
    <2> QED BY <2>1 DEF FSInv, WellFormed, Connected
  <1> QED BY <1>1, FSInvariant, PTL

\* Whatever operation would commit next, replaying its journal record twice is
\* the same as replaying it once (ReplayOp).
THEOREM ReplayTwiceIsOnce == Spec => []ReplayIdempotent
  <1>1. FSInv => ReplayIdempotent
    <2> SUFFICES ASSUME FSInv, NEW o \in Committing
                 PROVE  Idempotent(db, o)
      BY DEF ReplayIdempotent, Idempotent
    <2>1. /\ WellFormed(db) /\ db.dirents \in SUBSET Dirents /\ Given \subseteq Names
          /\ Dirs \subseteq Inos /\ Files \subseteq Inos
      BY FileSystemAssumption DEF FSInv, WellFormed, Databases, Dirs, Files
    <2>2. (o.op = "create" => o.ino \in Inos) /\ Error(db, o) = "ok"
      BY DEF Committing
    <2>3. CASE o \in {OpCreate(p, n, nextIno + 1, k) : p \in Dirs, n \in Given, k \in Kinds}
      <3>1. PICK p \in Dirs, n \in Given, k \in Kinds : o = OpCreate(p, n, nextIno + 1, k)
        BY <2>3
      <3>2. nextIno + 1 \in Inos
        BY <2>2, <3>1 DEF OpCreate
      <3> QED BY <2>1, <2>2, <3>1, <3>2, CreateIdempotent
    <2>4. CASE o \in {OpLink(p, n, t) : p \in Dirs, n \in Given, t \in Files}
      <3>1. PICK p \in Dirs, n \in Given, t \in Files : o = OpLink(p, n, t)
        BY <2>4
      <3> QED BY <2>1, <2>2, <3>1, LinkIdempotent
    <2>5. CASE o \in {OpUnlink(e.parent, e.name) : e \in db.dirents}
      <3>1. PICK e \in db.dirents : o = OpUnlink(e.parent, e.name)
        BY <2>5
      <3> QED BY <2>1, <2>2, <3>1, UnlinkIdempotent
    <2>6. CASE o \in {OpRename(e.parent, e.name, q, m) :
                         e \in db.dirents, q \in Dirs, m \in Given}
      <3>1. PICK e \in db.dirents, q \in Dirs, m \in Given : o = OpRename(e.parent, e.name, q, m)
        BY <2>6
      <3> QED BY <2>1, <2>2, <3>1, RenameIdempotent
    <2>7. CASE o \in {OpSetSize(i, 1) : i \in Files}
      <3>1. PICK i \in Files : o = OpSetSize(i, 1)
        BY <2>7
      <3> QED BY <2>1, <2>2, <3>1, SetSizeIdempotent
    <2> QED BY <2>3, <2>4, <2>5, <2>6, <2>7 DEF Committing
  <1> QED BY <1>1, FSInvariant, PTL

=============================================================================
