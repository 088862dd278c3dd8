----------------------------- MODULE FileSystem -----------------------------
(***************************************************************************)
(* The FUSE handlers of internal/fs on the metadata store: directory       *)
(* operations, what handles leave in the tables, the trash directory that  *)
(* stands in for unlink, its collector, and the trash commands that run in *)
(* a process of their own.                                                 *)
(*                                                                         *)
(* A file has one chunk: its size is 0 or 1, db.chunks says whether the    *)
(* chunk has a row, and uploads are the inodes whose chunk is on its way.  *)
(***************************************************************************)
EXTENDS MetaStore

CONSTANTS
    Plain,      \* names users give
    TrashName,  \* ".trash"
    TTL,        \* trash_ttl_secs
    MaxClock,   \* bound: the clock
    MaxEvents   \* bound: the clock and the calls of rename and link together

Given == Plain \cup {TrashName}

\* uniqueName: what the trash calls an entry, its time and its name.
Stamped == (1..(MaxClock - 1)) \X Given

\* No user gives a name that reads as a stamped one; a file's size is 0 or 1.
ASSUME FileSystemAssumption ==
    /\ Names = Given \cup Stamped /\ Given \cap Stamped = {}
    /\ MaxSize \in Nat \ {0}
    /\ TTL \in Nat /\ MaxClock \in Nat \ {0} /\ MaxEvents \in Nat

VARIABLES
    trashIno,  \* Backend.TrashIno, 0 = trash off
    enabled,   \* meta_kv trash_enabled
    clock,     \* time.Now
    gc,        \* the collector's pass: cutoff, entries to visit, the one it
               \* is about to unlink
    uploads,   \* inodes with a dispatched chunk
    moves,     \* calls of rename and link so far
    binned     \* history: when the file was moved to the trash, 0 = never, or
               \* restored or purged since

trashVars == <<trashIno, enabled, clock, gc, moves, binned>>
vars == <<storeVars, trashVars, uploads>>

NoPick == <<>>
NoGC == [running |-> FALSE, cutoff |-> 0, todo |-> {}, pick |-> NoPick]

\* At the first mount, and when a mount begins: EnsureRootDir may have to
\* create the directory.
Init ==
    /\ StoreInit
    /\ trashIno = 0 /\ enabled = FALSE /\ clock = 1 /\ gc = NoGC
    /\ moves = 0
    /\ uploads = {} /\ binned = [i \in Inos |-> 0]

Dirs == {p \in Inos : db.kind[p] = "dir"}
Entries(p) == {e \in db.dirents : e.parent = p}
\* The bound on what has happened so far.
Bounded == clock + moves < MaxEvents

Unbin(i) == binned' = [binned EXCEPT ![i] = 0]

-----------------------------------------------------------------------------
(* Directory handlers *)

NodeMkdir(p, n) ==
    /\ CreateChild(p, n, "dir")
    /\ UNCHANGED <<trashVars, uploads>>

NodeLink(p, n, t) ==
    /\ Bounded /\ moves' = moves + 1
    /\ Link(p, n, t)
    /\ UNCHANGED <<trashIno, enabled, clock, gc, binned, uploads>>

\* A rename onto a name deletes what had the name; one out of the trash
\* restores.
NodeRename(p, n, q, m) ==
    LET src == Lookup(db, p, n)
        dst == Lookup(db, q, m)
    IN /\ Bounded /\ moves' = moves + 1
       /\ Rename(p, n, q, m)
       /\ binned' = [i \in Inos |-> IF i \in {src, dst} THEN 0 ELSE binned[i]]
       /\ UNCHANGED <<trashIno, enabled, clock, gc, uploads>>

\* The new name is the clock, which never shows the same nanosecond twice.
MoveToTrash(p, n) ==
    LET c == Lookup(db, p, n)
    IN /\ clock < MaxClock /\ Bounded /\ clock' = clock + 1
       /\ Rename(p, n, trashIno, <<clock, n>>)
       /\ binned' = [binned EXCEPT ![c] = clock]
       /\ UNCHANGED <<trashIno, enabled, gc, moves>>

\* The trash directory itself is refused where it was created; inside it, and
\* when it is off, unlink really deletes.
Removable(p, c) == ~(p = RootIno /\ c = trashIno)
Intercepted(p) == trashIno # 0 /\ p # trashIno

\* (A name is stamped once: what an older trash still holds is left there.)
Remove(p, n) ==
    \/ /\ Intercepted(p) /\ n \in Given
       /\ MoveToTrash(p, n)
    \/ /\ ~Intercepted(p)
       /\ Unlink(p, n)
       /\ Unbin(Lookup(db, p, n))
       /\ UNCHANGED <<trashIno, enabled, clock, gc, moves>>

NodeUnlink(p, n) ==
    LET c == Lookup(db, p, n)
    IN /\ c # 0 /\ db.kind[c] # "dir" /\ Removable(p, c)
       /\ Remove(p, n)
       /\ UNCHANGED uploads

\* With the trash on, the directory moves with whatever it holds.
NodeRmdir(p, n) ==
    LET c == Lookup(db, p, n)
    IN /\ c # 0 /\ db.kind[c] = "dir" /\ Removable(p, c)
       /\ Remove(p, n)
       /\ UNCHANGED uploads

-----------------------------------------------------------------------------
(* File contents: what the handlers of a file leave in the tables *)

\* Create and Symlink: the inode and its row in the directory.
NodeCreate(p, n) ==
    /\ CreateChild(p, n, "file")
    /\ UNCHANGED <<trashVars, uploads>>

\* A flushed write: the chunk is dispatched, the size is written.
HandleFlush(i) ==
    /\ i \in Files
    /\ SetSize(i, 1)
    /\ uploads' = uploads \cup {i}
    /\ UNCHANGED trashVars

\* The upload's row; the foreign key refuses it for a deleted inode.
UploadLands(i) ==
    /\ i \in uploads /\ uploads' = uploads \ {i}
    /\ \/ PutChunk(i)
       \/ ~Exists(db, i) /\ UNCHANGED storeVars
    /\ UNCHANGED trashVars

\* Setattr to size 0 and Open with O_TRUNC: the Writer waits out the inode's
\* uploads, deletes the rows and writes the size.
Truncate(i) ==
    /\ i \in Files /\ i \notin uploads
    /\ db' = [db EXCEPT !.chunks = @ \ {i}, !.size[i] = 0]
    /\ UNCHANGED <<nextIno, trashVars, uploads>>

-----------------------------------------------------------------------------
(* Trash: mount, commands, collector *)

\* EnsureRootDir: find /.trash or create it; t is its inode, 0 on error.
EnsureRootDir(t) ==
    \/ /\ Found(db, RootIno, TrashName)
       /\ UNCHANGED storeVars
       /\ t = IF db.kind[Lookup(db, RootIno, TrashName)] = "dir"
              THEN Lookup(db, RootIno, TrashName) ELSE 0
    \/ CreateChild(RootIno, TrashName, "dir") /\ t = nextIno + 1

\* `telfs trash enable` and `disable`; the mount notices at its next start.
TrashEnable ==
    /\ ~enabled /\ enabled' = TRUE
    /\ \E t \in Inos \cup {0} : EnsureRootDir(t)
    /\ UNCHANGED <<trashIno, clock, gc, binned, moves, uploads>>

TrashDisable ==
    /\ enabled /\ enabled' = FALSE
    /\ UNCHANGED <<storeVars, trashIno, clock, gc, binned, moves, uploads>>

\* `telfs trash empty`, one entry at a time, next to a running mount.
TrashEmpty ==
    LET t == Lookup(db, RootIno, TrashName)
    IN \E e \in Entries(t) :
          /\ Unlink(t, e.name)
          /\ Unbin(e.child)
          /\ UNCHANGED <<trashIno, enabled, clock, gc, moves, uploads>>

\* The daemon stops and mounts again.  A trash that is on and has no directory
\* fails the mount.
Mount ==
    /\ uploads = {}
    /\ IF enabled THEN \E t \in Inos : EnsureRootDir(t) /\ trashIno' = t
       ELSE trashIno' = 0 /\ UNCHANGED storeVars
    /\ gc' = NoGC
    /\ UNCHANGED <<enabled, clock, binned, moves, uploads>>

Tick ==
    /\ clock < MaxClock /\ Bounded /\ clock' = clock + 1
    /\ UNCHANGED <<storeVars, trashIno, enabled, gc, binned, moves, uploads>>

\* GCOnce: the listing and the cutoff.
GCStart ==
    /\ trashIno # 0 /\ ~gc.running /\ trashIno \in Dirs
    /\ gc' = [running |-> TRUE, cutoff |-> clock - TTL,
              todo |-> {e.name : e \in Entries(trashIno)}, pick |-> NoPick]
    /\ UNCHANGED <<storeVars, trashIno, enabled, clock, binned, moves, uploads>>

\* Mutant: a fresh entry counts as expired.
ExpiredFresh(n) == n \notin Given

\* TrashedAt: only a stamped name can expire.
Expired(n) == n \notin Given /\ n[1] <= gc.cutoff

\* One entry of the listing: it is skipped when it has not expired, is gone, or
\* is a directory with something in it.
GCVisit ==
    /\ gc.running /\ gc.pick = NoPick
    /\ \E n \in gc.todo :
          LET c == Lookup(db, trashIno, n)
              skip == ~Expired(n) \/ c = 0 \/ HasChildren(db, c)
          IN gc' = [gc EXCEPT !.todo = @ \ {n},
                              !.pick = IF skip THEN NoPick ELSE <<n>>]
    /\ UNCHANGED <<storeVars, trashIno, enabled, clock, binned, moves, uploads>>

\* Its unlink, which may fail because the entry has changed since.
GCUnlink ==
    /\ gc.pick # NoPick
    /\ LET n == gc.pick[1]
       IN \/ Unlink(trashIno, n)
          \/ Error(db, OpUnlink(trashIno, n)) # "ok" /\ UNCHANGED storeVars
    /\ gc' = [gc EXCEPT !.pick = NoPick]
    /\ UNCHANGED <<binned, trashIno, enabled, clock, moves, uploads>>

GCEnd ==
    /\ gc.running /\ gc.todo = {} /\ gc.pick = NoPick
    /\ gc' = NoGC
    /\ UNCHANGED <<storeVars, trashIno, enabled, clock, binned, moves, uploads>>

DirectoryNext ==
    \/ \E p \in Dirs, n \in Plain :
          \/ NodeMkdir(p, n)
          \/ \E t \in Files \cup Dirs : NodeLink(p, n, t)
          \/ NodeCreate(p, n)
    \/ \E e \in db.dirents :
          \/ NodeUnlink(e.parent, e.name)
          \/ NodeRmdir(e.parent, e.name)
          \/ \E q \in Dirs, m \in Given :
                NodeRename(e.parent, e.name, q, m)

FileNext == \E i \in Inos : HandleFlush(i) \/ UploadLands(i) \/ Truncate(i)

TrashNext ==
    \/ TrashEnable \/ TrashDisable \/ TrashEmpty \/ Mount \/ Tick
    \/ GCStart \/ GCVisit \/ GCUnlink \/ GCEnd

Next == DirectoryNext \/ FileNext \/ TrashNext

Spec == Init /\ [][Next]_vars

-----------------------------------------------------------------------------
(* Properties *)

\* Type invariant of the tables and the trash.
TypeOK ==
    /\ StoreTypeOK
    /\ trashIno \in Inos \cup {0} /\ enabled \in BOOLEAN /\ clock \in 1..MaxClock
    /\ gc.running \in BOOLEAN /\ gc.todo \subseteq Names
    /\ uploads \subseteq Inos /\ binned \in [Inos -> 0..MaxClock]

\* The safety net of rm: a file that Unlink or Rmdir has moved to the trash is
\* still there and reachable until its TTL is over, whatever directory
\* operations, restarts, settings and passes of the collector come in between;
\* only the user's own unlink inside the trash, rename or `trash empty` ends
\* that.
RmIsRecoverable ==
    \A i \in Inos : binned[i] # 0 /\ clock < binned[i] + TTL =>
        Exists(db, i) /\ RootIno \in Ancestors(db, i)

\* The operations that would commit in this state, as the Store journals them.
Committing ==
    {o \in {OpCreate(p, n, nextIno + 1, k) : p \in Dirs, n \in Given, k \in Kinds}
              \cup {OpLink(p, n, t) : p \in Dirs, n \in Given, t \in Files}
              \cup {OpUnlink(e.parent, e.name) : e \in db.dirents}
              \cup {OpRename(e.parent, e.name, q, m) :
                       e \in db.dirents, q \in Dirs, m \in Given}
              \cup {OpSetSize(i, 1) : i \in Files} :
          (o.op = "create" => o.ino \in Inos) /\ Error(db, o) = "ok"}

\* ReplayOp a second time right after the first changes nothing and is not an
\* error: what makes a batch the poster sent twice harmless.
ReplayIdempotent ==
    \A o \in Committing :
        LET after == Apply(db, o)
        IN Replayable(after, o) /\ Replay(after, o) = after

=============================================================================
