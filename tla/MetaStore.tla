------------------------------ MODULE MetaStore ------------------------------
(***************************************************************************)
(* meta.Store as its callers see it: every mutation is one SQLite          *)
(* transaction on the tables of module Namespace.  Inode numbers come from *)
(* AUTOINCREMENT and are never used twice.                                 *)
(***************************************************************************)
EXTENDS Namespace

VARIABLES
    db,      \* the tables
    nextIno  \* sqlite_sequence of inodes: the highest number ever assigned

storeVars == <<db, nextIno>>

StoreInit == db = EmptyDB /\ nextIno = RootIno

-----------------------------------------------------------------------------
\* The operation commits; on any error the transaction is rolled back.
Commit(o) == Error(db, o) = "ok" /\ db' = Apply(db, o)

CreateChild(p, n, k) ==
    /\ nextIno + 1 \in Inos
    /\ Commit(OpCreate(p, n, nextIno + 1, k))
    /\ nextIno' = nextIno + 1

Link(p, n, t) == Commit(OpLink(p, n, t)) /\ UNCHANGED nextIno
Unlink(p, n) == Commit(OpUnlink(p, n)) /\ UNCHANGED nextIno
Rename(p, n, q, m) == Commit(OpRename(p, n, q, m)) /\ UNCHANGED nextIno
SetSize(i, s) == Commit(OpSetSize(i, s)) /\ UNCHANGED nextIno

\* A chunk_map row; the foreign key refuses one for a missing inode.
PutChunk(i) ==
    /\ Exists(db, i)
    /\ db' = [db EXCEPT !.chunks = @ \cup {i}]
    /\ UNCHANGED nextIno

Files == {i \in Inos : db.kind[i] = "file"}

-----------------------------------------------------------------------------
(* Properties *)

\* Type invariant of the tables.
StoreTypeOK ==
    /\ db \in [kind : [Inos -> Kinds \cup {"none"}], nlink : [Inos -> Nat],
               size : [Inos -> 0..MaxSize], dirents : SUBSET Dirents,
               chunks : SUBSET Inos]
    /\ nextIno \in Inos

\* nlink, which decides when unlink deletes a file, counts the dirents of the
\* inode, through links, renames over links and overwrites.
NlinkExact ==
    \A i \in Inos \ {RootIno} :
        db.nlink[i] = Cardinality({e \in db.dirents : e.child = i})

\* No rename, unlink or overwrite ever strands an inode or bends the tree
\* into a cycle: whatever exists is reachable from the root, and whatever a
\* dirent names exists.
TreeConnected ==
    /\ \A i \in Inos : Exists(db, i) => RootIno \in Ancestors(db, i)
    /\ \A e \in db.dirents : Exists(db, e.child) /\ db.kind[e.parent] = "dir"

\* chunk_map never outlives its inode.
RowsHaveInodes == \A i \in db.chunks : Exists(db, i)

=============================================================================
