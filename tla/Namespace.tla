------------------------------ MODULE Namespace ------------------------------
(***************************************************************************)
(* The metadata tables (inodes, dirents, chunk_map) as a value, and the    *)
(* journaled operations of meta.Store on it: which error each returns, the *)
(* database it leaves behind when it commits, and what ReplayOp makes of   *)
(* it during recovery.                                                     *)
(*                                                                         *)
(* A database is a record: kind and nlink and size of every inode number   *)
(* ("none" = no such row), the set of dirents, and the inodes that have    *)
(* chunk_map rows.  Modes, owners, times, xattrs and symlink targets are   *)
(* left out; a symlink is a file here.                                     *)
(***************************************************************************)
EXTENDS Naturals, FiniteSets

CONSTANTS
    Inos,    \* inode numbers; 0 is none of them
    RootIno,
    Names,
    MaxSize  \* bound: file sizes are 0..MaxSize

ASSUME NamespaceAssumption ==
    /\ Inos \subseteq Nat \ {0}
    /\ IsFiniteSet(Inos)
    /\ RootIno \in Inos
    /\ MaxSize \in Nat

Kinds == {"file", "dir"}
Dirents == [parent : Inos, name : Names, child : Inos]

\* The tables a fresh Store starts with.
EmptyDB ==
    [kind    |-> [i \in Inos |-> IF i = RootIno THEN "dir" ELSE "none"],
     nlink   |-> [i \in Inos |-> IF i = RootIno THEN 1 ELSE 0],
     size    |-> [i \in Inos |-> 0],
     dirents |-> {},
     chunks  |-> {}]

-----------------------------------------------------------------------------
(* Queries *)

Exists(db, i) == i \in Inos /\ db.kind[i] # "none"
At(db, p, n) == {e \in db.dirents : e.parent = p /\ e.name = n}
Found(db, p, n) == At(db, p, n) # {}

\* Lookup: the child's inode number, 0 for ErrNotFound.
Lookup(db, p, n) ==
    IF Found(db, p, n) THEN (CHOOSE e \in At(db, p, n) : TRUE).child ELSE 0

HasChildren(db, i) == \E e \in db.dirents : e.parent = i

\* S holds the parents of its members.
Upward(db, S) == \A e \in db.dirents : e.child \in S => e.parent \in S

\* The directories isAncestor meets on its way up from start, start included:
\* the least set that holds start and the parents of its members.
Ancestors(db, start) ==
    LET closed == {S \in SUBSET Inos : start \in S /\ Upward(db, S)}
    IN {a \in Inos : \A S \in closed : a \in S}

-----------------------------------------------------------------------------
(* Journal operations: the JournalOp records the Store writes *)

OpCreate(p, n, i, k) == [op |-> "create", parent |-> p, name |-> n, ino |-> i,
                         kind |-> k]
OpLink(p, n, t) == [op |-> "link", parent |-> p, name |-> n, target |-> t]
OpUnlink(p, n) == [op |-> "unlink", parent |-> p, name |-> n]
OpRename(p, n, q, m) == [op |-> "rename", parent |-> p, name |-> n,
                         newParent |-> q, newName |-> m]
OpSetSize(i, s) == [op |-> "setsize", ino |-> i, size |-> s]

ParentError(db, p) ==
    IF ~Exists(db, p) THEN "notFound"
    ELSE IF db.kind[p] # "dir" THEN "notDir" ELSE "ok"

\* CreateChild, and createChildAt when the inode number may be taken.
CreateError(db, o) ==
    IF ParentError(db, o.parent) # "ok" THEN ParentError(db, o.parent)
    ELSE IF Found(db, o.parent, o.name) \/ Exists(db, o.ino) THEN "exists"
    ELSE "ok"

Linkable(db, t) == db.kind[t] # "dir"

LinkError(db, o) ==
    IF ParentError(db, o.parent) # "ok" THEN ParentError(db, o.parent)
    ELSE IF ~Exists(db, o.target) THEN "notFound"
    ELSE IF ~Linkable(db, o.target) THEN "isDir"
    ELSE IF Found(db, o.parent, o.name) THEN "exists"
    ELSE "ok"

UnlinkError(db, o) ==
    LET c == Lookup(db, o.parent, o.name)
    IN IF c = 0 THEN "notFound"
       ELSE IF db.kind[c] = "dir" /\ HasChildren(db, c) THEN "notEmpty"
       ELSE "ok"

\* Mutant: only the new parent itself is compared.
CycleDirect(db, src, q) == db.kind[src] = "dir" /\ src = q

\* Renaming src into q would move a directory below itself.
Cycle(db, src, q) == db.kind[src] = "dir" /\ src \in Ancestors(db, q)

\* "same" is the POSIX no-op: success, nothing changed, nothing journaled.
RenameError(db, o) ==
    LET src == Lookup(db, o.parent, o.name)
        dst == Lookup(db, o.newParent, o.newName)
    IN IF o.parent = o.newParent /\ o.name = o.newName THEN "same"
       ELSE IF src = 0 THEN "notFound"
       ELSE IF ParentError(db, o.newParent) # "ok"
            THEN ParentError(db, o.newParent)
       ELSE IF Cycle(db, src, o.newParent) THEN "cycle"
       ELSE IF dst = 0 THEN "ok"
       ELSE IF dst = src THEN "same"
       ELSE IF db.kind[dst] = "dir" /\ db.kind[src] # "dir" THEN "isDir"
       ELSE IF db.kind[dst] = "dir" /\ HasChildren(db, dst) THEN "notEmpty"
       ELSE IF db.kind[dst] # "dir" /\ db.kind[src] = "dir" THEN "notDir"
       ELSE "ok"

Error(db, o) ==
    CASE o.op = "create" -> CreateError(db, o)
      [] o.op = "link" -> LinkError(db, o)
      [] o.op = "unlink" -> UnlinkError(db, o)
      [] o.op = "rename" -> RenameError(db, o)
      [] o.op = "setsize" -> IF Exists(db, o.ino) THEN "ok" ELSE "notFound"

-----------------------------------------------------------------------------
(* What a committed operation leaves behind *)

Created(db, o) ==
    [db EXCEPT !.kind[o.ino] = o.kind,
               !.nlink[o.ino] = 1,
               !.size[o.ino] = 0,
               !.dirents = @ \cup {[parent |-> o.parent, name |-> o.name,
                                    child |-> o.ino]}]

\* Mutant: the new name is not counted.
LinkedUncounted(db, o) ==
    [db EXCEPT !.dirents = @ \cup {[parent |-> o.parent, name |-> o.name,
                                    child |-> o.target]}]

Linked(db, o) ==
    [db EXCEPT !.nlink[o.target] = @ + 1,
               !.dirents = @ \cup {[parent |-> o.parent, name |-> o.name,
                                    child |-> o.target]}]

\* Mutant: without the cascade to chunk_map.
UnlinkedNoCascade(db, p, n) ==
    LET c == Lookup(db, p, n)
        last == db.nlink[c] = 1
    IN [db EXCEPT !.dirents = @ \ At(db, p, n),
                  !.nlink[c] = @ - 1,
                  !.kind[c] = IF last THEN "none" ELSE @,
                  !.size[c] = IF last THEN 0 ELSE @]

\* unlinkInTx: the inode and, by cascade, its chunk_map rows go with its last
\* link.
Unlinked(db, p, n) ==
    LET c == Lookup(db, p, n)
        last == db.nlink[c] = 1
    IN [db EXCEPT !.dirents = @ \ At(db, p, n),
                  !.nlink[c] = @ - 1,
                  !.kind[c] = IF last THEN "none" ELSE @,
                  !.size[c] = IF last THEN 0 ELSE @,
                  !.chunks = IF last THEN @ \ {c} ELSE @]

Renamed(db, o) ==
    LET src == Lookup(db, o.parent, o.name)
        cleared == IF Found(db, o.newParent, o.newName)
                   THEN Unlinked(db, o.newParent, o.newName) ELSE db
    IN [cleared EXCEPT
          !.dirents = (@ \ At(db, o.parent, o.name))
                        \cup {[parent |-> o.newParent, name |-> o.newName,
                               child |-> src]}]

Apply(db, o) ==
    CASE o.op = "create" -> Created(db, o)
      [] o.op = "link" -> Linked(db, o)
      [] o.op = "unlink" -> Unlinked(db, o.parent, o.name)
      [] o.op = "rename" -> Renamed(db, o)
      [] o.op = "setsize" -> [db EXCEPT !.size[o.ino] = o.size]

-----------------------------------------------------------------------------
(* ReplayOp *)

\* Mutant: a rename whose source is gone is always an error.
ToleratedNoRename(db, o) ==
    LET err == Error(db, o)
    IN \/ o.op \in {"create", "link"} /\ err = "exists"
       \/ o.op \in {"unlink", "setsize"} /\ err = "notFound"
       \/ o.op = "rename" /\ err = "same"

\* The errors ReplayOp takes for "already applied".
Tolerated(db, o) ==
    LET err == Error(db, o)
    IN \/ o.op \in {"create", "link"} /\ err = "exists"
       \/ o.op \in {"unlink", "setsize"} /\ err = "notFound"
       \/ /\ o.op = "rename"
          /\ \/ err = "same"
             \/ err = "notFound" /\ Found(db, o.newParent, o.newName)

Replayable(db, o) == Error(db, o) = "ok" \/ Tolerated(db, o)
Replay(db, o) == IF Error(db, o) = "ok" THEN Apply(db, o) ELSE db

=============================================================================
