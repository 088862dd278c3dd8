---------------------------- MODULE MCFileSystem ----------------------------
(* Instance of FileSystem and Packer for TLC.  They meet only in that an    *)
(* unlink makes the packer drop an inode's wires and refuses their rows,    *)
(* which Packer has as steps of its own, so each behaviour runs one of them *)
(* and the state space is a sum, not a product.                             *)
EXTENDS FileSystem, Packer

CONSTANTS f1, f2

MCInos == 1..4
MCNames == Given \cup Stamped

(* Three wires of two inodes, of lengths below and above the target.        *)
ThreeWires == 1..3
MCInoOf == [w \in ThreeWires |-> IF w = 2 THEN f2 ELSE f1]
MCSizeOf == <<2, 1, 4>>

VARIABLE part

MCVars == <<part, vars, packerVars>>

MCInit == part \in {"files", "packer"} /\ Init /\ PackerInit

InPacker(A) == part = "packer" /\ A /\ UNCHANGED <<part, vars>>

MCNext ==
    \/ part = "files" /\ Next /\ UNCHANGED <<part, packerVars>>
    \/ InPacker(PackerNext)

(* The window's timer keeps firing and the flusher keeps running.  A closed *)
(* stop channel is ready in every select: Go chooses among ready cases at   *)
(* random, so it is chosen eventually.                                      *)
MCSpec ==
    /\ MCInit /\ [][MCNext]_MCVars
    /\ WF_MCVars(InPacker(Flusher)) /\ SF_MCVars(InPacker(LoopStop))

=============================================================================
