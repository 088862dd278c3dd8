--------------------------- MODULE MCChunkPipeline ---------------------------
(* Instances of ChunkPipeline for TLC: see the .cfg files. *)
EXTENDS ChunkPipeline, TLC

OneSlot == {0}
TwoSlots == {0, 1}

JobSymmetry == Permutations(Jobs)

=============================================================================
