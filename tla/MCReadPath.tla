----------------------------- MODULE MCReadPath -----------------------------
(* Instances of ReadPath for TLC. *)
EXTENDS ReadPath

MCIdx == {1, 2}
MCProcs == Readers \cup Ahead \cup {Blob}

=============================================================================
