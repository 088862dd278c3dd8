----------------------------- MODULE MCRecovery -----------------------------
(* An instance of Recovery for TLC: one directory, two names. *)
EXTENDS Recovery

FewInos == 1..3

=============================================================================
