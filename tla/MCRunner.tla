------------------------------ MODULE MCRunner ------------------------------
(* Runner on a small instance. *)
EXTENDS Runner

=============================================================================
