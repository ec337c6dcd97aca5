----------------------------- MODULE MCFifoLoop -----------------------------
(* FifoLoop on a small instance. *)
EXTENDS FifoLoop

=============================================================================
