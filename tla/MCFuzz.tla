------------------------------- MODULE MCFuzz -------------------------------
(* Fuzz and the other commands on small instances. *)
EXTENDS Commands

=============================================================================
