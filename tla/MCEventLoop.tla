---------------------------- MODULE MCEventLoop ----------------------------
(* EventLoop, and its refinement of LoopContract, on small instances, under *)
(* an arbitrary scheduler.                                                  *)
EXTENDS LoopImplementsContract

=============================================================================
