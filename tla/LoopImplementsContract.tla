----------------------- MODULE LoopImplementsContract -----------------------
(* EventLoop implements LoopContract under every scheduler. *)
EXTENDS EventLoop

Abstracted(h) ==
    CASE h > created          -> "unborn"
      [] h \in ran            -> "started"
      [] h <= created /\ h \notin ran /\ h \in cancelled -> "revoked"
      [] h \in Live(ToSet(ready)) \ ran -> "runnable"
      [] h \in Live(scheduled) \ (ran \cup ToSet(ready)) -> "waiting"
      [] OTHER                -> "dropped"

\* status, deadline, time and active of the contract.
Contract == INSTANCE LoopContract
    WITH Callback <- Handle,
         Time     <- 0..MaxWhen,
         status   <- [h \in Handle |-> Abstracted(h)],
         deadline <- when,
         time     <- now,
         active   <- IF current = 0 THEN {} ELSE {current}

\* Whatever the scheduler chooses and however a run ends, the loop keeps the
\* promise of LoopContract: at most one start, none after a cancel, none early,
\* and virtual time that passes only while nothing can run.
ImplementsContract == Contract!CSpec

=============================================================================
