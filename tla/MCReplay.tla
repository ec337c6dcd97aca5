------------------------------ MODULE MCReplay ------------------------------
(* Replay on small instances. *)
EXTENDS Replay, TLC

CONSTANTS a, b     \* the tasks of the small instance

Few(tasks, n) == {q \in Queue : Len(q) <= n /\ \A i \in DOMAIN q : q[i] \in tasks \cup {NoTask}}

\* By identity where no task has two callbacks queued, by position wherever.
MCSetting ==
    "lenient"  :> [strict |-> FALSE, byTask |-> TRUE,
                   offers |-> {q \in Few({a, b}, 3) : Distinct(q)}] @@
    "strict"   :> [strict |-> TRUE, byTask |-> TRUE,
                   offers |-> {q \in Few({a, b}, 2) : Distinct(q)}] @@
    "position" :> [strict |-> TRUE, byTask |-> FALSE, offers |-> Few({a}, 3)] @@
    "drifting" :> [strict |-> FALSE, byTask |-> FALSE, offers |-> Few({a}, 2)]

\* Any queue: a task may have its step and a queued cancel of it.
MCDuplicates == "twice" :> [strict |-> TRUE, byTask |-> TRUE, offers |-> Queue]

=============================================================================
