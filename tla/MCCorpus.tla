------------------------------ MODULE MCCorpus ------------------------------
(* Corpus on a small instance. *)
EXTENDS Corpus

\* An exemplar of the recorded bug, the same shrunk, and one that is its equal
\* in deviations only.
MCEntry == {[deviations |-> 0, rest |-> 1], [deviations |-> 1, rest |-> 0],
            [deviations |-> 1, rest |-> 1]}

=============================================================================
