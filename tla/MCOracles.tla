----------------------------- MODULE MCOracles -----------------------------
(* Oracles on a small instance. *)
EXTENDS Oracles

Args(explicit, oracles, configured, args, record) ==
    [explicit |-> explicit, oracles |-> oracles, configured |-> configured,
     args |-> args, record |-> record,
     leaks |-> IF explicit THEN "failure" ELSE "warning"]

\* The defaults, with and without invariants and trace, and a custom oracle on
\* either side of the invariants.
MCSetups ==
    {Args(FALSE, << >>, << >>, args, record) :
        args \in {<<"warning", "warning">>, <<"failure">>, << >>}, record \in BOOLEAN}
    \cup {Args(TRUE, oracles, configured, << >>, FALSE) :
        oracles \in {<<"custom", "defaults", "invariant">>, <<"invariant", "custom">>},
        configured \in {<<"warning">>, <<"failure", "warning">>}}
    \cup {Args(TRUE, <<"custom">>, << >>, <<"warning">>, TRUE),
           Args(TRUE, << >>, << >>, << >>, FALSE)}

=============================================================================
