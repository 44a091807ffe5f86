--------------------------- MODULE MCSessionLifecycle ---------------------------
(* Values for model checking SessionLifecycle.                                    *)
EXTENDS SessionLifecycle, TLC

Symmetry == Permutations(Requests) \union Permutations(Sweeps) \union Permutations(Calls)

=============================================================================
