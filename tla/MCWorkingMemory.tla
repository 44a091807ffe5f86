-------------------------- MODULE MCWorkingMemory --------------------------
(* Values of WorkingMemory's constants for TLC.                            *)
EXTENDS WorkingMemory, TLC

CONSTANTS p, q, a, b

\* Two protected items, two that are not; the budget holds one or two of them.
Sizes == p :> 3 @@ q :> 2 @@ a :> 3 @@ b :> 2

Symmetry == Permutations(Clients)
============================================================================
