--------------------------- MODULE MCFragmentStore --------------------------
(* Values of FragmentStore's constants for TLC.                            *)
EXTENDS FragmentStore, TLC

CONSTANTS c1, c2, k1

\* Every client calls with the master key.
MasterKeys == [c \in Clients |-> None]

\* c1 calls with the API key k1, the others with the master key.
OneKeyed == [c \in Clients |-> IF c = c1 THEN k1 ELSE None]

\* Ids, texts and (when they share a key) clients are interchangeable.
Symmetry == Permutations(Ids) \union Permutations(Contents)
              \union Permutations(Clients)
=============================================================================
