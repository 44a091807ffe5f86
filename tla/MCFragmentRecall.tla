-------------------------- MODULE MCFragmentRecall --------------------------
(* Values of FragmentRecall's constants for TLC.                           *)
EXTENDS FragmentRecall, TLC

Symmetry == Permutations(Ids) \union Permutations(Texts)
              \union Permutations(Clients)
=============================================================================
