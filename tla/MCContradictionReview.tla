------------------------ MODULE MCContradictionReview ------------------------
(* Values of ContradictionReview's constants for TLC.                      *)
EXTENDS ContradictionReview, TLC

ThreeFrags == {1, 2, 3}
TwoFrags == {1, 2}

\* Apart: three milliseconds, the second of them with microseconds; Together:
\* the first two fragments within one millisecond.
Apart == 1 :> 2 @@ 2 :> 5 @@ 3 :> 6
ApartTwo == 1 :> 2 @@ 2 :> 5
Together == 1 :> 2 @@ 2 :> 3

LastPair == {{1, 2}}
NewPair == {{2, 3}}
OtherPairs == {{1, 3}, {2, 3}}
NoPairs == {}

Symmetry == Permutations(Cycles)
==============================================================================
