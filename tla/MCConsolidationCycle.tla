------------------------ MODULE MCConsolidationCycle ------------------------
(* Values of ConsolidationCycle's constants for TLC: p is a long text that *)
(* the model splits into x and y, w a longer one that it does not split.   *)
EXTENDS ConsolidationCycle, TLC

CONSTANTS p, w, x, y, blank

LengthOf == (p :> 1) @@ (w :> 2) @@ (x :> 0) @@ (y :> 0)
WholeAndParts == <<w, p>>
OnlyP == <<p>>

\* Usual and unusual answers: the same item twice, blank items.
OneLong == (p :> 1) @@ (x :> 0) @@ (y :> 0)
Usual == (p :> {<<x, y>>, <<x, x>>, <<blank, blank>>})

\* The model splits p, or gives blank items; it does not split w.
Few == (p :> {<<x, y>>, <<blank, blank>>}) @@ (w :> {<<w>>})

Symmetry == Permutations(Cycles)
=============================================================================
