--------------------------- MODULE MCGraphLinking ---------------------------
(* Values of GraphLinking's constants for TLC: two notes of one kind and an *)
(* error with its decision, the session's; far is close to nothing.         *)
EXTENDS GraphLinking, TLC

CONSTANTS old, mid, new, why, far

\* A chain: old and mid say the same, mid and new do, old and new are close.
Near(a, b, n) == {<<a, b, n>>, <<b, a, n>>}
Closeness(set) ==
  [f \in Frag |-> [g \in Frag |->
     IF \E n \in 1..2 : <<f, g, n>> \in set
     THEN CHOOSE n \in 1..2 : <<f, g, n>> \in set ELSE 0]]

Times == (old :> 1) @@ (mid :> 2) @@ (far :> 2) @@ (new :> 3) @@ (why :> 3)
TimesOf == [f \in Frag |-> Times[f]]
KindOf == [f \in Frag |-> IF f = why THEN "decision" ELSE "error"]
CloseOf == Closeness(Near(old, mid, 2) \union Near(mid, new, 2)
                     \union Near(old, new, 1) \union Near(new, why, 1))
ErrorAndDecision ==
  [k \in Kinds |-> CASE k = "error" -> <<new>> [] k = "decision" -> <<why>> [] OTHER -> <<>>]
=============================================================================
