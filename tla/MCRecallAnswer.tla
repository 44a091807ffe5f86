--------------------------- MODULE MCRecallAnswer ---------------------------
(* Values of RecallAnswer's constants for TLC. Importance counts 4, a       *)
(* similarity 3, and proximity at most 7: nothing ranks alike.              *)
EXTENDS RecallAnswer, TLC

CONSTANTS a, b, c, d

KindOf == [f \in Frag |-> IF f \in {a, b} THEN "error" ELSE "decision"]
ImportanceOf == [f \in Frag |-> CASE f = a -> 9 [] f = b -> 5 [] f = c -> 7 [] f = d -> 1]
BornOf == [f \in Frag |-> CASE f = a -> 2 [] f = b -> 0 [] f = c -> 1 [] f = d -> 2]
LengthOf == [f \in Frag |-> IF f = b THEN 2 ELSE 1]
AlikeOf == [f \in Frag |-> CASE f = a -> 3 [] f = c -> 2 [] OTHER -> 0]

\* b, older than a and a little more important, overtakes it as time goes by.
Aged == [f \in Frag |-> CASE f = a -> 5 [] f = b -> 6 [] f = c -> 8 [] f = d -> 1]

Nearness == <<7, 3, 2, 1>>

Plain == [kw |-> TRUE, type |-> "any", text |-> FALSE, at |-> <<>>, links |-> FALSE, least |-> 0]
Errors == [Plain EXCEPT !.type = "error", !.links = TRUE]
Text == [Plain EXCEPT !.kw = FALSE, !.text = TRUE]
AsOf == [Plain EXCEPT !.at = <<1>>]
Close == [Plain EXCEPT !.least = 3]

Usual == {Plain, Errors, Text}
Dated == {AsOf}
Far == {Close, Text}
ErrorAndDecision == <<"error", "decision">>

\* What the proof about pages asks for.
ASSUME NothingTied == Untied
=============================================================================
