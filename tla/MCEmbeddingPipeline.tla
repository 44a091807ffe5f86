------------------------ MODULE MCEmbeddingPipeline ------------------------
(* Values of EmbeddingPipeline's constants for TLC.                        *)
EXTENDS EmbeddingPipeline, TLC

CONSTANTS f1, f2, c1, c2

\* f1 is the more important, and the one refused where one is.
FirstFirst == f1 :> 2 @@ f2 :> 1
============================================================================
