------------------------ MODULE MCIngestionPipeline ------------------------
(* Values of IngestionPipeline's constants that a .cfg cannot write down. *)
EXTENDS IngestionPipeline, TLC

CONSTANTS w1, w2, n1, x1, v1, hostA, hostB

OneLabel  == (w1 :> hostA) @@ (w2 :> hostA)
TwoLabels == (w1 :> hostA) @@ (w2 :> hostB)

\* Two attempts for every job.
Two == (w1 :> 2) @@ (w2 :> 2)

Normalizations == v1 :> n1
Extractions    == v1 :> x1
=============================================================================
