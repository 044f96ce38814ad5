-------------------------- MODULE MCExtractionCalls --------------------------
(* Sources of no or two windows, with an empty part, a part that is cut and   *)
(* parts that share a window; _windows on all texts of up to three parts.     *)
EXTENDS ExtractionCalls

CONSTANTS s1, s2, good, other

MCTexts   == {<<>>, <<0, 3>>, <<1, 1, 2>>}
MCSamples == UNION {[1..n -> 0..5] : n \in 0..3}
==============================================================================
