------------------------- MODULE MCKnowledgeCitations -------------------------
(* A candidate with two citations, and two versions of a record.  A relation  *)
(* of the candidate, one outside its draft set and two rival third versions   *)
(* are still to come; of a relation's endpoints the instance has only one.    *)
EXTENDS KnowledgeCitations

CONSTANTS cand, rel, astray, v1, v2, v3, rival, here, also, foreign, mine, other

MCVersions == {v1, v2, v3, rival}
MCOwners   == {cand, rel, astray} \cup MCVersions
MCProject == [x \in MCOwners \cup {here, also, foreign} |->
                IF x = foreign THEN other ELSE mine]
MCEnds == [o \in MCOwners |-> IF o \in {rel, astray} THEN {cand} ELSE {}]
MCEdition == [v \in MCVersions |->
                [record |-> mine, number |-> CASE v = v1 -> 1 [] v = v2 -> 2 [] OTHER -> 3]]
MCCites == {<<cand, here>>, <<cand, also>>, <<v1, here>>, <<v2, here>>}
===============================================================================
