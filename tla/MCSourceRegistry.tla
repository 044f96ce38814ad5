--------------------------- MODULE MCSourceRegistry ---------------------------
(* Uploads of the same bytes as two sources, and promotions of two            *)
(* conversations in opposite orders.                                          *)
EXTENDS SourceRegistry

CONSTANTS bytes, talk1, talk2, note, copy, chat1, chat2

V(s, a) == [source |-> s, artifact |-> a]
Upload(v) == [kind |-> "upload", items |-> <<v>>]
Promotion(v, w) == [kind |-> "promotion", items |-> <<v, w>>]
Git(v) == [kind |-> "git", items |-> <<v>>]

MCArtifacts == {bytes, talk1, talk2}
MCSources == {note, copy, chat1, chat2}
MCCommands ==
  {Upload(V(note, bytes)), Upload(V(copy, bytes)), Git(V(copy, bytes)),
   Promotion(V(chat1, talk1), V(chat2, talk2)),
   Promotion(V(chat2, talk2), V(chat1, talk1))}
===============================================================================
