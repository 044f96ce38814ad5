----------------------- MODULE MCConversationStaging -----------------------
(* Model values for ConversationStaging. *)
EXTENDS ConversationStaging

CONSTANTS s1, r1, r2
=============================================================================
