------------------------ MODULE MCConversationStream ------------------------
(* Instances of ConversationStream for TLC: no mishap of the log.           *)
EXTENDS ConversationStream

MCWorlds == {{}}
=============================================================================
