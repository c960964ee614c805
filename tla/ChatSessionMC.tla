---------------------------- MODULE ChatSessionMC ----------------------------
(* ChatSession on small instances; the configurations choose the texts.    *)
EXTENDS ChatSession
=============================================================================
