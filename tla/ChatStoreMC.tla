---------------------------- MODULE ChatStoreMC ----------------------------
(* The history on small instances.                                          *)
EXTENDS ChatStore
=============================================================================
