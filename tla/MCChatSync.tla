----------------------------- MODULE MCChatSync -----------------------------
(* ChatSync on small instances. *)
EXTENDS ChatSync
=============================================================================
