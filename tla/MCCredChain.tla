----------------------------- MODULE MCCredChain -----------------------------
(* CredChain for TLC; its constants are all given in the .cfg. *)
EXTENDS CredChain
=============================================================================
