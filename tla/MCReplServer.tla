---------------------------- MODULE MCReplServer ----------------------------
(* Instances of ReplServer for TLC. *)
EXTENDS ReplServer
=============================================================================
