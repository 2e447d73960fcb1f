---------------------------- MODULE MCReplBuffers ----------------------------
(* Instances of ReplBuffers for TLC. *)
EXTENDS ReplBuffers

ASSUME LineConfiguration == LinesFit
=============================================================================
