--------------------------- MODULE MCEventDispatch ---------------------------
(* An instance of EventDispatch for TLC. *)
EXTENDS EventDispatch
=============================================================================
