------------------------------ MODULE MCNwmLoop ------------------------------
(* Instances of NwmLoop for TLC.  A unit of time is a slice of 20 ms. *)
EXTENDS NwmLoop, MCClients

\* A clock that is set back now and then.
SetBack == {-3, 0}
=============================================================================
