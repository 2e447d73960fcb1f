------------------------- MODULE MCClientsImplements -------------------------
(***************************************************************************)
(* Instances of ClientsImplements for TLC.                                 *)
(***************************************************************************)
EXTENDS ClientsImplements, MCClients

\* The hooks that auto-tile.scm installs are what the theorems about the
\* focus, the screen and the layout ask for.
ASSUME TilingConfiguration ==
    HooksSpareTheRemoved /\ HooksTile /\ TilesFit /\ IdsUsedOnce
=============================================================================
