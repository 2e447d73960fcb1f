------------------------------ MODULE MCClients ------------------------------
(***************************************************************************)
(* Instances of Clients for TLC: the hook configurations nwm is run with.  *)
(***************************************************************************)
EXTENDS Clients

\* init.scm is absent, or failed before it added a hook.
NoHooks == [h \in HookNames |-> <<>>]

\* init.scm and auto-tile.scm without tags.scm.  add-hook! puts the newest
\* procedure first.  What focus-client-hook holds redraws the borders.
TilingHooks ==
    [NoHooks EXCEPT
        !["map-client-hook"] = <<"auto_tile", "focus_client">>,
        !["unmap-client-hook"] = <<"auto_tile", "focus_next_client">>,
        !["destroy-client-hook"] = <<"auto_tile", "focus_next_client">>]

CoreCommands == {"map-client", "unmap-client", "destroy-client", "client-list-reverse"}
KeyCommands == {"focus-next", "focus-prev", "close", "swap-master"}
AllCommands == CoreCommands \cup KeyCommands
StructSymmetry == Permutations(Clients)
AllMoves == {"unmap", "withdraw", "focus", "pointer"}
=============================================================================
