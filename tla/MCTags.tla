-------------------------------- MODULE MCTags --------------------------------
(***************************************************************************)
(* Instances of Tags for TLC: nwm with the whole configuration of scheme/. *)
(***************************************************************************)
EXTENDS Tags

\* init.scm, auto-tile.scm and tags.scm; add-hook! puts the newest first.
ShippedHooks ==
    ("create-client-hook" :> <<"tag_new_client">>) @@
    ("map-client-hook" :> <<"auto_tile", "focus_client">>) @@
    ("unmap-client-hook" :> <<"auto_tile", "focus_next_client">>) @@
    ("destroy-client-hook" :> <<"untag_client", "auto_tile", "focus_next_client">>) @@
    [hook \in HookNames |-> <<>>]

\* Two of the nine tags.
CONSTANTS t1, t2
TwoTags == <<t1, t2>>
TagCalls == TagCallSet \cup SwitchCallSet

TagKeys == {"close", "tag-toggle-visibility", "tag-toggle-client", "tag-switch"}
TagAdmin == {"tag-toggle-client", "tag-switch", "create-tag", "destroy-tag"}
StructSymmetry == Permutations(Clients)

\* Nothing but the tags unmaps while the programs leave their windows mapped
\* and only the keys are pressed.
ASSUME KeysOnly == AppMoves = {} /\ Commands = TagKeys => OnlyTagsUnmap
=============================================================================
