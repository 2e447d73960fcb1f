-------------------------------- MODULE Tags ---------------------------------
(***************************************************************************)
(* Window tags (scheme/tags.scm) on top of the window manager: which       *)
(* clients carry which tag, which tags are visible, and the mapping and    *)
(* unmapping of clients that follows from both.                            *)
(*                                                                         *)
(* The tags reach into Clients through its hooks and its calls, and are    *)
(* called by them.  tags_assoc is the key order of `tags-assoc'; visible   *)
(* and tagged hold the car and the cdr of each entry.                      *)
(***************************************************************************)
EXTENDS Clients

CONSTANTS
    Tags,      \* the objects used as tags
    InitTags,  \* the tags that tags.scm creates, as tags-assoc lists them
    MaxTagged  \* bound: how many entries the client list of a tag may get

TagCall(proc, client, tag) == [proc |-> proc, client |-> client, tag |-> tag]
TagCallSet ==
    [proc : {"tag_remove_client"}, client : Clients, tag : Tags]
    \cup [proc : {"change_visibility", "untag_client_hook"}, client : {Unspecified}]

\* One turn of tag-switch: the entry it looks at and the tag switched to.
SwitchCall(cur, t) ==
    [proc |-> "tag_switch", client |-> NULL, tag |-> cur, target |-> t]
SwitchCallSet == [proc : {"tag_switch"}, client : {NULL}, tag : Tags, target : Tags]

\* tags.scm puts tag-new-client on one hook and untag-client on another.
TagsHooked ==
    /\ \A hook \in HookNames \ {"create-client-hook"} :
          "tag_new_client" \notin ToSet(Hooks[hook])
    /\ "untag_client" \in ToSet(Hooks["destroy-client-hook"])

ASSUME TagsAssumption ==
    /\ InitTags \in Seq(Tags) /\ InitTags # <<>>
    /\ \A i, j \in DOMAIN InitTags : i # j => InitTags[i] # InitTags[j]
    /\ MaxTagged \in Nat
    /\ ConfigProcs = {"tag_new_client", "untag_client", "untag_client_hook",
                      "change_visibility"}
    /\ ConfigCalls = TagCallSet \cup SwitchCallSet
    /\ TagsHooked

VARIABLES
    tags_assoc,  \* the tags, in the order of the association list
    visible,     \* visible[t]: the visibility state of tag t
    tagged       \* tagged[t]: the list of clients with tag t

tvars == <<tags_assoc, visible, tagged>>
tagsVars == <<vars, tvars>>

TagsTypeOK ==
    /\ TypeOK
    /\ tags_assoc \in Seq(Tags)
    /\ visible \in [Tags -> BOOLEAN]
    /\ tagged \in [Tags -> Seq(Clients \cup {Unspecified})]

\* Only the first tag is created visible.
TagsInit ==
    /\ Init
    /\ tags_assoc = InitTags
    /\ visible = [t \in Tags |-> t = InitTags[1]]
    /\ tagged = [t \in Tags |-> <<>>]

----------------------------------------------------------------------------
(* Reading the tags.                                                       *)

IsTag(t) == \E i \in DOMAIN tags_assoc : tags_assoc[i] = t

\* equal? on clients compares their windows (equalp_client).
Equal(a, b) ==
    \/ a = b
    \/ a \in Clients /\ b \in Clients /\ window[a] = window[b]

HasTag(c, t) == \E i \in DOMAIN tagged[t] : Equal(tagged[t][i], c)

client_get_visibility(c) ==
    \E i \in DOMAIN tags_assoc : visible[tags_assoc[i]] /\ HasTag(c, tags_assoc[i])

\* The entries of s at the positions in S, in their order.
Nth(S, k) == CHOOSE i \in S : Cardinality({j \in S : j <= i}) = k
Keep(s, S) == [k \in 1..Cardinality(S) |-> s[Nth(S, k)]]

client_get_tag_list(c) ==
    Keep(tags_assoc, {i \in DOMAIN tags_assoc : HasTag(c, tags_assoc[i])})

----------------------------------------------------------------------------
(* The calls of tags.scm.                                                  *)

Unchanged(v) == UNCHANGED v /\ UNCHANGED <<client_list, window, next, tiled, pointer_window>>

\* Mutant: such a value counts as an unmapped client.
MappedOrNot(c, then, else) ==
    /\ UNCHANGED status
    /\ Then(IF c # Unspecified /\ Mapped(window[c]) THEN then ELSE else)

\* mapped? on something that is no client reads through a wild pointer.
MappedOr(c, then, else) ==
    IF c = Unspecified THEN status' = "dead" /\ UNCHANGED <<todo, caught>>
    ELSE UNCHANGED status /\ Then(IF Mapped(window[c]) THEN then ELSE else)

\* create-client-hook: the new client gets every visible tag, or else the
\* first one and is unmapped.
tag_new_client ==
    /\ Calls("tag_new_client")
    /\ \/ /\ tags_assoc = <<>> \/ \E i \in DOMAIN tags_assoc : visible[tags_assoc[i]]
          /\ tagged' = [t \in Tags |-> IF IsTag(t) /\ visible[t]
                                       THEN Append(tagged[t], Arg) ELSE tagged[t]]
          /\ Return
       \/ /\ tags_assoc # <<>> /\ \A i \in DOMAIN tags_assoc : ~visible[tags_assoc[i]]
          /\ tagged' = [tagged EXCEPT ![tags_assoc[1]] = Append(@, Arg)]
          /\ Then(<<Call("unmap_client", Arg)>>)
    /\ Unchanged(<<xvars, status, tags_assoc, visible>>)

\* Mutant: only the first of its tags is removed.
untag_client_once ==
    /\ Calls("untag_client")
    /\ LET of == client_get_tag_list(Arg)
       IN Then(IF of = <<>> THEN <<>>
               ELSE <<TagCall("tag_remove_client", Arg, of[1])>>)
    /\ Unchanged(<<xvars, status, tvars>>)

\* destroy-client-hook: the list of tags is computed before the first removal.
untag_client ==
    /\ Calls("untag_client")
    /\ LET of == client_get_tag_list(Arg)
       IN Then([i \in 1..Len(of) |-> TagCall("tag_remove_client", Arg, of[i])])
    /\ Unchanged(<<xvars, status, tvars>>)

\* delete removes every entry equal to the client.
Delete(c, s) == Keep(s, {i \in DOMAIN s : ~Equal(s[i], c)})

\* A procedure is called by a key or the REPL, or by another one.
Begin(calls) == IF Idle THEN Start(calls) ELSE Then(calls)

TagRemove(c, t) ==
    /\ tagged' = [tagged EXCEPT ![t] = Delete(c, @)]
    /\ Begin(IF HasTag(c, t) THEN <<Call("untag_client_hook", c)>> ELSE <<>>)

tag_remove_client ==
    /\ Calls("tag_remove_client")
    /\ TagRemove(Arg, Head(todo).tag)
    /\ Unchanged(<<xvars, status, tags_assoc, visible>>)

\* untag-client-hook: a client without a visible tag is unmapped.
untag_client_hook ==
    /\ Calls("untag_client_hook")
    /\ IF client_get_visibility(Arg)
       THEN Return /\ UNCHANGED status
       ELSE MappedOr(Arg, <<Call("unmap_client", Arg)>>, <<>>)
    /\ Unchanged(<<xvars, tvars>>)

\* Mutant: clients are hidden but never shown again.
change_visibility_hides ==
    /\ Calls("change_visibility")
    /\ IF client_get_visibility(Arg)
       THEN Return /\ UNCHANGED status
       ELSE MappedOr(Arg, <<Call("unmap_client", Arg)>>, <<>>)
    /\ Unchanged(<<xvars, tvars>>)

\* One turn of clients-change-visibility.
change_visibility ==
    /\ Calls("change_visibility")
    /\ IF client_get_visibility(Arg)
       THEN MappedOr(Arg, <<>>, <<Call("map_client", Arg)>>)
       ELSE MappedOr(Arg, <<Call("unmap_client", Arg)>>, <<>>)
    /\ Unchanged(<<xvars, tvars>>)

ChangeVisibility(clients) ==
    [i \in 1..Len(clients) |-> Call("change_visibility", clients[i])]

ToggleVisibility(t) ==
    /\ visible' = [visible EXCEPT ![t] = ~@]
    /\ Begin(ChangeVisibility(tagged[t]))

\* Mutant: the tag switched to is toggled, visible or not.
tag_switch_toggles ==
    /\ Calls("tag_switch")
    /\ LET cur == Head(todo).tag
       IN \/ (visible[cur] \/ cur = Head(todo).target) /\ ToggleVisibility(cur)
          \/ ~visible[cur] /\ cur # Head(todo).target /\ Return /\ UNCHANGED visible
    /\ Unchanged(<<xvars, status, tags_assoc, tagged>>)

tag_switch ==
    /\ Calls("tag_switch")
    /\ LET cur == Head(todo).tag
       IN \/ visible[cur] # (cur = Head(todo).target) /\ ToggleVisibility(cur)
          \/ visible[cur] = (cur = Head(todo).target) /\ Return /\ UNCHANGED visible
    /\ Unchanged(<<xvars, status, tags_assoc, tagged>>)

TagStep ==
    \/ tag_new_client \/ untag_client \/ tag_remove_client
    \/ untag_client_hook \/ change_visibility \/ tag_switch

----------------------------------------------------------------------------
(* The keys of a tag (set-tag-key), and the procedures for the REPL.       *)

toggle_visibility_key(t) ==
    /\ Command("tag-toggle-visibility") /\ IsTag(t)
    /\ ToggleVisibility(t)
    /\ Unchanged(<<xvars, status, tags_assoc, tagged>>)

\* tag-toggle-client: without a focused client the tag gets the unspecified
\* value.
toggle_client_key(t) ==
    /\ Command("tag-toggle-client") /\ IsTag(t)
    /\ \/ HasTag(get_focus_client, t) /\ TagRemove(get_focus_client, t)
       \/ /\ ~HasTag(get_focus_client, t)
          /\ tagged' = [tagged EXCEPT ![t] = Append(@, get_focus_client)]
          /\ UNCHANGED <<todo, caught>>
    /\ Unchanged(<<xvars, status, tags_assoc, visible>>)

switch_key(t) ==
    /\ Command("tag-switch") /\ IsTag(t)
    /\ Start([i \in 1..Len(tags_assoc) |-> SwitchCall(tags_assoc[i], t)])
    /\ Unchanged(<<xvars, status, tvars>>)

\* A tag that does not exist yet.
create_tag(t) ==
    /\ Command("create-tag") /\ ~IsTag(t)
    /\ tags_assoc' = <<t>> \o tags_assoc
    /\ visible' \in {[visible EXCEPT ![t] = v] : v \in BOOLEAN}
    /\ tagged' = [tagged EXCEPT ![t] = <<>>]
    /\ Unchanged(<<xvars, todo, caught, status>>)

AllBut(t) == Keep(tags_assoc, {i \in DOMAIN tags_assoc : tags_assoc[i] # t})

\* Mutant: the clients of the tag are forgotten.
destroy_tag_forgets(t) ==
    /\ Command("destroy-tag") /\ IsTag(t)
    /\ tags_assoc' = AllBut(t)
    /\ visible' = [visible EXCEPT ![t] = FALSE]
    /\ tagged' = [tagged EXCEPT ![t] = <<>>]
    /\ Unchanged(<<xvars, todo, caught, status>>)

\* All clients of the tag go to the tag that is then first; without one, the
\* car of the empty list is an error.
destroy_tag(t) ==
    /\ Command("destroy-tag") /\ IsTag(t)
    /\ tags_assoc' = AllBut(t)
    /\ visible' = [visible EXCEPT ![t] = FALSE]
    /\ LET moved == IF tags_assoc' = <<>> THEN tagged
                    ELSE [tagged EXCEPT ![tags_assoc'[1]] = @ \o tagged[t]]
       IN tagged' = [moved EXCEPT ![t] = <<>>]
    /\ \A u \in Tags : Len(tagged'[u]) <= MaxTagged
    /\ Unchanged(<<xvars, todo, caught, status>>)

TagCommand ==
    \E t \in Tags :
        \/ toggle_visibility_key(t) \/ toggle_client_key(t) \/ switch_key(t)
        \/ create_tag(t) \/ destroy_tag(t)

----------------------------------------------------------------------------
\* Bound: no new client while the client list of a tag is full.
TagRoom == \A t \in Tags : Len(tagged[t]) < MaxTagged

ClientsAction ==
    /\ Next
    /\ Len(client_list') > Len(client_list) => TagRoom
    /\ UNCHANGED tvars

TagsNext == ClientsAction \/ TagStep \/ TagCommand

TagsSpec == TagsInit /\ [][TagsNext]_tagsVars
----------------------------------------------------------------------------
\* The programs leave their windows mapped, and so do the commands and the
\* hooks but those of tags.scm; no tag is destroyed.
OnlyTagsUnmap ==
    /\ AppMoves \cap {"unmap", "withdraw"} = {}
    /\ Commands \cap {"unmap-client", "destroy-tag"} = {}
    /\ \A hook \in HookNames : "unmap_client" \notin ToSet(Hooks[hook])

----------------------------------------------------------------------------
(* Properties.                                                             *)

\* Between two handlers, with every event handled, a managed client with a
\* visible tag is on the screen (tags.scm:141-142), however its tags, their
\* visibility and the client list were changed.
VisibleTagIsMapped ==
    Idle /\ xqueue = <<>> =>
        \A c \in Listed : client_get_visibility(c) => Mapped(window[c])

\* A destroyed client is in no tag (tags.scm:205-209): what a tag lists is a
\* managed client, when no program withdraws its window.
TaggedIsManaged ==
    Idle => \A t \in Tags : \A i \in DOMAIN tagged[t] :
                tagged[t][i] \in Listed \cup {Unspecified}

\* tag-switch leaves exactly the tag it was given visible, though it changes
\* them one by one with hooks running in between.
Switching == \E i \in DOMAIN todo : todo[i].proc = "tag_switch"
SwitchShowsOneTag ==
    [][Calls("tag_switch") /\ ~Switching' =>
          \A i \in DOMAIN tags_assoc :
              visible'[tags_assoc[i]] = (tags_assoc[i] = Head(todo).target)]_tagsVars

\* destroy-tag drops a tag without leaving any client that carried it
\* tagless, while another tag is left.
DestroyTagKeepsTagged ==
    [][\A t \in Tags : IsTag(t) /\ ~IsTag(t)' /\ tags_assoc' # <<>> =>
          \A c \in Listed : client_get_tag_list(c) # <<>> =>
                            (client_get_tag_list(c) # <<>>)']_tagsVars
=============================================================================
