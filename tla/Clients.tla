------------------------------- MODULE Clients -------------------------------
(***************************************************************************)
(* The window manager proper: the list of managed windows (nwm.c) with its *)
(* X event handlers, and the client procedures of the Scheme API           *)
(* (scheme.c) with the focus and tiling procedures of init.scm and         *)
(* auto-tile.scm.                                                          *)
(*                                                                         *)
(* nwm is one thread, but every one of its requests reaches a server that  *)
(* other programs change meanwhile.  A handler is therefore a sequence of  *)
(* steps, one per call that talks to the server: `todo' holds the calls    *)
(* the current handler, command and hooks have yet to make (what is left   *)
(* of the C and Scheme call stack), and the programs move between any two  *)
(* of them.  The next event or command is taken when `todo' is empty.      *)
(***************************************************************************)
EXTENDS XServer, SequencesExt

CONSTANTS
    Clients,      \* the addresses of the client_t structures
    NULL,         \* the null client_t pointer
    Unspecified,  \* Guile's unspecified value, where a client is expected
    Hooks,        \* the procedures of each hook, in the order they run
    ConfigProcs,  \* the procedures that other Scheme files put on hooks
    ConfigCalls,  \* the calls that those procedures and keys make of others
    Commands,     \* the commands given by key or over the REPL socket
    MayMisfit     \* whether the size of a tile may fit no uint16_t

HookNames == {"create-client-hook", "map-client-hook", "unmap-client-hook",
              "destroy-client-hook", "focus-client-hook", "update-client-hook"}

CoreProcs ==
    {"map_client", "unmap_client", "destroy_client", "kill_client", "free",
     "set_focus_client", "focus_client", "focus_next_client", "auto_tile",
     "focus_next", "focus_prev"}
Procs == CoreProcs \cup ConfigProcs

\* Nothing in scheme/ adds to update-client-hook, which runs inside auto_tile.
ASSUME ClientsAssumption ==
    /\ NULL \notin Clients /\ Unspecified \notin Clients
    /\ NULL # Unspecified
    /\ ConfigProcs \subseteq STRING \ {"free"}
    /\ \A e \in ConfigCalls : e.proc \notin CoreProcs
    /\ Hooks \in [HookNames -> Seq(Procs \ {"free"})]
    /\ Hooks["update-client-hook"] = <<>>
    /\ Commands \subseteq STRING
    /\ MayMisfit \in BOOLEAN

VARIABLES
    client_list,     \* the list of managed clients, newest first
    window,          \* window[c]: the field `window' of structure c
    next,            \* next[c]: the field `next' c had when it left the list
    todo,            \* the calls still to be made, next one first
    caught,          \* whether they are of a REPL expression: errors are caught
    tiled,           \* the windows that the last auto-tile arranged
    pointer_window,  \* wm_conf.pointer_window
    status           \* "running", or "dead" after a crash or an exit

nvars == <<client_list, window, next, todo, caught, tiled, pointer_window, status>>
vars == <<xvars, nvars>>

Call(proc, client) == [proc |-> proc, client |-> client]

\* Only the focus procedures of the Scheme API are called without a client.
CallSet ==
    [proc : Procs, client : Clients]
    \cup [proc : {"focus_client"}, client : {NULL}]
    \cup [proc : {"focus_client", "focus_next", "focus_prev"},
          client : {Unspecified}]
    \cup ConfigCalls

run_hook(hook, c) == [i \in 1..Len(Hooks[hook]) |-> Call(Hooks[hook][i], c)]

TypeOK ==
    /\ XTypeOK
    /\ client_list \in Seq(Clients)
    /\ window \in [Clients -> Windows \cup {NoWindow}]
    /\ next \in [Clients -> Clients \cup {NULL}]
    /\ todo \in Seq(CallSet)
    /\ caught \in BOOLEAN
    /\ tiled \subseteq Windows
    /\ pointer_window \in Windows \cup {NoWindow}
    /\ status \in {"running", "dead"}

Init ==
    /\ XInit
    /\ client_list = <<>>
    /\ window = [c \in Clients |-> NoWindow]
    /\ next = [c \in Clients |-> NULL]
    /\ todo = <<>> /\ caught = FALSE
    /\ tiled = {}
    /\ pointer_window = NoWindow
    /\ status = "running"

----------------------------------------------------------------------------
(* Reading the list.                                                       *)

Listed == {client_list[i] : i \in DOMAIN client_list}

\* find_client(w) stops at position i.
Finds(w, i) ==
    /\ i \in DOMAIN client_list /\ window[client_list[i]] = w
    /\ \A j \in 1..(i - 1) : window[client_list[j]] # w

Managed(w) == \E i \in DOMAIN client_list : window[client_list[i]] = w

first_client == IF client_list = <<>> THEN NULL ELSE client_list[1]

\* The field `next' of c: maintained by the list, or stale.
NextField(c) ==
    IF c \notin Listed THEN next[c]
    ELSE LET i == CHOOSE i \in DOMAIN client_list : client_list[i] = c
         IN IF i < Len(client_list) THEN client_list[i + 1] ELSE NULL

next_client(c) == IF NextField(c) # NULL THEN NextField(c) ELSE first_client

\* The walk never finds the head's or an unlisted client's predecessor.
prev_client(c) ==
    IF \E i \in 2..Len(client_list) : client_list[i] = c
    THEN client_list[(CHOOSE i \in 2..Len(client_list) : client_list[i] = c) - 1]
    ELSE client_list[Len(client_list)]

get_focus_client ==
    IF Managed(xfocus)
    THEN client_list[CHOOSE i \in DOMAIN client_list : Finds(xfocus, i)]
    ELSE Unspecified

\* The positions of (visible-clients), and the first of a set of positions.
VisibleAt == {i \in DOMAIN client_list : Mapped(window[client_list[i]])}
FirstOf(S, i) == i \in S /\ \A j \in S : i <= j

----------------------------------------------------------------------------
(* Control.                                                                *)

Idle == status = "running" /\ todo = <<>>

Calls(proc) == status = "running" /\ todo # <<>> /\ Head(todo).proc = proc
Arg == Head(todo).client

\* The current call is done, or makes other calls first.
StayCaught == caught' = (caught /\ todo' # <<>>)
Return == todo' = Tail(todo) /\ StayCaught
Then(calls) == todo' = calls \o Tail(todo) /\ StayCaught

\* A command makes those calls; a key catches no errors, the REPL does.
Start(calls) ==
    /\ todo' = calls
    /\ caught' \in {FALSE, calls # <<>>}

\* Dereferencing garbage, abort() or a Scheme error that nothing catches.
Crash ==
    /\ status' = "dead"
    /\ UNCHANGED <<xvars, client_list, window, next, todo, caught, tiled, pointer_window>>

----------------------------------------------------------------------------
(* The X event handlers.                                                   *)

TakeEvent(type) ==
    /\ Idle
    /\ xqueue # <<>> /\ Head(xqueue).type = type
    /\ xqueue' = Tail(xqueue)
    /\ caught' = FALSE
    /\ UNCHANGED <<xstate, xoverride, xfocus, lives>>
    /\ UNCHANGED <<tiled, pointer_window, status>>

EventWindow == Head(xqueue).window

\* Mutants: the new client is not put on the list; or it is never mapped.
manage_window_unlisted(c, w) ==
    /\ UNCHANGED client_list
    /\ window' = [window EXCEPT ![c] = w]
    /\ next' = [next EXCEPT ![c] = NULL]
    /\ todo' = run_hook("create-client-hook", c)
               \o <<Call("map_client", c), Call("map_client", c)>>

manage_window_unmapped(c, w) ==
    /\ client_list' = <<c>> \o client_list
    /\ window' = [window EXCEPT ![c] = w]
    /\ next' = [next EXCEPT ![c] = NULL]
    /\ todo' = run_hook("create-client-hook", c)

\* manage_window ends with a map_client, and its caller makes another one.
manage_window(c, w) ==
    /\ client_list' = <<c>> \o client_list
    /\ window' = [window EXCEPT ![c] = w]
    /\ next' = [next EXCEPT ![c] = NULL]
    /\ todo' = run_hook("create-client-hook", c)
               \o <<Call("map_client", c), Call("map_client", c)>>

\* Mutant: no find_client before manage_window.
handle_map_request_twice ==
    /\ TakeEvent("MapRequest")
    /\ Exists(EventWindow) /\ EventWindow \notin xoverride
    /\ \E c \in Clients \ Listed : manage_window(c, EventWindow)

handle_map_request_event ==
    /\ TakeEvent("MapRequest")
    /\ \/ /\ ~Exists(EventWindow) \/ EventWindow \in xoverride
          /\ UNCHANGED <<client_list, window, next, todo>>
       \/ /\ Exists(EventWindow) /\ EventWindow \notin xoverride
          /\ \E i \in DOMAIN client_list :
                /\ Finds(EventWindow, i)
                /\ todo' = <<Call("map_client", client_list[i])>>
          /\ UNCHANGED <<client_list, window, next>>
       \/ /\ Exists(EventWindow) /\ EventWindow \notin xoverride
          /\ ~Managed(EventWindow)
          /\ \E c \in Clients \ Listed : manage_window(c, EventWindow)

\* sglib_client_t_delete unlinks a structure and leaves its `next' alone.
Unlink(i) ==
    /\ client_list' = RemoveAt(client_list, i)
    /\ next' = [next EXCEPT ![client_list[i]] = NextField(client_list[i])]
    /\ UNCHANGED window

\* Mutant: the client stays on the list.
handle_destroy_notify_kept ==
    /\ TakeEvent("DestroyNotify")
    /\ \/ ~Managed(EventWindow) /\ UNCHANGED todo
       \/ \E i \in DOMAIN client_list :
             /\ Finds(EventWindow, i)
             /\ todo' = <<Call("destroy_client", client_list[i])>>
    /\ UNCHANGED <<client_list, window, next>>

handle_destroy_notify_event ==
    /\ TakeEvent("DestroyNotify")
    /\ \/ ~Managed(EventWindow) /\ UNCHANGED <<client_list, window, next, todo>>
       \/ \E i \in DOMAIN client_list :
             /\ Finds(EventWindow, i)
             /\ Unlink(i)
             /\ todo' = <<Call("destroy_client", client_list[i])>>

\* Mutants: the server's own notifications count as withdrawals; or the
\* window is taken to be unmapped already.
handle_unmap_notify_unsent ==
    /\ TakeEvent("UnmapNotify")
    /\ \/ /\ ~Managed(EventWindow)
          /\ UNCHANGED <<client_list, window, next, todo>>
       \/ \E i \in DOMAIN client_list :
             /\ Finds(EventWindow, i)
             /\ Unlink(i)
             /\ todo' = <<Call("unmap_client", client_list[i]),
                          Call("free", client_list[i])>>

handle_unmap_notify_trusting ==
    /\ TakeEvent("UnmapNotify")
    /\ \/ /\ ~Managed(EventWindow) \/ ~Head(xqueue).sent
          /\ UNCHANGED <<client_list, window, next, todo>>
       \/ /\ Head(xqueue).sent
          /\ \E i \in DOMAIN client_list :
                /\ Finds(EventWindow, i)
                /\ Unlink(i)
                /\ todo' = <<Call("free", client_list[i])>>

handle_unmap_notify_event ==
    /\ TakeEvent("UnmapNotify")
    /\ \/ /\ ~Managed(EventWindow) \/ ~Head(xqueue).sent
          /\ UNCHANGED <<client_list, window, next, todo>>
       \/ /\ Head(xqueue).sent
          /\ \E i \in DOMAIN client_list :
                /\ Finds(EventWindow, i)
                /\ Unlink(i)
                /\ todo' = <<Call("unmap_client", client_list[i]),
                             Call("free", client_list[i])>>

HandleEvent ==
    \/ handle_map_request_event
    \/ handle_destroy_notify_event
    \/ handle_unmap_notify_event

----------------------------------------------------------------------------
(* The calls.                                                              *)

map_client ==
    /\ Calls("map_client")
    /\ ServerMap(window[Arg])
    /\ Then(run_hook("map-client-hook", Arg))
    /\ UNCHANGED <<client_list, window, next, tiled, pointer_window, status>>

\* Mutant: the hook does not run.
unmap_client_quietly ==
    /\ Calls("unmap_client")
    /\ ServerUnmap(window[Arg])
    /\ Return
    /\ UNCHANGED <<client_list, window, next, tiled, pointer_window, status>>

unmap_client ==
    /\ Calls("unmap_client")
    /\ ServerUnmap(window[Arg])
    /\ Then(run_hook("unmap-client-hook", Arg))
    /\ UNCHANGED <<client_list, window, next, tiled, pointer_window, status>>

\* A window without WM_PROTOCOLS, or none at all, leaves `protocols'
\* uninitialized for the wipe: it may abort or do nothing.
destroy_client ==
    /\ Calls("destroy_client")
    /\ LET deletes == Exists(window[Arg]) /\ window[Arg] \in Polite
           hook == run_hook("destroy-client-hook", Arg)
       IN \/ /\ Then(IF deletes THEN hook
                     ELSE <<Call("kill_client", Arg)>> \o hook)
             /\ UNCHANGED <<xvars, client_list, window, next, tiled,
                            pointer_window, status>>
          \/ ~deletes /\ Crash

kill_client ==
    /\ Calls("kill_client")
    /\ ServerDestroy(window[Arg])
    /\ Return
    /\ UNCHANGED <<client_list, window, next, tiled, pointer_window, status>>

\* free() of a structure that Guile's collector allocated: it aborts, or
\* keeps or overwrites the first words of the structure.
free ==
    /\ Calls("free")
    /\ \/ /\ \E garbage \in {window[Arg], NoWindow} :
                window' = [window EXCEPT ![Arg] = garbage]
          /\ Return
          /\ UNCHANGED <<xvars, client_list, next, tiled, pointer_window, status>>
       \/ Crash

set_focus_client ==
    /\ Calls("set_focus_client")
    /\ ServerFocus(window[Arg])
    /\ Then(run_hook("focus-client-hook", Arg))
    /\ UNCHANGED <<client_list, window, next, tiled, pointer_window, status>>

\* Mutant: neither the pointer nor the map state is looked at.
focus_client_unchecked ==
    /\ Calls("focus_client")
    /\ Then(<<Call("set_focus_client",
                   IF Arg = Unspecified THEN first_client ELSE Arg)>>)
    /\ UNCHANGED <<xvars, client_list, window, next, tiled, pointer_window, status>>

focus_client ==
    /\ Calls("focus_client")
    /\ LET c == IF Arg = Unspecified THEN first_client ELSE Arg
       IN Then(IF c # NULL /\ Mapped(window[c])
               THEN <<Call("set_focus_client", c)>> ELSE <<>>)
    /\ UNCHANGED <<xvars, client_list, window, next, tiled, pointer_window, status>>

\* The removal hooks of auto-tile.scm: (focus-client (next-client client)).
focus_next_client ==
    /\ Calls("focus_next_client")
    /\ Then(<<Call("focus_client", next_client(Arg))>>)
    /\ UNCHANGED <<xvars, client_list, window, next, tiled, pointer_window, status>>

\* (auto-tile (visible-clients)); what it does to geometry is not kept here.
\* A size that fits no uint16_t raises an error with the clients before it
\* arranged, which ends the expression of the REPL or nwm.
auto_tile ==
    /\ Calls("auto_tile")
    /\ \/ /\ tiled' = {window[client_list[i]] : i \in VisibleAt}
          /\ Return /\ UNCHANGED status
       \/ /\ MayMisfit
          /\ \E k \in VisibleAt :
                tiled' = {window[client_list[i]] : i \in {j \in VisibleAt : j < k}}
          /\ \/ caught /\ todo' = <<>> /\ caught' = FALSE /\ UNCHANGED status
             \/ ~caught /\ status' = "dead" /\ UNCHANGED <<todo, caught>>
    /\ UNCHANGED <<xvars, client_list, window, next, pointer_window>>

\* The rest of focus-next and focus-prev, once (get-focus-client) is known.
FocusNeighbour(proc, neighbour) ==
    /\ Calls(proc)
    /\ \/ VisibleAt = {} /\ Return
       \/ \E i \in VisibleAt :
             /\ FirstOf(VisibleAt, i)
             /\ Then(<<Call("focus_client", IF Arg = Unspecified
                                            THEN client_list[i]
                                            ELSE neighbour)>>)
    /\ UNCHANGED <<xvars, client_list, window, next, tiled, pointer_window, status>>

focus_next == FocusNeighbour("focus_next", next_client(Arg))
focus_prev == FocusNeighbour("focus_prev", prev_client(Arg))

NwmStep ==
    \/ map_client \/ unmap_client \/ destroy_client \/ kill_client \/ free
    \/ set_focus_client \/ focus_client \/ focus_next_client \/ auto_tile
    \/ focus_next \/ focus_prev

----------------------------------------------------------------------------
(* Commands: key bindings and expressions sent to the REPL server.         *)

\* Bound: no command while QueueCap events are pending.
Command(name) == Idle /\ name \in Commands /\ Room

\* An error ends nwm under a key binding and is caught under the REPL.
Raise ==
    /\ status' \in {"running", "dead"}
    /\ UNCHANGED <<xvars, client_list, window, next, todo, caught, tiled, pointer_window>>

\* A command that makes one call on a client of its choice.
ClientCommand ==
    /\ \E c \in Listed :
          \/ Command("map-client") /\ Start(<<Call("map_client", c)>>)
          \/ Command("unmap-client") /\ Start(<<Call("unmap_client", c)>>)
          \/ Command("destroy-client") /\ Start(<<Call("destroy_client", c)>>)
    /\ UNCHANGED <<xvars, client_list, window, next, tiled, pointer_window, status>>

FocusCommand ==
    /\ \/ Command("focus-next") /\ Start(<<Call("focus_next", get_focus_client)>>)
       \/ Command("focus-prev") /\ Start(<<Call("focus_prev", get_focus_client)>>)
    /\ UNCHANGED <<xvars, client_list, window, next, tiled, pointer_window, status>>

\* (destroy-client (get-focus-client)) dereferences the unspecified value.
close ==
    /\ Command("close")
    /\ \/ /\ get_focus_client # Unspecified
          /\ Start(<<Call("destroy_client", get_focus_client)>>)
          /\ UNCHANGED <<xvars, client_list, window, next, tiled,
                         pointer_window, status>>
       \/ get_focus_client = Unspecified /\ Crash

client_list_reverse ==
    /\ Command("client-list-reverse")
    /\ client_list' = Reverse(client_list)
    /\ UNCHANGED <<xvars, window, next, todo, caught, tiled, pointer_window, status>>

\* client-list-swap exchanges the contents of two structures, not their
\* places; the binding of swap-master then focuses and tiles.
client_list_swap(c, d, master) ==
    /\ window' = [window EXCEPT ![c] = window[d], ![d] = window[c]]
    /\ Start(<<Call("focus_client", master), Call("auto_tile", master)>>)
    /\ UNCHANGED <<xvars, client_list, next, tiled, pointer_window, status>>

swap_master ==
    /\ Command("swap-master")
    /\ \/ VisibleAt = {} /\ Raise
       \/ VisibleAt # {} /\ get_focus_client = Unspecified /\ Crash
       \/ \E i \in VisibleAt :
             /\ FirstOf(VisibleAt, i)
             /\ get_focus_client = client_list[i]
             /\ \/ VisibleAt = {i} /\ Raise
                \/ \E j \in VisibleAt \ {i} :
                      /\ FirstOf(VisibleAt \ {i}, j)
                      /\ client_list_swap(client_list[i], client_list[j],
                                          client_list[i])
       \/ \E i \in VisibleAt :
             /\ FirstOf(VisibleAt, i)
             /\ get_focus_client \notin {Unspecified, client_list[i]}
             /\ client_list_swap(get_focus_client, client_list[i],
                                 client_list[i])

----------------------------------------------------------------------------
(* The third task of the event loop: focus follows the pointer.            *)

auto_focus_pointer ==
    /\ Idle
    /\ \E child \in {w \in Windows : Mapped(w) /\ "pointer" \in AppMoves}
                    \cup {NoWindow} :
          LET known == IF pointer_window = NoWindow THEN child ELSE pointer_window
          IN \/ /\ ~Managed(child)
                /\ pointer_window' = known
                /\ UNCHANGED todo
             \/ \E i \in DOMAIN client_list :
                   /\ Finds(child, i)
                   /\ pointer_window' = child
                   /\ todo' = IF known # child
                              THEN <<Call("set_focus_client", client_list[i])>>
                              ELSE <<>>
    /\ caught' = FALSE
    /\ UNCHANGED <<xvars, client_list, window, next, tiled, status>>

----------------------------------------------------------------------------
\* What the programs do once nwm is gone is not nwm's business.
AppAction == status = "running" /\ AppStep /\ UNCHANGED nvars

RunCommand ==
    \/ ClientCommand \/ FocusCommand \/ close
    \/ client_list_reverse \/ swap_master

Dead == status = "dead" /\ UNCHANGED vars

Next ==
    \/ AppAction
    \/ HandleEvent
    \/ NwmStep
    \/ RunCommand
    \/ auto_focus_pointer
    \/ Dead

Spec == Init /\ [][Next]_vars

\* Calls return, and the event loop gets back to the X events after at most
\* one turn of each other task: pending events are not starved by commands.
Fairness == WF_vars(NwmStep) /\ SF_vars(HandleEvent)
----------------------------------------------------------------------------
(* What some of the properties need of the configuration and the server.   *)

\* The procedures that run for a client that has left the list leave it and
\* its window alone: auto-tile.scm only looks for its neighbour, and tags.scm
\* unmaps it at most.
HooksSpareTheRemoved ==
    \A hook \in {"unmap-client-hook", "destroy-client-hook"} :
        \A i \in DOMAIN Hooks[hook] :
            Hooks[hook][i] \notin {"map_client", "focus_client", "set_focus_client"}

\* Every change of what is visible ends in (auto-tile (visible-clients)).
HooksTile ==
    \A hook \in {"map-client-hook", "unmap-client-hook", "destroy-client-hook"} :
        \E i \in DOMAIN Hooks[hook] : Hooks[hook][i] = "auto_tile"

\* Every size that auto-tile computes fits (see Tiling for when it does not).
TilesFit == ~MayMisfit

\* The server gives a new window an id that no window had before.
IdsUsedOnce == MaxLives = 1

----------------------------------------------------------------------------
(* Properties.                                                             *)

\* A window is managed through at most one structure: handle_map_request
\* looks the window up before it adds one, and no structure is listed twice.
NoDuplicateWindow ==
    \A i, j \in DOMAIN client_list :
        i # j => window[client_list[i]] # window[client_list[j]]

\* nwm never keeps a client whose window is gone: while one is listed, the
\* DestroyNotify that will remove it is still on its way.
NoZombieClient ==
    \A i \in DOMAIN client_list :
        ~Exists(window[client_list[i]]) =>
            Pending("DestroyNotify", window[client_list[i]])

\* A window that was put on the screen since nwm started and did not opt out is
\* under nwm's control, or nwm is about to unmap it (handle_unmap_notify_event).
\* What scan_windows found there stays as it is.  Ids not reused.
MappedIsManaged ==
    status = "running" =>
        \A w \in Windows :
            xstate[w] = "mapped" /\ w \notin xoverride =>
                \/ Managed(w)
                \/ \E i \in DOMAIN todo :
                      todo[i].proc = "unmap_client" /\ window[todo[i].client] = w

\* Between two handlers the layout is that of the present clients: whatever
\* is visible was there when auto-tile last ran, and whatever auto-tile
\* placed is still managed (the hooks auto-tile.scm installs, TilesFit).
LayoutFollowsClients ==
    Idle => /\ {window[client_list[i]] : i \in VisibleAt} \subseteq tiled
            /\ \A w \in tiled : Managed(w)

\* nwm gives the focus only to a window it manages at that moment, even when
\* the target was picked by following the `next' of a removed structure.
FocusGoesToManaged ==
    [][NwmStep /\ xfocus' \notin {xfocus, NoWindow} => Managed(xfocus')]_vars

\* A client leaves the list only because its window was destroyed or
\* withdrawn: it is never dropped by a command or a hook.
ClientsLeaveOnNotice ==
    [][\A w \in Windows :
          Managed(w) /\ ~Managed(w)' =>
             /\ xqueue # <<>> /\ EventWindow = w
             /\ \/ Head(xqueue).type = "DestroyNotify"
                \/ Head(xqueue).type = "UnmapNotify" /\ Head(xqueue).sent]_vars
=============================================================================
