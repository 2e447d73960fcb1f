-------------------------- MODULE ClientsImplements --------------------------
(***************************************************************************)
(* Clients implements WindowManagement.  The abstract state is read off    *)
(* the client list and the event queue; the call stack, the focus, the     *)
(* layout and the map states are steps the abstract specification does not *)
(* see.                                                                    *)
(***************************************************************************)
EXTENDS Clients

ManagedWindows == {w \in Windows : Managed(w)}

Tells(event, w) ==
    /\ event.window = w
    /\ \/ event.type = "DestroyNotify"
       \/ event.type = "UnmapNotify" /\ event.sent

WM == INSTANCE WindowManagement WITH
    alive <- {w \in Windows : Exists(w)},
    exempt <- xoverride,
    requests <- {w \in Windows : Pending("MapRequest", w)},
    notices <- {w \in Windows : \E i \in DOMAIN xqueue : Tells(xqueue[i], w)},
    managed <- ManagedWindows,
    up <- (status = "running")

\* nwm keeps the promises of a window manager: every map request it reads is
\* honoured unless the window is gone or opted out (handle_map_request_event),
\* and a window is let go for a notice about it only (handle_destroy_notify_event,
\* handle_unmap_notify_event), whatever hooks and commands do in between.
Implements == WM!WMSpec
=============================================================================
