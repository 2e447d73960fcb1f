------------------------------- MODULE XServer -------------------------------
(***************************************************************************)
(* The X server and the programs whose windows nwm manages, as far as nwm  *)
(* can tell them apart.  This is code outside the repository: it is        *)
(* modelled from the requests nwm.c sends and the events nwm.c handles.    *)
(*                                                                         *)
(* nwm selects SubstructureRedirect and SubstructureNotify on the root, so *)
(* a program's map request is turned into a MapRequest event instead of    *)
(* being performed, and every unmapping and destruction of a top-level     *)
(* window is reported.  Events reach nwm in the order they were sent.      *)
(* A window is a top-level one with a program of its own.                  *)
(***************************************************************************)
EXTENDS Integers, Sequences

CONSTANTS
    Windows,      \* the X resource ids that top-level windows can have
    NoWindow,     \* the id 0: no window; as an input focus, PointerRoot
    Polite,       \* the windows whose WM_PROTOCOLS holds WM_DELETE_WINDOW
    AtStart,      \* the windows that may be there before nwm starts
    MayOverride,  \* the windows that may be created with override-redirect
    AppMoves,     \* which optional moves the programs and the pointer make
    MaxLives,     \* bound: how often one id is used for a new window
    QueueCap      \* bound: programs wait while so many events are pending

ASSUME XServerAssumption ==
    /\ NoWindow \notin Windows
    /\ Polite \subseteq Windows
    /\ AtStart \subseteq Windows
    /\ MayOverride \subseteq Windows
    /\ AppMoves \subseteq {"unmap", "withdraw", "focus", "pointer"}
    /\ MaxLives \in Nat \ {0}
    /\ QueueCap \in Nat \ {0}

VARIABLES
    xstate,     \* xstate[w]: no such window, or its map state; a window is
                \*   "found" while it is mapped since before nwm started
    xoverride,  \* the windows that were created with override-redirect
    xfocus,     \* the window that has the input focus
    xqueue,     \* the events nwm has not taken yet, oldest first
    lives       \* how many windows have been created under each id

xvars == <<xstate, xoverride, xfocus, xqueue, lives>>

Event(type, w, sent) == [type |-> type, window |-> w, sent |-> sent]

EventSet ==
    [type : {"MapRequest", "UnmapNotify", "DestroyNotify"},
     window : Windows, sent : BOOLEAN]

XTypeOK ==
    /\ xstate \in [Windows -> {"absent", "unmapped", "mapped", "found"}]
    /\ xoverride \subseteq Windows
    /\ xfocus \in Windows \cup {NoWindow}
    /\ xqueue \in Seq(EventSet)
    /\ lives \in [Windows -> Nat]

\* scan_windows lists the windows that are there, but puts none under control.
XInit ==
    /\ xstate \in {states \in [Windows -> {"absent", "unmapped", "found"}] :
                      \A w \in Windows : w \in AtStart \/ states[w] = "absent"}
    /\ xoverride \in SUBSET {w \in MayOverride : xstate[w] # "absent"}
    /\ xfocus \in {w \in Windows : xstate[w] = "found"} \cup {NoWindow}
    /\ xqueue = <<>>
    /\ lives = [w \in Windows |-> IF xstate[w] = "absent" THEN 0 ELSE 1]

Exists(w) == w \in Windows /\ xstate[w] # "absent"
Mapped(w) == w \in Windows /\ xstate[w] \in {"mapped", "found"}
Pending(type, w) ==
    \E i \in DOMAIN xqueue : xqueue[i].type = type /\ xqueue[i].window = w

----------------------------------------------------------------------------
(* What the server does for a request.  The focus goes back to PointerRoot *)
(* with the window that had it.                                            *)

DropFocus(w) == xfocus' = IF xfocus = w THEN NoWindow ELSE xfocus

ServerMap(w) ==
    /\ xstate' = IF Exists(w) /\ ~Mapped(w)
                 THEN [xstate EXCEPT ![w] = "mapped"] ELSE xstate
    /\ UNCHANGED <<xoverride, xfocus, xqueue, lives>>

Unmapping(w) == IF Mapped(w) THEN <<Event("UnmapNotify", w, FALSE)>> ELSE <<>>

ServerUnmap(w) ==
    /\ xstate' = IF Mapped(w) THEN [xstate EXCEPT ![w] = "unmapped"] ELSE xstate
    /\ DropFocus(w)
    /\ xqueue' = xqueue \o Unmapping(w)
    /\ UNCHANGED <<xoverride, lives>>

\* A focus request for a window that is not viewable is a BadMatch error.
ServerFocus(w) ==
    /\ xfocus' = IF Mapped(w) THEN w ELSE xfocus
    /\ UNCHANGED <<xstate, xoverride, xqueue, lives>>

ServerDestroy(w) ==
    IF Exists(w)
    THEN /\ xstate' = [xstate EXCEPT ![w] = "absent"]
         /\ xoverride' = xoverride \ {w}
         /\ DropFocus(w)
         /\ xqueue' = xqueue \o Unmapping(w)
                             \o <<Event("DestroyNotify", w, FALSE)>>
         /\ UNCHANGED lives
    ELSE UNCHANGED xvars

----------------------------------------------------------------------------
(* What the programs do, at any time.                                      *)

Room == Len(xqueue) < QueueCap

AppCreate(w) ==
    /\ xstate[w] = "absent" /\ lives[w] < MaxLives
    /\ xstate' = [xstate EXCEPT ![w] = "unmapped"]
    /\ lives' = [lives EXCEPT ![w] = @ + 1]
    /\ \/ UNCHANGED xoverride
       \/ w \in MayOverride /\ xoverride' = xoverride \cup {w}
    /\ UNCHANGED <<xfocus, xqueue>>

\* Mapping is redirected to the window manager unless the window opted out.
AppMap(w) ==
    /\ xstate[w] = "unmapped"
    /\ IF w \in xoverride
       THEN ServerMap(w)
       ELSE /\ Room
            /\ xqueue' = Append(xqueue, Event("MapRequest", w, FALSE))
            /\ UNCHANGED <<xstate, xoverride, xfocus, lives>>

\* Unmapping without telling the window manager, against ICCCM 4.1.4.
AppUnmap(w) ==
    /\ "unmap" \in AppMoves
    /\ Mapped(w) /\ Room
    /\ ServerUnmap(w)

\* Withdrawing: unmap, then a synthetic UnmapNotify to the root.
AppWithdraw(w) ==
    /\ "withdraw" \in AppMoves
    /\ Exists(w) /\ Room
    /\ xstate' = [xstate EXCEPT ![w] = "unmapped"]
    /\ DropFocus(w)
    /\ xqueue' = xqueue \o Unmapping(w) \o <<Event("UnmapNotify", w, TRUE)>>
    /\ UNCHANGED <<xoverride, lives>>

AppDestroy(w) ==
    /\ Exists(w) /\ Room
    /\ ServerDestroy(w)

AppFocus(w) ==
    /\ "focus" \in AppMoves
    /\ Mapped(w)
    /\ ServerFocus(w)

AppStep ==
    \E w \in Windows :
        \/ AppCreate(w) \/ AppMap(w) \/ AppUnmap(w)
        \/ AppWithdraw(w) \/ AppDestroy(w) \/ AppFocus(w)
=============================================================================
