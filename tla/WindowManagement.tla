-------------------------- MODULE WindowManagement --------------------------
(***************************************************************************)
(* What a window manager promises about the windows of other programs,     *)
(* without a list, a call stack or a queue: which windows it manages, and  *)
(* what may change that.  Clients implements this (ClientsImplements).     *)
(***************************************************************************)
CONSTANT Windows

VARIABLES
    alive,     \* the windows that exist
    exempt,    \* the windows that opted out of being managed
    requests,  \* the windows with a map request that was not looked at yet
    notices,   \* the windows with an unread word of destruction or withdrawal
    managed,   \* the windows under management
    up         \* whether the window manager lives

wmvars == <<alive, exempt, requests, notices, managed, up>>

\* Windows may be there already.
WMInit ==
    /\ alive \subseteq Windows /\ exempt \subseteq alive
    /\ requests = {} /\ notices = {}
    /\ managed = {} /\ up = TRUE

\* One of several messages about a window is read, or the last one.
Read(S, w, T) == w \in S /\ T \in {S, S \ {w}}

Create(w) ==
    /\ w \notin alive
    /\ alive' = alive \cup {w}
    /\ exempt' \in {exempt, exempt \cup {w}}
    /\ UNCHANGED <<requests, notices, managed, up>>

Ask(w) ==
    /\ w \in alive \ exempt
    /\ requests' = requests \cup {w}
    /\ UNCHANGED <<alive, exempt, notices, managed, up>>

\* The end of a window is noticed in every case; a withdrawal is announced.
End(w) ==
    /\ w \in alive
    /\ alive' = alive \ {w} /\ exempt' = exempt \ {w}
    /\ notices' = notices \cup {w}
    /\ UNCHANGED <<requests, managed, up>>

Withdraw(w) ==
    /\ w \in alive
    /\ notices' = notices \cup {w}
    /\ UNCHANGED <<alive, exempt, requests, managed, up>>

\* A request is honoured at once unless the window is gone or opted out.
Serve(w) ==
    /\ Read(requests, w, requests')
    /\ managed' = IF w \in alive \ exempt THEN managed \cup {w} ELSE managed
    /\ UNCHANGED <<alive, exempt, notices, up>>

\* No window leaves in any other way.
Release(w) ==
    /\ Read(notices, w, notices')
    /\ managed' = managed \ {w}
    /\ UNCHANGED <<alive, exempt, requests, up>>

Die ==
    /\ up' = FALSE
    /\ UNCHANGED <<alive, exempt, requests, notices, managed>>

WMNext ==
    /\ up
    /\ \/ \E w \in Windows :
              \/ Create(w) \/ Ask(w) \/ End(w) \/ Withdraw(w)
              \/ Serve(w) \/ Release(w)
       \/ Die

WMSpec == WMInit /\ [][WMNext]_wmvars
=============================================================================
