----------------------------- MODULE KeyBindings -----------------------------
(***************************************************************************)
(* Keys and the procedures bound to them: bind-key (scheme.c), the list of *)
(* bindings, the grabs it makes and the dispatch of key presses (nwm.c).   *)
(*                                                                         *)
(* A keyboard layout gives every keycode a row of keysyms: what the key    *)
(* means alone, with shift, and so on.  nwm reads it once.                 *)
(***************************************************************************)
EXTENDS Integers, Sequences

CONSTANTS
    Keycodes,   \* the keys of the keyboard
    Startup,    \* the layout of the keyboard when nwm starts
    Layouts,    \* the layouts it can be given later (xmodmap)
    Characters, \* the strings of length 1
    Keys,       \* what bind-key is given for a key: <<type, value>>
    ModMasks,   \* what bind-key is given for the modifiers
    Buttons,    \* the mouse button held during a key press: 0 or its bit
    Procs,      \* the procedures that are bound
    Named,      \* those that a Scheme variable holds, too
    MayRaise,   \* those that can end in a Scheme error
    NoProc,     \* SCM_UNDEFINED
    MaxBindings, QueueCap  \* bounds: calls of bind-key; unhandled key presses

\* The names get_keysym knows, and 0 for the keysym of any other.
KeyNames == [Enter |-> "Return", Backspace |-> "BackSpace", Delete |-> "Delete",
             Escape |-> "Escape", Tab |-> "Tab", Left |-> "Left",
             Right |-> "Right", Down |-> "Down", Up |-> "Up", Space |-> "space"]
NoSymbol == "NoSymbol"

ASSUME KeyBindingsAssumption ==
    /\ \A rows \in Layouts \cup {Startup} :
          \A k \in Keycodes : rows[k] \in Seq(STRING) /\ rows[k] # <<>>
    /\ ModMasks \subseteq Nat /\ Buttons \subseteq Nat /\ 0 \in Buttons
    /\ \A m \in ModMasks, n \in ModMasks, b \in Buttons \ {0} : m + b # n
    /\ Named \subseteq Procs /\ MayRaise \subseteq Procs /\ NoProc \notin Procs
    /\ MaxBindings \in Nat /\ QueueCap \in Nat

VARIABLES
    keybinding_list,  \* the bindings, newest first
    key_syms,         \* nwm's copy of the layout, wm_conf.key_syms
    collected,        \* the procedures whose memory Guile has taken back
    status,           \* "running" or "dead"
    layout,           \* the X server: the layout in force
    grabs,            \*   the pairs of modifiers and keycode grabbed for nwm
    xqueue,           \*   the key presses nwm has not read
    ran,              \* history: what the last key press handled has run
    bound             \* history: the last procedure asked for, per keysym and
                      \*   modifiers

kvars == <<keybinding_list, key_syms, collected, status, layout, grabs, xqueue,
           ran, bound>>

\* get_keysym: one character stands for itself.
get_keysym(key) ==
    IF key \in Characters THEN key
    ELSE IF key \in DOMAIN KeyNames THEN KeyNames[key] ELSE NoSymbol

\* A number is a keysym, a string is looked up, anything else is ignored.
KeysymOf(key) == IF key[1] = "number" THEN key[2] ELSE get_keysym(key[2])

Keysyms == {KeysymOf(key) : key \in {key \in Keys : key[1] # "other"}}

KeysTypeOK ==
    /\ keybinding_list \in Seq([keysym : Keysyms, mod_mask : ModMasks, scm_proc : Procs])
    /\ key_syms = Startup
    /\ collected \subseteq Procs
    /\ status \in {"running", "dead"}
    /\ layout \in Layouts \cup {Startup}
    /\ grabs \subseteq ModMasks \X Keycodes
    /\ xqueue \in Seq([detail : Keycodes, state : {m + b : m \in ModMasks, b \in Buttons}])
    /\ ran \in Procs \cup {NoProc}
    /\ bound \in [Keysyms \X ModMasks -> Procs \cup {NoProc}]

KeysInit ==
    /\ keybinding_list = <<>>
    /\ key_syms = Startup /\ layout = Startup
    /\ collected = {} /\ status = "running"
    /\ grabs = {} /\ xqueue = <<>>
    /\ ran = NoProc
    /\ bound = [b \in Keysyms \X ModMasks |-> NoProc]

----------------------------------------------------------------------------
(* bind-key.                                                               *)

\* Mutant: only the first of the keycodes is grabbed.
xcb_key_symbols_get_one(keysym) ==
    LET codes == {k \in Keycodes : \E col \in DOMAIN key_syms[k] : key_syms[k][col] = keysym}
    IN IF codes = {} THEN {} ELSE {CHOOSE k \in codes : TRUE}

\* The keycodes that have the keysym somewhere in their row.
xcb_key_symbols_get_keycode(keysym) ==
    {k \in Keycodes : \E col \in DOMAIN key_syms[k] : key_syms[k][col] = keysym}

Binding(keysym, mod_mask, proc) ==
    [keysym |-> keysym, mod_mask |-> mod_mask, scm_proc |-> proc]

\* Mutant: the binding is appended.
bind_key_last(mod_mask, keysym, proc) ==
    LET codes == xcb_key_symbols_get_keycode(keysym)
    IN IF codes # {}
       THEN /\ grabs' = grabs \cup ({mod_mask} \X codes)
            /\ keybinding_list' =
                   Append(keybinding_list, Binding(keysym, mod_mask, proc))
       ELSE UNCHANGED <<grabs, keybinding_list>>

\* Nothing is taken back: an older binding stays in the list behind this one.
bind_key(mod_mask, keysym, proc) ==
    LET codes == xcb_key_symbols_get_keycode(keysym)
    IN IF codes # {}
       THEN /\ grabs' = grabs \cup ({mod_mask} \X codes)
            /\ keybinding_list' =
                   <<Binding(keysym, mod_mask, proc)>> \o keybinding_list
       ELSE UNCHANGED <<grabs, keybinding_list>>

\* From init.scm, the REPL or a procedure under a key.
scm_bind_key(mod_mask, key, proc) ==
    /\ status = "running" /\ proc \notin collected
    /\ Len(keybinding_list) < MaxBindings
    /\ key[1] # "other"
    /\ bind_key(mod_mask, KeysymOf(key), proc)
    /\ bound' = [bound EXCEPT ![<<KeysymOf(key), mod_mask>>] = proc]
    /\ UNCHANGED <<key_syms, collected, status, layout, xqueue, ran>>

----------------------------------------------------------------------------
(* The X server and the user.                                              *)

\* A grab is by keycode and modifiers, whatever buttons are down; the event
\* reports both.  Other key presses go to the programs.
Press(k, mods, button) ==
    /\ <<mods, k>> \in grabs /\ Len(xqueue) < QueueCap
    /\ xqueue' = Append(xqueue, [detail |-> k, state |-> mods + button])
    /\ UNCHANGED <<keybinding_list, key_syms, collected, status, layout, grabs,
                   ran, bound>>

\* nwm is told by a MappingNotify event, which it ignores.
ChangeLayout ==
    /\ layout' \in Layouts
    /\ UNCHANGED <<keybinding_list, key_syms, collected, status, grabs, xqueue,
                   ran, bound>>

\* A keybinding_t is from malloc(), where Guile's collector does not look: a
\* procedure that nothing else refers to may go at any time.
Collect(proc) ==
    /\ status = "running"
    /\ proc \in Procs \ Named /\ proc \notin collected
    /\ \E n \in DOMAIN keybinding_list : keybinding_list[n].scm_proc = proc
    /\ collected' = collected \cup {proc}
    /\ UNCHANGED <<keybinding_list, key_syms, status, layout, grabs, xqueue,
                   ran, bound>>

----------------------------------------------------------------------------
(* Key presses.                                                            *)

Matching(event, keysym) ==
    {n \in DOMAIN keybinding_list :
        /\ keybinding_list[n].keysym = keysym
        /\ keybinding_list[n].mod_mask = event.state}

\* The first binding in the list, which is the newest.
Bound(event, keysym) ==
    LET ns == Matching(event, keysym)
    IN IF ns = {} THEN NoProc
       ELSE keybinding_list[CHOOSE n \in ns : \A m \in ns : n <= m].scm_proc

\* Nothing catches an error here.  In the place of a collected procedure there
\* may be any other.
scm_call(proc) ==
    \/ proc \notin collected /\ ran' = proc /\ status' = "running"
    \/ proc \in MayRaise \ collected /\ ran' = proc /\ status' = "dead"
    \/ proc \in collected /\ ran' \in Procs \cup {NoProc} /\ status' \in {"running", "dead"}

\* Mutant: the keysym is the one with shift if shift is held.
handle_key_press_shifted ==
    /\ status = "running" /\ xqueue # <<>>
    /\ xqueue' = Tail(xqueue)
    /\ LET event == Head(xqueue)
           row == key_syms[event.detail]
       IN scm_call(Bound(event, row[IF event.state % 2 = 1 /\ Len(row) > 1 THEN 2 ELSE 1]))
    /\ UNCHANGED <<keybinding_list, key_syms, collected, layout, grabs, bound>>

handle_key_press_event ==
    /\ status = "running" /\ xqueue # <<>>
    /\ xqueue' = Tail(xqueue)
    /\ LET event == Head(xqueue)
       IN scm_call(Bound(event, key_syms[event.detail][1]))
    /\ UNCHANGED <<keybinding_list, key_syms, collected, layout, grabs, bound>>

KeysNext ==
    \/ \E m \in ModMasks, key \in Keys, proc \in Procs : scm_bind_key(m, key, proc)
    \/ \E k \in Keycodes, m \in ModMasks, b \in Buttons : Press(k, m, b)
    \/ ChangeLayout
    \/ \E proc \in Procs : Collect(proc)
    \/ handle_key_press_event
    \/ status = "dead" /\ UNCHANGED kvars

KeysSpec == KeysInit /\ [][KeysNext]_kvars

----------------------------------------------------------------------------
(* Properties.                                                             *)

Pressed == {xqueue[n] : n \in DOMAIN xqueue}
Handles(event) == xqueue # <<>> /\ event = Head(xqueue) /\ xqueue' = Tail(xqueue)

\* A key press runs what bind-key was last asked to bind to that key and these
\* modifiers, however often the key was bound before, whatever was bound while
\* the press was on its way and whatever layout the keyboard has got since.
NewestBindingRuns ==
    [][\A event \in Pressed : Handles(event) =>
          LET b == <<key_syms[event.detail][1], event.state>>
          IN (b \in DOMAIN bound /\ bound[b] \notin collected \cup {NoProc}) =>
                ran' = bound[b]]_kvars

\* Every key that has a bound keysym is taken from the programs, also if there
\* are several such keys (bind_key grabs each keycode).
BoundKeysGrabbed ==
    \A keysym \in Keysyms, m \in ModMasks, k \in Keycodes :
        bound[<<keysym, m>>] # NoProc /\ Startup[k][1] = keysym => <<m, k>> \in grabs

BoundByFirstColumn ==
    \A n \in DOMAIN keybinding_list, k \in Keycodes :
        \A col \in DOMAIN key_syms[k] :
            key_syms[k][col] = keybinding_list[n].keysym =>
                key_syms[k][1] = keybinding_list[n].keysym

\* A key press that nwm takes from the programs is not lost: it runs something,
\* as long as keys are bound by what they mean alone, as in init.scm (also "c"
\* with shift), no button is down and no procedure has been collected.
TakenKeyRuns ==
    [][\A event \in Pressed :
          (/\ Handles(event) /\ event.state \in ModMasks
           /\ BoundByFirstColumn /\ collected = {}) => ran' # NoProc]_kvars
=============================================================================
