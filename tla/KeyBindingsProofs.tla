--------------------------- MODULE KeyBindingsProofs ---------------------------
(***************************************************************************)
(* Proofs about KeyBindings: for every keyboard, every set of keys and     *)
(* procedures and any number of calls of bind-key, a key press runs what   *)
(* was bound to it last, and no press is taken from the programs in vain.  *)
(*                                                                         *)
(* The invariant relates the three places a binding leaves traces in: the  *)
(* list (the newest of equal bindings is the first), the history of        *)
(* requests, and the grabs (each is explained by a binding in the list).   *)
(***************************************************************************)
EXTENDS KeyBindings, TLAPS

Matches(n, keysym, m) ==
    keybinding_list[n].keysym = keysym /\ keybinding_list[n].mod_mask = m

\* The first binding of a keysym and modifiers, which Bound chooses.
IsFirst(n, keysym, m) ==
    /\ n \in DOMAIN keybinding_list /\ Matches(n, keysym, m)
    /\ \A l \in DOMAIN keybinding_list : Matches(l, keysym, m) => n <= l

\* If there are bindings of a keysym, one is the first and is the last request.
ListFollowsRequests ==
    \A keysym \in Keysyms, m \in ModMasks :
        \/ \A n \in DOMAIN keybinding_list : ~Matches(n, keysym, m)
        \/ \E n \in DOMAIN keybinding_list :
              /\ IsFirst(n, keysym, m)
              /\ keybinding_list[n].scm_proc = bound[<<keysym, m>>]

\* Of the requests only those for keysyms without a key have left no binding.
RequestsAreListed ==
    \A keysym \in Keysyms, m \in ModMasks :
        bound[<<keysym, m>>] # NoProc /\ xcb_key_symbols_get_keycode(keysym) # {} =>
            \E n \in DOMAIN keybinding_list : Matches(n, keysym, m)

ListedHaveKeys ==
    \A n \in DOMAIN keybinding_list :
        xcb_key_symbols_get_keycode(keybinding_list[n].keysym) # {}

GrabsAreBound ==
    \A g \in grabs :
        \E n \in DOMAIN keybinding_list :
            /\ keybinding_list[n].mod_mask = g[1]
            /\ g[2] \in xcb_key_symbols_get_keycode(keybinding_list[n].keysym)

PressesAreGrabbed ==
    \A n \in DOMAIN xqueue :
        xqueue[n].state \in ModMasks => <<xqueue[n].state, xqueue[n].detail>> \in grabs

KeysInv ==
    /\ KeysTypeOK /\ BoundKeysGrabbed /\ ListFollowsRequests
    /\ RequestsAreListed /\ ListedHaveKeys /\ GrabsAreBound /\ PressesAreGrabbed

----------------------------------------------------------------------------
(* What a key press runs.                                                  *)

LEMMA FirstIsChosen ==
    ASSUME NEW event, NEW keysym, KeysTypeOK,
           NEW n \in DOMAIN keybinding_list, IsFirst(n, keysym, event.state)
    PROVE  Bound(event, keysym) = keybinding_list[n].scm_proc
<1> DEFINE ns == Matching(event, keysym)
<1>1. ns \subseteq Nat /\ n \in ns /\ \A m \in ns : n <= m
    BY DEF IsFirst, Matches, Matching, KeysTypeOK
<1>2. \A k \in ns : (\A m \in ns : k <= m) => k = n
    BY <1>1
<1>3. (CHOOSE k \in ns : \A m \in ns : k <= m) = n
    BY <1>1, <1>2
<1> QED BY <1>1, <1>3 DEF Bound

LEMMA NoMatchNoProc ==
    ASSUME NEW event, NEW keysym,
           \A n \in DOMAIN keybinding_list : ~Matches(n, keysym, event.state)
    PROVE  Bound(event, keysym) = NoProc
BY DEF Bound, Matching, Matches

LEMMA BindingTypes ==
    ASSUME KeysTypeOK, NEW n \in DOMAIN keybinding_list
    PROVE  /\ keybinding_list[n].keysym \in Keysyms
           /\ keybinding_list[n].mod_mask \in ModMasks
           /\ keybinding_list[n].scm_proc \in Procs
<1> DEFINE bindings == [keysym : Keysyms, mod_mask : ModMasks, scm_proc : Procs]
<1>1. keybinding_list \in Seq(bindings)
    BY DEF KeysTypeOK
<1>2. keybinding_list[n] \in bindings
  <2> HIDE DEF bindings
  <2> QED BY <1>1
<1> QED BY <1>2

LEMMA BoundType ==
    ASSUME KeysInv, NEW event, NEW keysym
    PROVE  Bound(event, keysym) \in Procs \cup {NoProc}
<1>1. CASE \A n \in DOMAIN keybinding_list : ~Matches(n, keysym, event.state)
    BY <1>1, NoMatchNoProc
<1>2. CASE \E n \in DOMAIN keybinding_list : Matches(n, keysym, event.state)
  <2>1. keysym \in Keysyms /\ event.state \in ModMasks
    BY <1>2, BindingTypes DEF Matches, KeysInv
  <2>2. PICK n \in DOMAIN keybinding_list : IsFirst(n, keysym, event.state)
    BY <1>2, <2>1 DEF KeysInv, ListFollowsRequests
  <2>3. keybinding_list[n].scm_proc \in Procs
    BY <2>2, BindingTypes DEF KeysInv
  <2> QED BY <2>2, <2>3, FirstIsChosen DEF KeysInv
<1> QED BY <1>1, <1>2

----------------------------------------------------------------------------
LEMMA KeysInitial == KeysInit => KeysInv
BY DEF KeysInit, KeysInv, KeysTypeOK, BoundKeysGrabbed, ListFollowsRequests,
   RequestsAreListed, ListedHaveKeys, GrabsAreBound, PressesAreGrabbed

\* Only bind-key touches the list, the requests and the grabs.
LEMMA BindingsKept ==
    ASSUME KeysInv, UNCHANGED <<keybinding_list, key_syms, grabs, bound>>
    PROVE  /\ BoundKeysGrabbed' /\ ListFollowsRequests' /\ RequestsAreListed'
           /\ ListedHaveKeys' /\ GrabsAreBound'
<1>1. BoundKeysGrabbed'
    BY DEF KeysInv, BoundKeysGrabbed
<1>2. ListFollowsRequests'
    BY DEF KeysInv, ListFollowsRequests, IsFirst, Matches
<1>3. RequestsAreListed'
    BY DEF KeysInv, RequestsAreListed, Matches, xcb_key_symbols_get_keycode
<1>4. GrabsAreBound'
    BY DEF KeysInv, GrabsAreBound, xcb_key_symbols_get_keycode
<1>5. ListedHaveKeys'
    BY DEF KeysInv, ListedHaveKeys, xcb_key_symbols_get_keycode
<1> QED BY <1>1, <1>2, <1>3, <1>4, <1>5

LEMMA SeqFacts ==
    ASSUME NEW S, NEW s \in Seq(S), NEW e \in S
    PROVE  /\ <<e>> \o s \in Seq(S) /\ Len(<<e>> \o s) = Len(s) + 1
           /\ (<<e>> \o s)[1] = e
           /\ \A n \in DOMAIN s : (<<e>> \o s)[n + 1] = s[n]
           /\ \A n \in DOMAIN (<<e>> \o s) :
                 n = 1 \/ (n - 1 \in DOMAIN s /\ (<<e>> \o s)[n] = s[n - 1])
           /\ Append(s, e) \in Seq(S)
           /\ \A n \in DOMAIN Append(s, e) :
                 (n \in DOMAIN s /\ Append(s, e)[n] = s[n]) \/ Append(s, e)[n] = e
           /\ s # <<>> =>
                 /\ Head(s) = s[1] /\ 1 \in DOMAIN s /\ Tail(s) \in Seq(S)
                 /\ \A n \in DOMAIN Tail(s) : n + 1 \in DOMAIN s /\ Tail(s)[n] = s[n + 1]
OBVIOUS

LEMMA BindPreserves ==
    ASSUME KeysInv, NEW m \in ModMasks, NEW key \in Keys, NEW proc \in Procs,
           scm_bind_key(m, key, proc)
    PROVE  KeysInv'
<1> DEFINE keysym == KeysymOf(key)
           codes == xcb_key_symbols_get_keycode(keysym)
           bindings == [keysym : Keysyms, mod_mask : ModMasks, scm_proc : Procs]
<1>1. keysym \in Keysyms
    BY DEF scm_bind_key, Keysyms
<1> HIDE DEF keysym
<1>2. /\ keybinding_list \in Seq(bindings) /\ key_syms = Startup
      /\ grabs \subseteq ModMasks \X Keycodes
      /\ bound \in [Keysyms \X ModMasks -> Procs \cup {NoProc}]
    BY DEF KeysInv, KeysTypeOK
<1>3. /\ bound' = [bound EXCEPT ![<<keysym, m>>] = proc]
      /\ UNCHANGED <<key_syms, collected, status, layout, xqueue, ran>>
    BY DEF scm_bind_key, keysym
<1>4. \/ /\ codes # {}
         /\ grabs' = grabs \cup ({m} \X codes)
         /\ keybinding_list' = <<Binding(keysym, m, proc)>> \o keybinding_list
      \/ codes = {} /\ UNCHANGED <<grabs, keybinding_list>>
    BY Zenon DEF scm_bind_key, bind_key, keysym
<1>5. codes \subseteq Keycodes /\ Binding(keysym, m, proc) \in bindings
    BY <1>1 DEF xcb_key_symbols_get_keycode, Binding
<1>6. KeysTypeOK'
  <2>1. keybinding_list' \in Seq(bindings)
    <3> HIDE DEF bindings
    <3>1. <<Binding(keysym, m, proc)>> \o keybinding_list \in Seq(bindings)
      BY <1>2, <1>5, SeqFacts
    <3> QED BY <3>1, <1>2, <1>4
  <2>2. grabs' \subseteq ModMasks \X Keycodes
    BY <1>2, <1>4, <1>5
  <2>3. bound' \in [Keysyms \X ModMasks -> Procs \cup {NoProc}]
    BY <1>1, <1>2, <1>3
  <2> QED BY <1>3, <2>1, <2>2, <2>3 DEF KeysInv, KeysTypeOK
<1>7. BoundKeysGrabbed'
  <2> SUFFICES ASSUME NEW s \in Keysyms, NEW n \in ModMasks, NEW k \in Keycodes,
                      bound'[<<s, n>>] # NoProc, Startup[k][1] = s
               PROVE  <<n, k>> \in grabs'
    BY DEF BoundKeysGrabbed
  <2>1. CASE s = keysym /\ n = m
    <3>1. k \in codes
      <4>1. 1 \in DOMAIN Startup[k]
        BY KeyBindingsAssumption
      <4> QED BY <4>1, <2>1, <1>2 DEF xcb_key_symbols_get_keycode
    <3> QED BY <3>1, <2>1, <1>4
  <2>2. CASE ~(s = keysym /\ n = m)
    <3>1. bound'[<<s, n>>] = bound[<<s, n>>]
      BY <2>2, <1>2, <1>3
    <3>2. <<n, k>> \in grabs
      BY <3>1 DEF KeysInv, BoundKeysGrabbed
    <3> QED BY <3>2, <1>4
  <2> QED BY <2>1, <2>2
<1>8. PressesAreGrabbed'
    BY <1>3, <1>4 DEF KeysInv, PressesAreGrabbed
<1>9. CASE codes = {}
  <2>1. UNCHANGED <<grabs, keybinding_list, key_syms>>
    BY <1>3, <1>4, <1>9
  <2>2. \A n \in DOMAIN keybinding_list, l \in ModMasks : ~Matches(n, keysym, l)
    BY <1>9 DEF KeysInv, ListedHaveKeys, Matches
  <2>3. ListFollowsRequests'
    <3> SUFFICES ASSUME NEW s \in Keysyms, NEW l \in ModMasks,
                        NEW n \in DOMAIN keybinding_list, Matches(n, s, l)
                 PROVE  \E k \in DOMAIN keybinding_list :
                            /\ IsFirst(k, s, l)
                            /\ keybinding_list[k].scm_proc = bound'[<<s, l>>]
      BY <2>1 DEF ListFollowsRequests, IsFirst, Matches
    <3>1. s # keysym
      BY <2>2
    <3>2. bound'[<<s, l>>] = bound[<<s, l>>]
      BY <3>1, <1>2, <1>3
    <3> QED BY <3>2 DEF KeysInv, ListFollowsRequests
  <2>4. RequestsAreListed'
    <3> SUFFICES ASSUME NEW s \in Keysyms, NEW l \in ModMasks,
                        bound'[<<s, l>>] # NoProc, xcb_key_symbols_get_keycode(s) # {}
                 PROVE  \E n \in DOMAIN keybinding_list : Matches(n, s, l)
      BY <2>1 DEF RequestsAreListed, Matches, xcb_key_symbols_get_keycode
    <3>1. s # keysym
      BY <1>9
    <3>2. bound'[<<s, l>>] = bound[<<s, l>>]
      BY <3>1, <1>2, <1>3
    <3> QED BY <3>2 DEF KeysInv, RequestsAreListed
  <2>5. ListedHaveKeys' /\ GrabsAreBound'
    BY <2>1 DEF KeysInv, ListedHaveKeys, GrabsAreBound, xcb_key_symbols_get_keycode
  <2> QED BY <1>6, <1>7, <1>8, <2>3, <2>4, <2>5 DEF KeysInv
<1>10. CASE codes # {}
  <2> DEFINE new == Binding(keysym, m, proc)
  <2>1. /\ grabs' = grabs \cup ({m} \X codes)
        /\ keybinding_list' = <<new>> \o keybinding_list
        /\ new.keysym = keysym /\ new.mod_mask = m /\ new.scm_proc = proc
    BY <1>4, <1>10 DEF Binding
  <2> HIDE DEF new
  <2>2. /\ 1 \in DOMAIN keybinding_list' /\ keybinding_list'[1] = new
        /\ \A n \in DOMAIN keybinding_list :
              n + 1 \in DOMAIN keybinding_list'
              /\ keybinding_list'[n + 1] = keybinding_list[n]
        /\ \A n \in DOMAIN keybinding_list' : n \in Nat /\ 1 <= n /\ (n = 1 \/
              (n - 1 \in DOMAIN keybinding_list
               /\ keybinding_list'[n] = keybinding_list[n - 1]))
        /\ DOMAIN keybinding_list \subseteq Nat
    BY <2>1, <1>2, <1>5, SeqFacts DEF new
  <2>3. ListFollowsRequests'
    <3> SUFFICES ASSUME NEW s \in Keysyms, NEW l \in ModMasks
                 PROVE  (ListFollowsRequests!(s, l))'
      BY DEF ListFollowsRequests
    <3>1. CASE s = keysym /\ l = m
      <4>1. IsFirst(1, s, l)' /\ keybinding_list'[1].scm_proc = bound'[<<s, l>>]
        BY <3>1, <2>1, <2>2, <1>2, <1>3 DEF IsFirst, Matches
      <4> QED BY <4>1, <2>2 DEF IsFirst
    <3>2. CASE ~(s = keysym /\ l = m)
      <4>1. bound'[<<s, l>>] = bound[<<s, l>>]
        BY <3>2, <1>2, <1>3
      <4>2. /\ ~(1 \in DOMAIN keybinding_list' /\ Matches(1, s, l)')
            /\ \A n \in DOMAIN keybinding_list' :
                  Matches(n, s, l)' => n - 1 \in DOMAIN keybinding_list /\ Matches(n - 1, s, l)
        BY <3>2, <2>1, <2>2 DEF Matches
      <4>3. CASE \A n \in DOMAIN keybinding_list : ~Matches(n, s, l)
        BY <4>2, <4>3
      <4>4. CASE \E n \in DOMAIN keybinding_list : Matches(n, s, l)
        <5>1. PICK n \in DOMAIN keybinding_list :
                  /\ IsFirst(n, s, l)
                  /\ keybinding_list[n].scm_proc = bound[<<s, l>>]
          BY <4>4 DEF KeysInv, ListFollowsRequests
        <5>2. /\ n + 1 \in DOMAIN keybinding_list' /\ Matches(n + 1, s, l)'
              /\ keybinding_list'[n + 1].scm_proc = bound'[<<s, l>>]
          BY <5>1, <4>1, <2>2 DEF IsFirst, Matches
        <5>3. \A k \in DOMAIN keybinding_list' : Matches(k, s, l)' => n + 1 <= k
          BY <5>1, <4>2, <2>2 DEF IsFirst
        <5>4. IsFirst(n + 1, s, l)'
          BY <5>2, <5>3 DEF IsFirst
        <5> QED BY <5>2, <5>4
      <4> QED BY <4>3, <4>4
    <3> QED BY <3>1, <3>2
  <2>4. RequestsAreListed'
    <3> SUFFICES ASSUME NEW s \in Keysyms, NEW l \in ModMasks,
                        bound'[<<s, l>>] # NoProc, xcb_key_symbols_get_keycode(s) # {}
                 PROVE  \E n \in DOMAIN keybinding_list' : Matches(n, s, l)'
      BY <1>3 DEF RequestsAreListed, xcb_key_symbols_get_keycode
    <3>1. CASE s = keysym /\ l = m
      BY <3>1, <2>1, <2>2 DEF Matches
    <3>2. CASE ~(s = keysym /\ l = m)
      <4>1. bound'[<<s, l>>] = bound[<<s, l>>]
        BY <3>2, <1>2, <1>3
      <4>2. PICK n \in DOMAIN keybinding_list : Matches(n, s, l)
        BY <4>1 DEF KeysInv, RequestsAreListed
      <4> QED BY <4>2, <2>2 DEF Matches
    <3> QED BY <3>1, <3>2
  <2>5. ListedHaveKeys'
    <3> SUFFICES ASSUME NEW n \in DOMAIN keybinding_list'
                 PROVE  xcb_key_symbols_get_keycode(keybinding_list'[n].keysym) # {}
      BY <1>3 DEF ListedHaveKeys, xcb_key_symbols_get_keycode
    <3>1. CASE n = 1
      BY <3>1, <2>1, <2>2, <1>10
    <3>2. CASE n # 1
      BY <3>2, <2>2 DEF KeysInv, ListedHaveKeys
    <3> QED BY <3>1, <3>2
  <2>6. GrabsAreBound'
    <3> SUFFICES ASSUME NEW g \in grabs'
                 PROVE  \E n \in DOMAIN keybinding_list' :
                            /\ keybinding_list'[n].mod_mask = g[1]
                            /\ g[2] \in xcb_key_symbols_get_keycode(keybinding_list'[n].keysym)
      BY <1>3 DEF GrabsAreBound, xcb_key_symbols_get_keycode
    <3>1. CASE g \in grabs
      BY <3>1, <2>2 DEF KeysInv, GrabsAreBound
    <3>2. CASE g \in {m} \X codes
      BY <3>2, <2>1, <2>2
    <3> QED BY <3>1, <3>2, <2>1
  <2> QED BY <1>6, <1>7, <1>8, <2>3, <2>4, <2>5, <2>6 DEF KeysInv
<1> QED BY <1>9, <1>10

LEMMA KeyPressPreserves ==
    ASSUME KeysInv, handle_key_press_event
    PROVE  KeysInv'
<1> DEFINE presses == [detail : Keycodes, state : {m + b : m \in ModMasks, b \in Buttons}]
<1>1. /\ xqueue \in Seq(presses) /\ xqueue # <<>> /\ xqueue' = Tail(xqueue)
      /\ UNCHANGED <<keybinding_list, key_syms, collected, layout, grabs, bound>>
    BY DEF KeysInv, KeysTypeOK, handle_key_press_event
<1>2. /\ xqueue' \in Seq(presses)
      /\ \A n \in DOMAIN xqueue' : n + 1 \in DOMAIN xqueue /\ xqueue'[n] = xqueue[n + 1]
  <2> HIDE DEF presses
  <2> QED BY <1>1, SeqFacts
<1>3. ran' \in Procs \cup {NoProc} /\ status' \in {"running", "dead"}
  <2>1. scm_call(Bound(Head(xqueue), key_syms[Head(xqueue).detail][1]))
    BY Zenon DEF handle_key_press_event
  <2>2. Bound(Head(xqueue), key_syms[Head(xqueue).detail][1]) \in Procs \cup {NoProc}
    BY BoundType
  <2> QED BY <2>1, <2>2 DEF scm_call
<1>4. KeysTypeOK'
    BY <1>1, <1>2, <1>3 DEF KeysInv, KeysTypeOK
<1>5. PressesAreGrabbed'
    BY <1>1, <1>2 DEF KeysInv, PressesAreGrabbed
<1> QED BY <1>1, <1>4, <1>5, BindingsKept DEF KeysInv

LEMMA PressPreserves ==
    ASSUME KeysInv, NEW k \in Keycodes, NEW m \in ModMasks, NEW b \in Buttons,
           Press(k, m, b)
    PROVE  KeysInv'
<1> DEFINE event == [detail |-> k, state |-> m + b]
           presses == [detail : Keycodes, state : {n + c : n \in ModMasks, c \in Buttons}]
<1>1. /\ xqueue \in Seq(presses) /\ xqueue' = Append(xqueue, event) /\ event \in presses
      /\ UNCHANGED <<keybinding_list, key_syms, collected, status, layout, grabs,
                     ran, bound>>
    BY DEF KeysInv, KeysTypeOK, Press
<1>2. /\ xqueue' \in Seq(presses)
      /\ \A n \in DOMAIN xqueue' :
            (n \in DOMAIN xqueue /\ xqueue'[n] = xqueue[n]) \/ xqueue'[n] = event
  <2> HIDE DEF presses, event
  <2> QED BY <1>1, SeqFacts
<1>3. event.state \in ModMasks => <<event.state, event.detail>> \in grabs
  <2>1. m + b \in ModMasks => b = 0 /\ m + b = m
    BY KeyBindingsAssumption
  <2> QED BY <2>1 DEF Press
<1>4. KeysTypeOK'
    BY <1>1, <1>2 DEF KeysInv, KeysTypeOK
<1>5. PressesAreGrabbed'
  <2> HIDE DEF event
  <2> QED BY <1>1, <1>2, <1>3 DEF KeysInv, PressesAreGrabbed
<1> QED BY <1>1, <1>4, <1>5, BindingsKept DEF KeysInv

LEMMA KeysStep == KeysInv /\ [KeysNext]_kvars => KeysInv'
<1> SUFFICES ASSUME KeysInv, [KeysNext]_kvars PROVE KeysInv'
    OBVIOUS
<1>1. ASSUME NEW m \in ModMasks, NEW key \in Keys, NEW proc \in Procs,
             scm_bind_key(m, key, proc)
      PROVE  KeysInv'
    BY <1>1, BindPreserves
<1>2. ASSUME NEW k \in Keycodes, NEW m \in ModMasks, NEW b \in Buttons, Press(k, m, b)
      PROVE  KeysInv'
    BY <1>2, PressPreserves
<1>3. CASE handle_key_press_event
    BY <1>3, KeyPressPreserves
<1>4. ASSUME \/ ChangeLayout
             \/ \E proc \in Procs : Collect(proc)
             \/ UNCHANGED kvars
      PROVE  KeysInv'
  <2>1. UNCHANGED <<keybinding_list, key_syms, grabs, xqueue, bound, ran, status>>
    BY <1>4 DEF ChangeLayout, Collect, kvars
  <2>2. KeysTypeOK'
    BY <1>4, <2>1 DEF KeysInv, KeysTypeOK, ChangeLayout, Collect, kvars
  <2>3. PressesAreGrabbed'
    BY <2>1 DEF KeysInv, PressesAreGrabbed
  <2> QED BY <2>1, <2>2, <2>3, BindingsKept DEF KeysInv
<1> QED BY <1>1, <1>2, <1>3, <1>4 DEF KeysNext

\* The bindings, the requests and the grabs stay consistent.
THEOREM KeysInvariant == KeysSpec => []KeysInv
BY KeysInitial, KeysStep, PTL DEF KeysSpec

\* Types, for every keyboard and any number of bindings.
THEOREM KeysTypeCorrect == KeysSpec => []KeysTypeOK
<1>1. KeysInv => KeysTypeOK
    BY DEF KeysInv
<1> QED BY <1>1, KeysInvariant, PTL

\* Each key with a bound keysym is grabbed (bind_key grabs every keycode).
THEOREM EveryKeyGrabbed == KeysSpec => []BoundKeysGrabbed
<1>1. KeysInv => BoundKeysGrabbed
    BY DEF KeysInv
<1> QED BY <1>1, KeysInvariant, PTL

----------------------------------------------------------------------------
(* The two promises about a key press.                                     *)

\* In which step a press is handled: the programs only append to the queue.
LEMMA OnlyTheHandlerHandles ==
    ASSUME KeysInv, [KeysNext]_kvars, NEW event \in Pressed, Handles(event)
    PROVE  /\ scm_call(Bound(event, key_syms[event.detail][1]))
           /\ event.detail \in Keycodes
           /\ \E n \in DOMAIN xqueue : event = xqueue[n]
<1> DEFINE presses == [detail : Keycodes, state : {n + c : n \in ModMasks, c \in Buttons}]
<1>1. xqueue \in Seq(presses) /\ xqueue # <<>> /\ event = Head(xqueue) /\ xqueue' = Tail(xqueue)
    BY DEF KeysInv, KeysTypeOK, Handles
<1>2. event \in presses /\ xqueue' # xqueue /\ \E n \in DOMAIN xqueue : event = xqueue[n]
  <2>1. event \in presses /\ Len(Tail(xqueue)) # Len(xqueue)
    <3> HIDE DEF presses
    <3> QED BY <1>1
  <2> QED BY <1>1, <2>1 DEF Pressed
<1>3. ASSUME NEW e \in presses PROVE xqueue' # Append(xqueue, e)
  <2> HIDE DEF presses
  <2> QED BY <1>1
<1>4. ASSUME NEW k \in Keycodes, NEW m \in ModMasks, NEW b \in Buttons PROVE ~Press(k, m, b)
    BY <1>3 DEF Press
<1>5. handle_key_press_event
  <2>1. xqueue' # xqueue
    BY <1>2
  <2>2. ~\E m \in ModMasks, key \in Keys, proc \in Procs : scm_bind_key(m, key, proc)
    BY <2>1 DEF scm_bind_key
  <2>3. ~\E k \in Keycodes, m \in ModMasks, b \in Buttons : Press(k, m, b)
    BY <1>4
  <2>4. ~(ChangeLayout \/ UNCHANGED kvars \/ \E proc \in Procs : Collect(proc))
    BY <2>1 DEF ChangeLayout, kvars, Collect
  <2> QED BY <2>2, <2>3, <2>4 DEF KeysNext
<1>6. scm_call(Bound(event, key_syms[event.detail][1]))
    BY <1>1, <1>5, Zenon DEF handle_key_press_event
<1>7. event.detail \in Keycodes
    BY <1>2
<1> QED BY <1>2, <1>6, <1>7

\* A key press runs what was last bound to it.
THEOREM NewestRuns == KeysSpec => NewestBindingRuns
<1>1. ASSUME KeysInv, [KeysNext]_kvars, NEW event \in Pressed, Handles(event),
             <<key_syms[event.detail][1], event.state>> \in DOMAIN bound,
             bound[<<key_syms[event.detail][1], event.state>>] \notin collected \cup {NoProc}
      PROVE  ran' = bound[<<key_syms[event.detail][1], event.state>>]
  <2> DEFINE keysym == key_syms[event.detail][1]
  <2>1. keysym \in Keysyms /\ event.state \in ModMasks
    BY <1>1 DEF KeysInv, KeysTypeOK
  <2>2. event.detail \in Keycodes /\ scm_call(Bound(event, keysym))
    BY <1>1, OnlyTheHandlerHandles
  <2>3. event.detail \in xcb_key_symbols_get_keycode(keysym)
    <3>1. key_syms = Startup /\ 1 \in DOMAIN Startup[event.detail]
      BY <1>1, <2>2, KeyBindingsAssumption DEF KeysInv, KeysTypeOK
    <3> QED BY <3>1, <2>2 DEF xcb_key_symbols_get_keycode
  <2> HIDE DEF keysym
  <2>4. \E n \in DOMAIN keybinding_list : Matches(n, keysym, event.state)
    BY <1>1, <2>1, <2>3 DEF KeysInv, RequestsAreListed, keysym
  <2>5. PICK n \in DOMAIN keybinding_list :
            /\ IsFirst(n, keysym, event.state)
            /\ keybinding_list[n].scm_proc = bound[<<keysym, event.state>>]
    BY <1>1, <2>1, <2>4 DEF KeysInv, ListFollowsRequests
  <2>6. Bound(event, keysym) = bound[<<keysym, event.state>>]
    BY <1>1, <2>5, FirstIsChosen DEF KeysInv
  <2> QED BY <1>1, <2>2, <2>6 DEF scm_call, keysym
<1>2. KeysInv /\ [KeysNext]_kvars =>
          [\A event \in Pressed : Handles(event) =>
             LET b == <<key_syms[event.detail][1], event.state>>
             IN (b \in DOMAIN bound /\ bound[b] \notin collected \cup {NoProc}) =>
                   ran' = bound[b]]_kvars
    BY <1>1, Zenon
<1> QED BY <1>2, KeysInvariant, PTL DEF KeysSpec, NewestBindingRuns

\* A press that is taken from the programs runs something.
THEOREM NoPressInVain == KeysSpec => TakenKeyRuns
<1>1. ASSUME KeysInv, [KeysNext]_kvars, NEW event \in Pressed, Handles(event),
             event.state \in ModMasks, BoundByFirstColumn, collected = {}
      PROVE  ran' # NoProc
  <2> DEFINE keysym == key_syms[event.detail][1]
  <2>1. /\ event.detail \in Keycodes /\ scm_call(Bound(event, keysym))
        /\ \E n \in DOMAIN xqueue : event = xqueue[n]
    BY <1>1, OnlyTheHandlerHandles
  <2>2. <<event.state, event.detail>> \in grabs
    BY <1>1, <2>1 DEF KeysInv, PressesAreGrabbed
  <2>3. PICK n \in DOMAIN keybinding_list :
            /\ keybinding_list[n].mod_mask = event.state
            /\ event.detail \in xcb_key_symbols_get_keycode(keybinding_list[n].keysym)
    BY <1>1, <2>2 DEF KeysInv, GrabsAreBound
  <2>4. keybinding_list[n].keysym = keysym
    BY <1>1, <2>1, <2>3 DEF BoundByFirstColumn, xcb_key_symbols_get_keycode
  <2>5. keysym \in Keysyms
    BY <1>1, <2>4, BindingTypes DEF KeysInv
  <2> HIDE DEF keysym
  <2>6. PICK l \in DOMAIN keybinding_list : IsFirst(l, keysym, event.state)
    BY <1>1, <2>3, <2>4, <2>5 DEF KeysInv, ListFollowsRequests, Matches
  <2>7. Bound(event, keysym) \in Procs
    BY <1>1, <2>6, FirstIsChosen, BindingTypes DEF KeysInv
  <2> QED BY <1>1, <2>1, <2>7, KeyBindingsAssumption DEF scm_call, keysym
<1>2. KeysInv /\ [KeysNext]_kvars =>
          [\A event \in Pressed :
             (/\ Handles(event) /\ event.state \in ModMasks
              /\ BoundByFirstColumn /\ collected = {}) => ran' # NoProc]_kvars
    BY <1>1, Zenon
<1> QED BY <1>2, KeysInvariant, PTL DEF KeysSpec, TakenKeyRuns
=============================================================================
