---------------------------- MODULE MCKeyBindings ----------------------------
(* Instances of KeyBindings for TLC: three keys of a keyboard. *)
EXTENDS KeyBindings

\* Two keys with the same meaning, as the Enter keys of some layouts.
TwoEnters == [k1 |-> <<"j", "J">>, k2 |-> <<"Return">>, k3 |-> <<"Return", NoSymbol>>]

\* The same after xmodmap has exchanged keys.
Exchanged == [k1 |-> <<"Return", NoSymbol>>, k2 |-> <<"j", "J">>, k3 |-> <<"Return">>]

Later == {Exchanged}

ManyKeys == {<<"string", "j">>, <<"string", "J">>, <<"string", "Enter">>,
             <<"string", "F1">>, <<"number", "Return">>, <<"other", "j">>}
=============================================================================
