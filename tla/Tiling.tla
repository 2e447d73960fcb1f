------------------------------- MODULE Tiling --------------------------------
(***************************************************************************)
(* Where the windows are: the geometry that nwm records in its client      *)
(* structures (nwm.c, scheme.c), the one the X server has, and the         *)
(* arrangements of auto-tile.scm that compute both.  Which clients are     *)
(* managed and mapped, and when the layout is recomputed, is the subject   *)
(* of Clients; here each handler is one step.                              *)
(***************************************************************************)
EXTENDS Integers, FiniteSets, SequencesExt

CONSTANTS
    Clients,        \* the addresses of the client_t structures
    Windows,        \* the X windows
    NoWindow,       \* the field `window' of a structure that is not in use
    ScreenWidth, ScreenHeight,
    Gaps,           \* the values of `gap' a configuration may choose
    border_width,   \* `border-width' of init.scm
    AppGeometry,    \* the geometry a program makes its windows with
    Amounts,        \* what the master area is grown and shrunk by
    MaxMaster,      \* bound: add-master stops there
    Inputs,         \* the commands, and whether programs configure windows
    Moves, Sizes,   \* bound: the pairs given to move-client, resize-client
    MaxTiled        \* bound: how many clients TilesApart lays out

Int16 == -32768..32767
UInt16 == 0..65535

Rect(x, y, w, h) == [x |-> x, y |-> y, width |-> w, height |-> h]
Blank == Rect(0, 0, 0, 0)
RectSet == [x : Int16, y : Int16, width : UInt16, height : UInt16]

ASSUME TilingAssumption ==
    /\ NoWindow \notin Windows
    /\ ScreenWidth \in UInt16 \ {0} /\ ScreenHeight \in UInt16 \ {0}
    /\ AppGeometry \in RectSet
    /\ Gaps \subseteq Nat /\ border_width \in Nat /\ Amounts \subseteq Nat
    /\ MaxMaster \in Nat \ {0} /\ MaxTiled \in Nat
    /\ Moves \subseteq Int \X Int /\ Sizes \subseteq Int \X Int

VARIABLES
    client_list,  \* the managed clients, newest first
    window,       \* window[c]: the field `window' of structure c
    rect,         \* rect[c]: its field `rect'
    mapped,       \* the windows that are on the screen
    xgeom,        \* xgeom[w]: the geometry the server has for window w
    conf,         \* the user-facing variables of auto-tile.scm
    status,       \* "running" or "dead"
    layout,       \* history: "tiled", "failed", or "stale" when the list or a
                  \*   record was changed since
    torn          \* history: windows whose last move or resize was cut short

outcome == <<rect, xgeom, status, layout, torn>>
tvars == <<client_list, window, mapped, conf, outcome>>

Arrangements == {<<"vtile", "htile", "fullscreen">>,
                 <<"htile", "fullscreen", "vtile">>,
                 <<"fullscreen", "vtile", "htile">>}

ConfSet ==
    [gap : Gaps, master_count : 1..MaxMaster, master_perc : 1..98,
     arrangements : Arrangements]

Listed == ToSet(client_list)
Managed == {window[c] : c \in Listed}
Visible(list, win, on) == {c \in ToSet(list) : win[c] \in on}
visible_clients == Visible(client_list, window, mapped)

\* visible-clients goes through the list: c is the Nth(list, S, c)-th of S.
NotAfter(list, d, c) ==
    \E j, k \in DOMAIN list : j <= k /\ list[j] = d /\ list[k] = c
Nth(list, S, c) == Cardinality({d \in S : NotAfter(list, d, c)})

TilingTypeOK ==
    /\ client_list \in Seq(Clients)
    /\ window \in [Clients -> Windows \cup {NoWindow}]
    /\ rect \in [Clients -> RectSet]
    /\ mapped \subseteq Managed
    /\ xgeom \in [Windows -> RectSet]
    /\ conf \in ConfSet
    /\ status \in {"running", "dead"}
    /\ layout \in {"tiled", "failed", "stale"}
    /\ torn \subseteq Windows

TilingInit ==
    /\ client_list = <<>>
    /\ window = [c \in Clients |-> NoWindow]
    /\ rect = [c \in Clients |-> Blank]
    /\ mapped = {}
    /\ xgeom = [w \in Windows |-> AppGeometry]
    /\ conf \in {[gap |-> g, master_count |-> 1, master_perc |-> 50,
                  arrangements |-> <<"vtile", "htile", "fullscreen">>] : g \in Gaps}
    /\ status = "running"
    /\ layout = "stale"
    /\ torn = {}

----------------------------------------------------------------------------
(* The arrangements: the rectangles of n clients, in the clients' order.   *)

\* Mutant: the shares are rounded up instead of down.
split_vertical_up(n, x, width, gap) ==
    LET increment == (ScreenHeight + n - 1) \div n
    IN [k \in 1..n |-> Rect(x, (k - 1) * increment + gap,
                            width, increment - 2 * gap)]

split_vertical(n, x, width, gap) ==
    LET increment == ScreenHeight \div n
    IN [k \in 1..n |-> Rect(x, (k - 1) * increment + gap,
                            width, increment - 2 * gap)]

split_horizontal(n, y, height, gap) ==
    LET increment == ScreenWidth \div n
    IN [k \in 1..n |-> Rect((k - 1) * increment + gap, y,
                            increment - 2 * gap, height)]

Whole(gap) == Rect(gap, gap, ScreenWidth - 2 * gap, ScreenHeight - 2 * gap)

\* How many of n clients are in the master area, and its share of a side.
Masters(n, s) == IF n < s.master_count THEN n ELSE s.master_count
MasterShare(side, s) == (side * s.master_perc) \div 100

auto_vtile(n, s) ==
    LET area == MasterShare(ScreenWidth, s)
    IN IF n = 1 THEN <<Whole(s.gap)>>
       ELSE split_vertical(Masters(n, s), s.gap, area - 2 * s.gap, s.gap)
            \o split_vertical(n - Masters(n, s), area + s.gap,
                              (ScreenWidth - area) - 2 * s.gap, s.gap)

auto_htile(n, s) ==
    LET area == MasterShare(ScreenHeight, s)
    IN IF n = 1 THEN <<Whole(s.gap)>>
       ELSE split_horizontal(Masters(n, s), s.gap, area - 2 * s.gap, s.gap)
            \o split_horizontal(n - Masters(n, s), area + s.gap,
                                (ScreenHeight - area) - 2 * s.gap, s.gap)

Tiles(n, s) ==
    CASE s.arrangements[1] = "vtile" -> auto_vtile(n, s)
      [] s.arrangements[1] = "htile" -> auto_htile(n, s)
      [] s.arrangements[1] = "fullscreen" -> [k \in 1..n |-> Whole(s.gap)]

----------------------------------------------------------------------------
(* move-client and resize-client.  Each field is converted and stored in   *)
(* turn; a number that does not fit raises an error there.                 *)

MoveFits(r) == r.x \in Int16 /\ r.y \in Int16
Fits(r) == MoveFits(r) /\ r.width \in UInt16 /\ r.height \in UInt16

Moved(old, r) == Rect(IF r.x \in Int16 THEN r.x ELSE old.x,
                      IF MoveFits(r) THEN r.y ELSE old.y, old.width, old.height)

\* Mutant: numbers are stored as they come.
StoredUnchecked(old, r) == r

\* The record after both calls, or as much of them as is made.
Stored(old, r) ==
    [Moved(old, r) EXCEPT
        !.width = IF MoveFits(r) /\ r.width \in UInt16 THEN r.width ELSE @,
        !.height = IF Fits(r) THEN r.height ELSE @]

\* update_client_geometry; the server refuses a window without extent.
Configured(geom, r) == IF r.width = 0 \/ r.height = 0 THEN geom ELSE r

Arranged(geom, old, r) ==
    LET moved == IF MoveFits(r) THEN Configured(geom, Moved(old, r)) ELSE geom
    IN IF Fits(r) THEN Configured(moved, r) ELSE moved

\* draw_border paints this on the root, under the window.
Border(r) == Rect(r.x - 2 * border_width, r.y - 2 * border_width,
                  r.width + 4 * border_width, r.height + 4 * border_width)

\* arrange-client for the clients of the list whose windows (win) are on the
\* screen (on), with the records old: in the order of the list, or from the
\* last under auto-fullscreen, up to the first that raises an error, which
\* nothing catches under a key or an event.
auto_tile(list, win, on, old, s) ==
    LET shown == Visible(list, win, on)
        n == Cardinality(shown)
        Tile(c) == Tiles(n, s)[Nth(list, shown, c)]
        Before(d, c) == d # c /\ IF s.arrangements[1] = "fullscreen"
                                THEN NotAfter(list, c, d) ELSE NotAfter(list, d, c)
        misfits == {c \in shown : ~Fits(Tile(c))}
        called == {c \in shown : \A d \in misfits : ~Before(d, c)}
    IN /\ rect' = [c \in Clients |->
              IF c \in called THEN Stored(old[c], Tile(c)) ELSE old[c]]
       /\ xgeom' = [w \in Windows |->
              IF \E c \in called : win[c] = w
              THEN LET c == CHOOSE c \in called : win[c] = w
                   IN Arranged(xgeom[w], old[c], Tile(c))
              ELSE xgeom[w]]
       /\ torn' = ((torn \cap {win[c] : c \in Clients}) \ {win[c] : c \in called})
                  \cup {win[c] : c \in called \cap misfits}
       /\ \/ misfits = {} /\ layout' = "tiled" /\ status' = status
          \/ misfits # {} /\ layout' = "failed" /\ status' \in {"running", "dead"}

----------------------------------------------------------------------------
(* X events.                                                               *)

Running == status = "running"

\* A program makes a window, of an id that may have been in use before.
CreateWindow(w) ==
    /\ w \notin Managed
    /\ xgeom' = [xgeom EXCEPT ![w] = AppGeometry]
    /\ UNCHANGED <<client_list, window, mapped, conf, rect, status, layout, torn>>

\* manage_window reads the geometry, and map_client runs the hooks.
manage_window(c, w) ==
    /\ Running
    /\ c \notin Listed /\ w \notin Managed
    /\ client_list' = <<c>> \o client_list
    /\ window' = [window EXCEPT ![c] = w]
    /\ mapped' = mapped \cup {w}
    /\ auto_tile(client_list', window', mapped', [rect EXCEPT ![c] = xgeom[w]], conf)
    /\ UNCHANGED conf

\* The client of a window that is gone or withdrawn leaves the list; nothing
\* reads its geometry any more.
remove_client(c) ==
    /\ Running
    /\ \E k \in DOMAIN client_list :
          client_list[k] = c /\ client_list' = RemoveAt(client_list, k)
    /\ mapped' = mapped \ {window[c]}
    /\ window' = [window EXCEPT ![c] = NoWindow]
    /\ auto_tile(client_list', window', mapped', [rect EXCEPT ![c] = Blank], conf)
    /\ UNCHANGED conf

\* A program's own wish is answered with the whole screen, of any window.
handle_configure_request_event(w) ==
    /\ Running /\ "configure" \in Inputs
    /\ xgeom' = [xgeom EXCEPT ![w] = Rect(0, 0, ScreenWidth, ScreenHeight)]
    /\ UNCHANGED <<client_list, window, mapped, conf, rect, status, layout, torn>>

----------------------------------------------------------------------------
(* Commands.                                                               *)

Command(name) == Running /\ name \in Inputs

\* map-client and unmap-client, with their hooks.
show_or_hide(c) ==
    /\ Command("show-or-hide") /\ c \in Listed
    /\ mapped' = IF window[c] \in mapped THEN mapped \ {window[c]}
                 ELSE mapped \cup {window[c]}
    /\ auto_tile(client_list, window, mapped', rect, conf)
    /\ UNCHANGED <<client_list, window, conf>>

\* A command that changes the variables and lays the clients out again.
Retile(s) ==
    /\ conf' = s
    /\ auto_tile(client_list, window, mapped, rect, s)
    /\ UNCHANGED <<client_list, window, mapped>>

add_master ==
    /\ Command("masters") /\ conf.master_count < MaxMaster
    /\ Retile([conf EXCEPT !.master_count = @ + 1])

remove_master ==
    /\ Command("masters")
    /\ Retile([conf EXCEPT !.master_count = IF @ > 1 THEN @ - 1 ELSE @])

\* Mutant: nothing is left for the other clients.
grow_master_all(amount) ==
    /\ Command("masters")
    /\ Retile([conf EXCEPT !.master_perc = @ + amount])

grow_master(amount) ==
    /\ Command("masters")
    /\ Retile([conf EXCEPT !.master_perc =
                  IF @ < 100 - (amount + 1) THEN @ + amount ELSE @])

shrink_master(amount) ==
    /\ Command("masters")
    /\ Retile([conf EXCEPT !.master_perc =
                  IF @ >= amount + 1 THEN @ - amount ELSE @])

auto_tile_cycle_arrangement ==
    /\ Command("cycle")
    /\ Retile([conf EXCEPT !.arrangements = Tail(@) \o <<Head(@)>>])

client_list_reverse ==
    /\ Command("reverse")
    /\ client_list' = Reverse(client_list)
    /\ layout' = "stale"
    /\ UNCHANGED <<window, mapped, conf, rect, xgeom, status, torn>>

Swapped(f, c, d) == [f EXCEPT ![c] = f[d], ![d] = f[c]]

\* Mutant: the rectangles stay with the structures.
client_list_swap_windows(c, d) ==
    /\ Command("swap") /\ c \in Listed /\ d \in Listed
    /\ window' = Swapped(window, c, d)
    /\ layout' = "stale"
    /\ UNCHANGED <<client_list, rect, mapped, conf, xgeom, status, torn>>

\* client-list-swap exchanges the contents of two structures.
client_list_swap(c, d) ==
    /\ Command("swap") /\ c \in Listed /\ d \in Listed
    /\ window' = Swapped(window, c, d)
    /\ rect' = Swapped(rect, c, d)
    /\ layout' = "stale"
    /\ UNCHANGED <<client_list, mapped, conf, xgeom, status, torn>>

\* The key of swap-master: swap, then tile what is visible now.
swap_master(c, d) ==
    /\ Command("swap-master") /\ c \in Listed
    /\ d \in visible_clients /\ \A e \in visible_clients : NotAfter(client_list, d, e)
    /\ window' = Swapped(window, c, d)
    /\ auto_tile(client_list, window', mapped, Swapped(rect, c, d), conf)
    /\ UNCHANGED <<client_list, mapped, conf>>

\* move-client or resize-client over the REPL, on its own.
Place(c, r) ==
    /\ c \in Listed
    /\ rect' = [rect EXCEPT ![c] = Stored(@, r)]
    /\ xgeom' = IF Fits(r)
                THEN [xgeom EXCEPT ![window[c]] = Configured(@, r)] ELSE xgeom
    /\ torn' = IF Fits(r) THEN torn \ {window[c]} ELSE torn \cup {window[c]}
    /\ layout' = "stale"
    /\ UNCHANGED <<client_list, window, mapped, conf, status>>

move_client(c, p) ==
    Command("move") /\ Place(c, Rect(p[1], p[2], rect[c].width, rect[c].height))

resize_client(c, p) ==
    Command("resize") /\ Place(c, Rect(rect[c].x, rect[c].y, p[1], p[2]))

----------------------------------------------------------------------------
TilingNext ==
    \/ \E c \in Clients, w \in Windows : manage_window(c, w)
    \/ \E c \in Clients : remove_client(c) \/ show_or_hide(c)
    \/ \E w \in Windows : CreateWindow(w) \/ handle_configure_request_event(w)
    \/ add_master \/ remove_master
    \/ \E amount \in Amounts : grow_master(amount) \/ shrink_master(amount)
    \/ auto_tile_cycle_arrangement
    \/ client_list_reverse
    \/ \E c, d \in Clients : client_list_swap(c, d) \/ swap_master(c, d)
    \/ \E c \in Clients, p \in Moves : move_client(c, p)
    \/ \E c \in Clients, p \in Sizes : resize_client(c, p)
    \/ status = "dead" /\ UNCHANGED tvars

TilingSpec == TilingInit /\ [][TilingNext]_tvars

----------------------------------------------------------------------------
(* Properties.                                                             *)

Apart(r, s) ==
    \/ r.x + r.width <= s.x \/ s.x + s.width <= r.x
    \/ r.y + r.height <= s.y \/ s.y + s.height <= r.y

OnScreen(r) ==
    /\ 0 <= r.x /\ r.x + r.width <= ScreenWidth
    /\ 0 <= r.y /\ r.y + r.height <= ScreenHeight

SideBySide(rs) ==
    /\ \A k \in DOMAIN rs : OnScreen(rs[k])
    /\ conf.arrangements[1] # "fullscreen" =>
          \A j, k \in DOMAIN rs : j # k => Apart(rs[j], rs[k])

\* Once auto-tile has returned, the visible clients lie side by side on the
\* screen, or one behind the other in fullscreen, and so do their borders
\* where the gap has room for them; and so it would be for any other number of
\* clients that auto-tile can place (auto-vtile, auto-htile, draw_border).
TilesApart ==
    /\ layout = "tiled" => SideBySide([c \in visible_clients |-> rect[c]])
    /\ \A n \in 1..MaxTiled :
          LET tile == Tiles(n, conf)
          IN (\A k \in 1..n : Fits(tile[k])) =>
                /\ SideBySide(tile)
                /\ 2 * border_width <= conf.gap =>
                      SideBySide([k \in 1..n |-> Border(tile[k])])

\* The record in a structure is that of the window in the structure: the
\* server has the window there, or where the last configure request put it,
\* unless the server was asked for an empty window or an error cut the last
\* change short (client-list-swap, update_client_geometry).
RecordFollowsWindow ==
    \A c \in Listed :
        \/ xgeom[window[c]] \in {rect[c], Rect(0, 0, ScreenWidth, ScreenHeight)}
        \/ rect[c].width = 0 \/ rect[c].height = 0
        \/ window[c] \in torn
=============================================================================
