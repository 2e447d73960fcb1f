# nwm in TLA+

nwm is a small tiling window manager for X: a C core (`src/nwm.c`) that keeps
the list of managed windows, an embedded Guile interpreter that carries the
policy (`src/scheme/*.scm` through the API of `src/scheme.c`), and a REPL
server (`src/repl-server.c`) over which `nwm-repl` evaluates expressions in the
running window manager. This directory models its control and the parts of its
data that its behaviour depends on, checks the models with TLC and proves
their central properties with TLAPS.

It is one process with one thread. What makes it hard is everything around that
thread: the X server is shared with programs that map, unmap, withdraw and
destroy their windows between any two requests of a handler; what nwm knows
about a window is always older than what the server knows; C calls hooks, hooks
call C, and both hold on to structures that have left the list meanwhile; and
REPL peers connect, send and leave while the server works through sets of
descriptors that `select` filled earlier.

- [1. Inventory](#1-inventory)
- [2. Modules and how they correspond to the code](#2-modules-and-how-they-correspond-to-the-code)
- [3. Runs](#3-runs)
- [4. Fairness](#4-fairness)
- [5. Proofs](#5-proofs)
- [6. Disagreements between text and code](#6-disagreements-between-text-and-code)
- [7. Abstractions](#7-abstractions)
- [8. What is not modelled](#8-what-is-not-modelled)
- [9. Plan](#9-plan)

## 1. Inventory

| Component | Source | State | Operations | What makes it correct | Module |
|---|---|---|---|---|---|
| Client management | `nwm.c` 137-604 | `client_list`; per client `window`, `rect`, `next` | `manage_window`, `map_client`, `unmap_client`, `destroy_client`, `set_focus_client`, the handlers of MapRequest, UnmapNotify, DestroyNotify, ConfigureRequest | a window has at most one client; a client's window exists or is about to be reported gone; clients leave for a notification only; what is on the screen is managed; a map request is served | `Clients`, `Tiling` |
| X server and programs | external | map states, focus, geometry, grabs, redirection, queues | requests of nwm, moves of programs | (environment) | `XServer`, parts of `Tiling`, `KeyBindings`, `Startup` |
| Event dispatch | `event.c` | two tables of handlers | `xcb_event_handle`, the setters | every event reaches the handler set for its type; an error ends nwm during the startup check only | `EventDispatch` |
| Scheme API | `scheme.c` | six hooks; `wm_conf` | map, unmap, destroy, focus, move and resize a client; read the list; `client-list-swap`, `client-list-reverse`; `bind-key`; `nwm-stop`; `launch-program` | C is only handed clients; focus goes to a managed window; recorded geometry is the window's | `Clients`, `Tiling`, `KeyBindings`, `EventLoop` |
| Auto-tiling | `scheme/auto-tile.scm` | master area, arrangement, gap | `auto-tile`, `swap-master`, the commands on the master area, hooks | the layout is that of the present clients; the rectangles are disjoint and inside the screen | `Clients`, `Tiling` |
| Sample configuration | `scheme/init.scm` | key bindings, border hooks | `focus-next`, `focus-prev`, `close`, `draw-border`, ... | each key does what it is bound to for every focus | `Clients`, `Tiling`, `KeyBindings`, `Startup` |
| Window tags | `scheme/tags.scm` | `tags-assoc`: per tag a visibility and a list of clients | toggle or switch visibility, toggle a client, create and destroy a tag, hooks for new and destroyed clients | a client with a visible tag is on the screen; destroyed clients are in no tag; no client loses its last tag | `Tags` |
| Key bindings | `nwm.c` 630-720, `scheme.c` | list of bindings, grabs, copy of the layout | bind, grab, dispatch a KeyPress | the newest binding of a key runs; each key with the symbol is grabbed | `KeyBindings` |
| Pointer focus | `nwm.c` 722-760 | `pointer_window` | `auto_focus_pointer` | the focus follows the pointer to managed windows only | `Clients` |
| Event loop | `nwm.c` 762-840 | task due, time of the turn, `stop` | one turn | every task gets its turn; the sleep is bounded | `EventLoop`, `NwmLoop` |
| REPL server | `repl-server.c` | `conn_list`, descriptor sets, buffers, the current output port | `repl_server_step`, accept, read, evaluate, write, remove | each request gets its own answer; connections do not disturb each other; no buffer overflows | `ReplServer`, `ReplBuffers` |
| nwm-repl | `nwm-repl.c` | the line typed, the socket | connect, send, read, leave | its prompt comes back with the answer to its line | `ReplServer`, `ReplBuffers` |
| Startup | `nwm.c` 606-628, 842-end, `repl-server.c` 320-400 | the grab, root redirection, `~/.nwm`, the socket | check for another window manager, scan, open the socket, load `init.scm` | one nwm manages; the socket is its own; no request is lost meanwhile | `Startup` |
| Linked lists | `sglib.h` (third party) | `next` pointers | add, delete, reverse, find, iterate | | where used |
| Exception printing | `repl-server.c`, `scheme.c` | none | format a Scheme error | | none |
| Build and run scripts | | none | | | none |

How they interact:

- The **X server** queues events; the event loop drains the queue, and
  `event.c` calls the handler. Handlers answer with requests, and the server
  turns some of these into new events for nwm itself (an `UnmapNotify` for
  `xcb_unmap_window`, a `DestroyNotify` for `xcb_kill_client`).
- **C calls Scheme** through six hooks (`create-`, `map-`, `unmap-`, `destroy-`,
  `focus-` and `update-client-hook`) and through the procedures bound to keys.
  **Scheme calls C** through the API, from hooks too: a handler can recurse through
  map → hook → focus → hook, or unmap → hook → focus → hook.
- **Tags** sit on hooks of both kinds: `tag-new-client` runs in the middle of
  `manage_window`, and removing the tags of a destroyed client may unmap it,
  which runs the unmap hook inside the destroy hook.
- The **REPL** evaluates any expression between two event handlers. What is
  typed there is a command, exactly as a key binding is.
- All of them share the client structures, which live in memory that Guile's
  collector owns; the C list, the tags and the call stack refer to them.

The hazards this code is exposed to are listed one by one in `PROJECT.json`,
each at its line and with the properties that watch it.

## 2. Modules and how they correspond to the code

```
 XServer <-- Clients <-+- Tags                         WindowManagement
                ^      |                                      ^
                |      +- ClientsImplements --(INSTANCE WITH)-+
 EventLoop <-- NwmLoop

 ReplServer     ReplBuffers     Tiling     KeyBindings     EventDispatch     Startup
```

An arrow is EXTENDS unless it says otherwise. Each module `M` that is checked has an
`MCM` that gives TLC the constants that a `.cfg` cannot write. Eight modules hold the
proofs: `ClientsProofs` (`Clients`, `XServer` and the refinement of
`ClientsImplements`), `TagsProofs`, `NwmLoopProofs` (also `EventLoop`),
`TilingProofs`, `KeyBindingsProofs`, `ReplServerProofs`, `ReplBuffersProofs` and
`StartupProofs` (also `EventDispatch`).

The modules of the last row are views of one program, split where the code
interacts narrowly. `Clients` decides *which* windows are mapped and arranged, at
the grain of single X requests; `Tiling` decides *where* they are, at the grain
of handlers. `ReplServer` has the order of connections, sets and messages and
`ReplBuffers` the bytes inside them. What a key or a REPL expression *does* is a
command of `Clients`, `Tags` and `Tiling`; which binding runs is `KeyBindings`.

### The window manager

**`XServer`** is the environment, modelled from the requests nwm sends and the
events it handles: per window id a map state, override-redirect, the input
focus, and the queue of events nwm has not taken (`xqueue`). The operators
`ServerMap`, `ServerUnmap`, `ServerFocus`, `ServerDestroy` are what a request
does; the actions `App...` are what programs do at any time: create a window
(under an id that was used before, if `MaxLives` allows), ask to map it,
unmap it silently, withdraw it (unmap and send the synthetic `UnmapNotify` of
ICCCM 4.1.4), destroy it, and take the focus. The windows of `AtStart` may be there
before nwm starts, mapped or not: `scan_windows` lists them and manages none
(`nwm.c` 614-617). One that was mapped then is "found" for as long as it stays mapped;
once it is unmapped and asks to be mapped again it is a window like any other.

**`Clients`** is the window manager. `client_list`, `window` and `next` are the C
list: the variable `client_list` is the list in order, `window[c]` the field of the
structure, and `next[c]` what the `next` field holds once `c` has *left* the list,
because `scm_next_client` and the removal hooks still read it then
(`NextField`). A structure that is not listed can be allocated again.

`todo` is the remaining call stack. Each call that talks to the server or runs
a hook is a record naming a procedure and a client; a handler replaces the
head of `todo` by the calls it makes, in order, with the procedures of the hook
spliced in where `scm_run_hook` stands. So
`handle_map_request_event` for a new window leaves
`create hooks, map_client, map_client` (both calls are in the code: one at the
end of `manage_window`, one in its caller), and `map_client` leaves its hook.
The next event or command is taken when `todo` is empty. Between two
steps any program may move: this is where the interesting interleavings are.
`caught` says whether the calls are those of a REPL expression. An `auto-tile` that
meets a size which is no `uint16_t` (`MayMisfit`) raises an error with the clients before
it arranged: under the REPL the rest of the expression is dropped, `todo` becomes empty;
under a key or an event nothing catches the error and nwm ends.

| Action | Code |
|---|---|
| `handle_map_request_event`, `manage_window` | `nwm.c` `handle_map_request`, `manage_window` |
| `handle_destroy_notify_event`, `handle_unmap_notify_event` | `nwm.c` handlers of the same events |
| `map_client`, `unmap_client`, `destroy_client`, `kill_client`, `set_focus_client`, `free` | `nwm.c` functions and the `free` after a withdrawal |
| `focus_client`, `focus_next_client`, `focus_next`, `focus_prev` | `scheme.c` `scm_focus_client`, `scm_next_client`, `scm_prev_client`; the hooks of `auto-tile.scm`, the bindings of `init.scm` |
| `auto_tile` | `auto-tile.scm`: which windows are arranged, not where; also half way |
| `ClientCommand`, `close`, `client_list_reverse`, `swap_master` | procedures of the Scheme API given by key or REPL |
| `auto_focus_pointer` | `nwm.c` `auto_focus_pointer` |

The hooks are the constant `Hooks`: a sequence of procedures for each hook name,
so that the same module is checked without configuration, with the
tiling hooks and, through `ConfigProcs`, with those of `tags.scm`. The proofs about
the client list hold for every value of it; those about screen, focus and layout name
what they need of it (`HooksSpareTheRemoved`, `HooksTile`). `focus-client-hook` is run by
`set_focus_client`; `init.scm` redraws the borders there, which changes nothing
that is kept here, so it is empty in the runs. `update-client-hook` runs inside `auto_tile` for each
client; nothing in `scheme/` adds to it and it is assumed to be empty.

**`WindowManagement`** is what a window manager promises, without lists, calls
or queues: a set of windows that exist, of those that opted out, of unread map
requests and notices, and of managed windows. `Serve(w)` reads a request and must
manage `w`, unless the window is gone or exempt; `Release(w)` lets a window go and
must consume a notice about it; nothing else changes `managed`.

**`ClientsImplements`** reads that state off `Clients` (`WM == INSTANCE
WindowManagement WITH ...`): requests and notices are the events in `xqueue`,
managed windows those with a structure on the list, `up` is `status`. The call
stack, hooks, focus, layout and map states are invisible: all their steps must be
stutters. The property `Implements` is `WM!WMSpec`.

**`Tags`** extends `Clients` with `tags-assoc` as three variables (key order,
visibility, clients per tag), the procedures that `tags.scm` puts on the
hooks, and the keys and REPL procedures. `tag-switch` toggles one tag after the
other, and each toggle maps or unmaps clients one at a time with all hooks
running: one `SwitchCall` and one `change_visibility` call per turn of these loops.
Two clients of the same window are equal to `tags.scm` (`Equal`), and its `filter`,
`delete` and `assoc-remove!` are one operator, `Keep`.

**`EventLoop`** is `event_loop()`: `task_idx` is the index that survives a turn,
`started` the loop counter, `elapsed` the difference of two `gettimeofday()` readings.
A task takes any of `Durations`; the clock may be set by any of `ClockSteps`
meanwhile, so `elapsed` can go backwards. `waits[t]` is a history variable: how many
tasks have run since `t` did. **`NwmLoop`** puts `Clients` under it: task 0
(`repl_server_step`) evaluates up to `ReplCap` expressions, task 1
(`event_task_x_events`) takes X events until the queue is empty, with up to
`KeyCap` key presses before each, task 2 is the pointer. An expression or a key is a
command of `Clients`, `nwm_stop`, or nothing that `Clients` sees. A task returns
only when its calls have returned (`Idle`).

**`Tiling`** has the geometry: `rect[c]` as recorded, `xgeom[w]` as the server has
it, `conf` for the variables of `auto-tile.scm`. `auto_vtile` and `auto_htile` are
the arrangements as functions of the number of clients, with the same truncating and
exact divisions (`Whole` says where a result of the Scheme code stays an integer);
`auto_tile` places client after client and stops with the first rectangle
that `scm_to_uint16` refuses, leaving the rest unmoved. `move_client`,
`resize_client`, `client_list_swap`, `swap_master`, `manage_window`,
`handle_configure_request_event` (for any window, managed or about to be) and the keys
of the master area are one action each, and a program creates a window of any geometry
(`CreateWindow`). `torn` is the set of windows whose last update ended in a Scheme error half
way.

**`KeyBindings`** has the list of bindings, the grabs, nwm's copy of the layout
and the server's layout. A layout is a row of keysyms per keycode; `get_keysym`
translates what `bind-key` is given, `bind_key` grabs each keycode with the symbol
and adds the binding in front, `handle_key_press_event` looks a press up by symbol
and exact modifiers. `bound` and `ran` are history variables. `Collect` is Guile's
collector: the list of bindings is C memory it does not scan.

### The REPL

**`ReplServer`** is `repl_server_step` split at its
system calls (`Select`, `repl_server_accept_conn`, one of `Skip`, `Evaluate`,
`EndOfFile` per connection, `Reap`), and the `nwm-repl` processes. A request is a
number and stands for the text of a line; its answer carries the same
number, so that "its own answer" can be said.

**`ReplBuffers`** is what `ReplServer` leaves out: `io_buffer_write` with its
limit, the Scheme port that writes into the buffer of a connection, the
current output port that outlives the evaluation (and the connection), the NUL
at the end of an answer and what nwm-repl shows of it. A byte is a pair (peer, line)
that says whose evaluation wrote it, so that crosstalk is visible. Every write is a
step: `Serve` takes a line and sets the output port, `Display` is one piece of output,
`Result` and `Newline` are the calls of `io_buffer_write` at the end of
`repl_conn_eval_lisp`, and `repl_conn_write` sends what is there. `due` is a history variable:
how much text of the answer has found room, or -1 once some has not.

`port[p]` is the port that lies where `conn->port` of `p` points. Only the current
output port is sure to be kept by Guile; `conn->port` is in memory of `malloc`
(`repl-server.c` 388), which the collector does not scan. `Collect` takes a port away, and a
later `Connect` may put its own port in that place. `SetPort` (line 279) with a collected port
ends nwm (an error outside every catch) or leaves the current port as it was (another
port lies there that is of no connection); with one that was put in its place it makes the port of
another session current.

### Around it

**`EventDispatch`** has the two tables of `event.c` and the stages in which nwm fills
them; a message is its response type (or error code), with or without the
SendEvent bit. **`Startup`** has several nwm processes, each a place in `main()`
(`pc`), a queue of requests the server has not taken (`out`) and one of errors and
events it has not read (`in`). The server takes requests of the process that holds the
grab only. A process may be killed or stop at any point; one that is started
again is another member of `Wms`. `asked[x]` is a history variable: the process to which the
request of window `x` was redirected.

Definitions whose comment starts with *Mutant* are variants of the
definition that follows them with a plausible bug. No specification uses them; they
show that each property is able to fail.

`PROJECT.json` maps each definition to the lines it stands for.

## 3. Runs

| Run | Instance | Question |
|---|---|---|
| `clients_tiling` | 2 window ids used once, one that may be there at the start, mapped or not, the other possibly override-redirect, 3 structures, the tiling hooks, all keys and the client procedures of the REPL, all moves of programs, pointer | do client list, screen, focus and layout agree at all times, and does `Clients` implement `WindowManagement`? |
| `nwm_loop` | 1 id used twice, its first window possibly there at the start, 2 structures, tiling hooks whose layouts may fail, commands, tasks that take two slices, a clock that is set back, `nwm-stop` | do the turns of the event loop give what the liveness of `Clients` needs? |
| `tags_keys` | 2 windows, 2 tags, whole shipped configuration, the keys of the tags and `close` | do tags, visibility and screen agree when nwm is idle? |
| `tags_admin` | 1 window that may be withdrawn, 2 tags that are created and destroyed, layouts that may fail | does a client ever lose its last tag? |
| `tiling` | 2 clients, a screen of 20 by 33, gap 2, layouts of up to 5; REPL moves and sizes that do not fit their types | are tiled windows disjoint, and is the recorded geometry that of the window? |
| `keys` | 3 keys of which two have the same symbol, 6 arguments of `bind-key`, 3 calls of it, a layout that changes | does a press run the newest binding, and does a press taken from the programs run anything? |
| `repl` | 3 peers, 2 requests each; one sends without waiting and may leave at any moment | does each get every answer, and its own, and what does the end of a connection cost? |
| `buffers` | 2 sessions of which one may end, 2 lines each of a full buffer of 3 bytes, any number of outputs of 1 byte, values of 0 or 1, keys that print 2, ports that are collected | what happens at the limit of the buffers, to what keys and hooks print, and without a port? |
| `startup` | 3 nwm processes of one X server, one without HOME, any of them killed or stopped; 2 windows; any state of `~/.nwm` | does one manage, do all others give up, is a request lost? |
| `dispatch` | 12 response types, 3 error codes around each limit of the tables | does each message reach its handler? |
| `tags_destroy_hidden`, `repl_lost` | small | the disagreements of section 6 |

The properties, in the words of the code:

- `NoDuplicateWindow`: a window has at most one client. `handle_map_request`
  looks the window up before it manages it; the hazard is a second request
  before the first is handled, and an id that is used again.
- `NoZombieClient`: a client whose window is gone has its `DestroyNotify` in the
  queue. The hazard is a window that dies between the request and the
  handler, and a notification consumed on behalf of another window.
- `MappedIsManaged`: what was put on the screen since nwm started and did not opt out
  is managed, or nwm is just unmapping it. Windows that were mapped before stay unmanaged on
  purpose. Only while ids are not used again: with reuse, a late
  notification really does take the client of a new window, and the property does
  not hold.
- `LayoutFollowsClients`: between two handlers all visible clients were there
  when `auto-tile` last ran, and everything it arranged is still managed. Only while the
  sizes fit: a layout that fails leaves the clients behind the misfit where they are.
- `FocusGoesToManaged`: nwm never gives the focus to a window it does not manage,
  though the removal hooks follow the `next` field of a removed structure.
- `ClientsLeaveOnNotice`: clients leave the list only in the handling of a
  destruction or a withdrawal of their window.
- `Implements`: `Clients` is a window manager in the sense of `WindowManagement`.
- `MapRequestServed`, `ZombieRemoved`: every map request is honoured and every client
  of a destroyed window dropped, under the event loop as it is.
- `NoTaskPassedOver`: no task runs twice before each of the others has run.
  `SleepBounded`: the sleep is positive and at most a slice, unless the clock was
  set back. `LoopIsFair`: the composition satisfies `Clients!Fairness` or has been
  stopped. `StarvedOnlyByEvents`: only an endless supply of X events keeps a task or
  `nwm-stop` waiting.
- `VisibleTagIsMapped`: with all events handled, a client with a visible tag is
  on the screen. `TaggedIsManaged`: tags list managed clients.
  `SwitchShowsOneTag`: after `tag-switch` exactly that tag is visible.
  `DestroyTagKeepsTagged`: `destroy-tag` leaves no client without a tag.
- `TilesApart`: tiles (and their borders, where the gap has room) are
  disjoint and inside the screen, for the present clients and for every number up to
  `MaxTiled`. `RecordFollowsWindow`: `rect` of a client is the geometry of its
  window, through swaps, errors and configure requests.
- `BoundKeysGrabbed`, `NewestBindingRuns`, `TakenKeyRuns`: each key with a bound symbol
  is grabbed; a press runs what was bound last, also when it was bound while the
  press was on its way; a press that was taken from the programs runs something.
- `AnswerMatchesRequest`: what nwm-repl reads is the answer to what it sent.
  `RequestAnswered`: it does get one. `NewerConnectionsKept`: the end of a
  connection does not cost a newer one.
- `InBounds`: no write of an evaluation, a key or a hook goes past the end of a buffer.
  `NoCrossTalk`: no evaluation writes into another session, while its own session
  has its port. `AnswerShownWhole`: an answer all of whose parts found room is shown
  whole, in order, at its own prompt, behind what keys and hooks printed before.
  `LineAnswered`: every line gets its prompt back.
- `OnlyOneManages`, `SocketOfManager`, `NothingThrownAway`, `WindowsAreMapped`,
  `StartsOrGivesUp`: the check for another window manager works however the
  processes interleave; nwm-repl reaches the one that manages; the queue is
  polled without handlers only while it can hold nothing but errors; a window asked
  for is mapped unless the very nwm that was asked ended, and a window that calls is not left
  calling for ever; nobody waits for ever.
- `EachToItsHandler`, `OnlyTheCheckIsFatal`: the arithmetic on response types, for errors
  and events, during the check and after it, and the exclusive error handler of the check.

**Bounds.** `MaxLives`, `QueueCap`, `MaxTagged`, `MaxMaster`, `MaxTiled`, `Moves`,
`Sizes`, `MaxBindings`, `MaxRequests`, `MaxLines`, `SockCap`, `ReplCap` and `KeyCap`
are all of them, beside the small sets of windows, peers, keys and sizes. (`Backlog` is
the code's own `listen(fd, 1)`, which Linux takes as two.)

- `QueueCap` makes *programs* and *commands* wait while that many events are
  pending; events that nwm's own requests cause are always queued, so the
  queue can be longer. Two pending events are enough for every pair of events to
  race, and for an old notification to wait behind a new request.
- Two windows are enough for each interaction between windows in this code: the
  focus moves from one to the next, a hook of one sees the other, an id is matched
  wrongly; a third client structure lets one be free while a stale one is still
  referred to. The proofs cover any number of both.
- `nwm_loop` uses one id twice with two structures: what it asks about is time, not
  windows. A duration of two slices makes every slow task end its turn;
  a clock set back by three makes `elapsed` negative.
- Three connections let the one that ends have both a newer and an older
  neighbour. Buffers of 3 bytes with outputs of 1, values of 0 or 1 and keys that print 2
  make each comparison with the size come out both ways, for the output, the value, the
  newline and the NUL: what is refused is refused because of what was written before.
- The screen of 20 by 33 makes divisions leave remainders in both
  directions; a master area of 10 or 90 percent leaves a side narrower than its
  gaps, so that `auto-tile` raises half way.
- `MaxTagged` stops the growth of the tags' lists that `destroy-tag` and withdrawn
  clients cause (duplicates are appended); three entries hold both clients
  and one duplicate.
- `dispatch` takes the response types on both sides of each limit: errors, the first
  event, the events nwm handles, the last of the protocol, the extension events,
  each with and without the bit of SendEvent.

Symmetry is taken over structures (and over windows in `tiling`) only, and
only in runs whose properties are invariants, action properties or the refinement.

`Dead`, `Rest`, `Ended` and `Left` let a crashed, settled or stopped system stutter,
so deadlock is checked in every run.

## 4. Fairness

`Clients!Fairness` is `WF(NwmStep)` and `SF(HandleEvent)`: a handler that has started
makes its next call, and a pending event is not overtaken for ever by commands. It
is not assumed by any run. `NwmLoop` has one assumption, `WF(NwmMove)`: the one
thread of nwm goes on, makes the next call, returns from its task, starts the
next one. `LoopIsFair` shows that the turns of the event loop then provide
`Clients!Fairness`, and `MapRequestServed` and `ZombieRemoved` are checked
under the loop itself. Nothing is assumed of the programs: a program need not map,
answer or destroy anything. Nor is a task assumed to return before it has drained the
queue, which is why `StarvedOnlyByEvents` has its first alternative.

`ReplServer!FairSpec` is weak fairness of `ServerStep` (the loop keeps calling
`repl_server_step`, which `LoopIsFair` and `NoTaskPassedOver` justify) and of
each peer's `Receive`: nwm-repl blocks in `read` and does nothing else until an
answer comes. Peers need not connect, send or leave. `ReplBuffers!BuffersFairSpec`
is the same for its steps: weak fairness of `ReadAnswer` and of the end of an
evaluation (`Result`, `Newline`, `repl_conn_write`: expressions are assumed to return, as one that
does not blocks all of nwm), and strong fairness of `Serve` for each peer, because the
evaluations of other sessions disable it again and again.

`Startup!StartupFairSpec` is weak fairness of each process once it has been started
(none need be), and strong fairness of the X server towards each connection: it
serves one when it may, but a grab by another disables that again and again.

## 5. Proofs

Eight modules are checked by TLAPS for every value of the constants that
satisfies the assumptions of the module proved about.

| Module | Theorem | Statement |
|---|---|---|
| `ClientsProofs` | `AppStepPreserves` | each move of a program keeps the server's types, and a window that stops existing has a `DestroyNotify` queued |
| | `Invariant` | `Spec => []IInv` |
| | `TypeCorrect` | `Spec => []TypeOK` |
| | `NoWindowManagedTwice` | `Spec => []NoDuplicateWindow` |
| | `NoZombieKept` | `Spec => []NoZombieClient` |
| | `ClientsLeave` | `Spec => ClientsLeaveOnNotice` |
| | `Refinement` | `Spec => Implements` |
| | `CallsAreAimed` | `Spec => []AimedInv`, if `HooksSpareTheRemoved` |
| | `FocusIsAimed` | `Spec => FocusGoesToManaged`, if `HooksSpareTheRemoved` |
| | `NothingUnmanaged` | `Spec => []MappedIsManaged`, if also `IdsUsedOnce` |
| | `LayoutIsPresent` | `Spec => []LayoutFollowsClients`, if also `HooksTile` and `TilesFit` |
| `TagsProofs` | `TagsTypeCorrect` | `TagsSpec => []TagsTypeOK` |
| | `TagsKeepTheList` | `TagsSpec => [](NoDuplicateWindow /\ NoZombieClient)` |
| | `TagsRefinement` | `TagsSpec => Implements` |
| | `DestroyedTagsClients` | `TagsSpec => DestroyTagKeepsTagged` |
| | `SwitchLeavesOneTag` | `TagsSpec => SwitchShowsOneTag` |
| | `TaggedAreManaged` | `TagsSpec => []TaggedIsManaged`, if no program withdraws |
| | `VisibleTagsAreMapped` | `TagsSpec => []VisibleTagIsMapped`, if `OnlyTagsUnmap` and `TilesFit` |
| `NwmLoopProofs` | `LoopInvariant` | `LoopSpec => []LoopInv` |
| | `TasksInTurn` | `LoopSpec => []NoTaskPassedOver` |
| | `SleepInSlice` | `LoopSpec => []SleepBounded` |
| | `NwmIsClients`, `NwmKeepsTurns` | `NwmLoopSpec => Spec`, `NwmLoopSpec => LoopSpec` |
| | `NwmSafe` | the invariants of both parts hold of the composition |
| `TilingProofs` | `TilingInvariant` | `TilingSpec => []TilingInv` |
| | `TilingTypeCorrect` | `TilingSpec => []TilingTypeOK` |
| | `RecordsFollow` | `TilingSpec => []RecordFollowsWindow` |
| | `SideBySideTiles` | `TilingSpec => []TilesApart` |
| `StartupProofs` | `StartupTypeCorrect` | `StartupSpec => []StartupTypeOK` |
| | `OneManager` | `StartupSpec => []OnlyOneManages` |
| | `SocketIsTheManagers` | `StartupSpec => []SocketOfManager` |
| | `NoRequestThrownAway` | `StartupSpec => []NothingThrownAway` |
| | `DispatchInvariant` | `DispatchSpec => []DispatchInv` |
| | `EventsReachTheirHandlers` | `DispatchSpec => EachToItsHandler` |
| | `FatalInCheckOnly` | `DispatchSpec => OnlyTheCheckIsFatal` |
| `KeyBindingsProofs` | `KeysInvariant` | `KeysSpec => []KeysInv` |
| | `EveryKeyGrabbed` | `KeysSpec => []BoundKeysGrabbed` |
| | `NewestRuns` | `KeysSpec => NewestBindingRuns` |
| | `NoPressInVain` | `KeysSpec => TakenKeyRuns` |
| `ReplServerProofs` | `ReplInvariant` | `Spec => []ReplInv` |
| | `ReplTypeCorrect` | `Spec => []TypeOK` |
| | `AnswersMatch` | `Spec => []AnswerMatchesRequest` |
| | `NewerKept` | `Spec => NewerConnectionsKept` |
| `ReplBuffersProofs` | `BuffersInvariant` | `BuffersSpec => []BuffersInv` |
| | `NeverPastTheEnd` | `BuffersSpec => []InBounds` |
| | `EachToItsSession` | `BuffersSpec => []NoCrossTalk` |
| | `AnswersAreWhole` | `BuffersSpec => []AnswerShownWhole`, if `LinesFit` |

**The client list.** `TypeOK` says more than types: `todo \in Seq(CallSet)` says that
no C function other than the focus procedures is ever handed a null or unspecified
client. The assumptions say that the null pointer, the unspecified value and the
id 0 are none of the clients and windows, that `free` is on no hook, and that hooks
hold known procedures. The inductive invariant is

    IInv == TypeOK /\ NoDuplicateWindow /\ NoZombieClient /\ FreedUnlisted

- `FreedUnlisted`: a client that `todo` will `free` is not on the list. It is
  needed because `free()` may overwrite the field `window`: on a listed client that
  would break both other invariants (two clients with the same garbage, or a
  client whose window does not exist). It is inductive because `free` is pushed
  only by the handler that has just unlinked the structure, behind an
  `unmap_client` whose hook contains no `free`, and because a structure that is
  still to be freed cannot be allocated again before `todo` is empty.
- `NoDuplicateWindow` and `NoZombieClient` need each other. Handling a
  `DestroyNotify` consumes the event that justified a client of a dead window:
  this is sound only because that window has no second client. And the argument
  that a client's justification survives each other event compares the window of
  the event with the windows of the other clients.
- `client-list-swap` exchanges two fields `window` of listed clients: both
  invariants speak of the multiset of windows and survive.
- `NoDuplicateWindow` includes that no structure is listed twice, which
  `Unlink` (remove one position) needs to establish `FreedUnlisted`.

There is one lemma per action (or per family of actions that leave the list
and the queue alone). `ClientsLeave` is an action property: the same case split
over `Next`, under `IInv`.

**The refinement.** The lemmas say what each kind of step does to the abstract
state: which windows have unread requests and notices when an event is read or
queued, what the managed windows are when a structure is listed, unlisted, freed
or exchanged. A step of `Clients` is then a step of `WindowManagement` or leaves
all six abstract variables alone. `IInv` is needed throughout: unlisting one
structure ends the management of its window because there is no second one, and
`free()` does not change `managed` because of `FreedUnlisted`.

**Screen, focus and layout.** These depend on the hooks. What they need of them is
stated as three named conditions, beside `Clients`: `HooksSpareTheRemoved` (a removal
hook does not map or focus the client it is given, which `auto-tile.scm` and `tags.scm`
respect), `HooksTile` (the three hooks that follow a change of the screen call
`auto-tile`), `TilesFit` (no size misfits) and `IdsUsedOnce`. `MCClientsImplements` has TLC
evaluate that the configuration of `clients_tiling` satisfies them. The invariants build on `IInv`:

- `AimedInv`: a call that gives a window to the user (`map_client`, `focus_client`,
  `set_focus_client`) is for a listed client, null or the unspecified value; and from a client
  that any call still holds after it has left, `next-client` leads to a listed one.
  Only the second half carries the first over a removal: `focus_next_client` reads the
  `next` field of the removed structure, and that neighbour is still listed because
  only the handlers of events change who is listed, with no call due.
- `ScreenInv`: a window mapped since the start that did not opt out is managed or is that of
  an `unmap_client` that is due; while errors are caught, and a layout that fails would drop that
  call, it is managed, because the REPL takes nobody off the list. With ids used twice this
  fails for a real reason (section 3).
- `LaidInv`: the windows arranged are the managed windows on the screen, or a call
  that runs `auto-tile` is due. A layout that fails leaves neither, hence `TilesFit`.

**Tags.** `tags.scm` adds calls to the hooks of `Clients`, so every step of `Clients`
happens under it too. `TagsInv` is `IInv` and the types of the tags; its proof shows that
each tag procedure is, for `Clients`, a call that makes `map_client` and `unmap_client` calls
or none, so list, justification of clients and refinement survive whatever is tagged.
What the tags themselves promise needs more:

- `SwitchInv`: all turns of a `tag-switch` that are due are for the same tag, and every
  other tag already is as visible as it should be. Hooks that run between two turns
  change lists of clients but no visibility.
- `TaggedInv`: a client in a tag is listed, or a call that will take it off that tag is
  due; while errors are caught it is listed, so a layout that fails drops no such call. A withdrawn client is freed without a hook and stays in its tags (section 7):
  hence the condition of `TaggedAreManaged`.
- `VisibleInv`: a managed client with a visible tag is mapped, reported gone, or named
  by a `map_client` or `change_visibility` call that is due; an `unmap_client` is due
  only at the head of `todo` and for a client that no visible tag lists by then; a
  client that is being tagged has the `map_client` of `manage_window`'s caller as the
  last call due, so that it is mapped although `tag-new-client` may unmap it.
  `OnlyTagsUnmap` excludes what hides a tagged client for other reasons: a program that
  unmaps or withdraws its window, a REPL expression `unmap-client`, a hook of the user
  that unmaps, and `destroy-tag`, which is disagreement 2 of section 6; a layout that fails
  under the REPL drops the `map_client` calls that are due, hence `TilesFit`. `MCTags` has TLC
  evaluate that `tags_keys` satisfies it.

**Tiling.** `auto-tile` gives each visible client the tile of its rank: the number of
visible clients up to it in the list (`Nth`, `NotAfter`). Stated that way, what is
proved needs no induction over the list: different clients have different ranks, and
the `k`-th tile has a closed form (`VTile`, `HTile`). Disjointness then is arithmetic: of
`n` equal shares `side \div n`, share `j` ends before share `k` begins if `j < k`, none ends
beyond the side, and the gap inside each share separates the borders. `TilingInv` is the
types, `ListInv` (no structure listed twice, no two with one window: it would be moved
for both), `RecordFollowsWindow`, and `TiledAsPlaced`: while `layout` is
"tiled" every record is the tile that the present list and configuration give.
One lemma (`AutoTile`) serves all steps that end in `auto-tile`.

**Dispatch.** `DispatchInv` says what the two tables hold in each stage of the start.
`EachToItsHandler` is stated by `IsFor`, without the tables: an error is for the handler of
the check or the one after it, an event for the one of its type with or without the SendEvent
bit, and for none before there is one. The proof is the arithmetic of `event_index`: the bit does
not change the index, and the constants of the protocol are distinct.

**The event loop.** `LoopInv` says exactly how long each task has waited:
`waits[t]` is the number of tasks between `t` and the one that is due, going
round. `NoTaskPassedOver` follows. `SleepBounded` is inductive by itself.

**The composition.** Each action of `NwmLoop` is an action of one part and a
step or a stutter of the other, so the theorems of both parts hold of it.

**Startup.** `StartupInv` says of each place in `main()` what the two queues of the
process hold and who has the server: at `sync`, grab and claim are both waiting, or the
claim is and the server is grabbed, or the answer has come (the redirection, or an
error in `in`); from `scan` to `select` the process has redirection and grab; later
it has the redirection, and the grab until its release is taken. Nothing but errors
can be in `in` at `poll` because no request is redirected to a process before that
release. Whoever reached `load` listens on the socket, and who would unlink it has
the redirection, which is unique.

**Keys.** `KeysInv` ties the list to the history: the first binding of a symbol and
modifiers in the list is the newest one asked for, everything asked for is listed,
all listed symbols have keys, each grab belongs to a binding and each press in
the queue to a grab.

**Connections.** `ReplInv` says where the one request of a peer that does not pipeline
can be: nowhere before the first and after its answer has been read; while the peer
waits, unread in the server's socket, evaluated in the write buffer, or in the peer's
socket (or lost with a server killed in between). So nothing can be read but its
answer. It also says that a peer is listed only after it connected and once, that what
`select` saw in the backlog is still there for `accept`, and that only a connection
whose peer has left is on `delete_list`. `NewerConnectionsKept` needs the last part: the
list is cut off behind that connection, and `Reap` removes no other.

**Buffers.** `BuffersInv` is types, bounds and owners together, with `PortInv`: during an
evaluation the current output port is that of the connection, or the port of that
connection was collected (`Lost`). Each write is a step, so the bound holds of
every piece of output, the value and the newline alike. A lemma on the least element of a set of numbers
gives what `UpToNul` cuts off. `AnswersAreWhole` adds `StageInv`: where the one line of a session is
(typed, received, answered, read), and that what its buffer holds while it is evaluated ends with the
`due` bytes of text its evaluation has written so far, with a NUL behind them once the answer is
complete, and before that only what keys, hooks and sessions without a port printed (`Strays`). Its
condition `LinesFit` is needed: a longer line is read and evaluated in pieces, and the
answer to the first piece ends the prompt.

**Model-checked only**: liveness (`MapRequestServed`, `ZombieRemoved`, `LoopIsFair`,
`StarvedOnlyByEvents`, `RequestAnswered`, `LineAnswered`, `WindowsAreMapped`,
`StartsOrGivesUp`): fairness and ENABLED are beyond the prover. Every invariant, every
action property and the refinement that a passing run checks is also stated by a theorem. Where
a theorem has a condition, the run checks the property in an instance that satisfies it.

## 6. Disagreements between text and code

Met while modelling, and shown by a run whose property states the text:

1. **`repl_lost`** (bug): when a connection ends, `repl_server_step` puts it on
   `delete_list` through the same `next` field that `conn_list` runs through
   (`repl-server.c:438`). Every older connection falls off the list: it is neither
   served nor closed, and its nwm-repl waits for ever. The comment at line 408
   promises to monitor all connections.
2. **`tags_destroy_hidden`**: `destroy-tag` gives the clients of a hidden tag to
   a visible one and leaves them off the screen (`tags.scm:45`), against the
   comment at `tags.scm:141`.

Contained in the models without a property of their own:

- The loop over `delete_list` follows the link of a connection that it has just
  freed (`repl-server.c:458`) and may ask to delete something that is not in the
  list, which `sglib.h:350` asserts against (`Reap`).
- The key that toggles a client's tag does not look whether anything is focused,
  and puts the unspecified value into the tag (`tags.scm:167`); hiding that tag
  later dereferences it. `TagsTypeOK` allows it.
- `destroy-tag` moves all clients of the tag, not only the orphans its comment
  names (`tags.scm:49`, comment at 37).
- `tag-new-client` unmaps a client none of whose tags is visible, in the middle of
  `manage_window`, which maps it right afterwards.
- nwm dies when `WM_PROTOCOLS` of a destroyed or impolite window cannot be read
  and the uninitialized reply is wiped (`destroy_client`, one outcome among others),
  and when it writes to a REPL peer that has left (`SIGPIPE`, `pc = "killed"`).
- The sleep is longer than the slice when the clock is set back during a turn
  (`nwm.c:837`, comment at 834): the second part of `SleepBounded` excludes that.
- `draw_border` makes the rectangle `4 * width` wider, so the border that is drawn is
  twice as wide as `border-width` says (`nwm.c:134`, `auto-tile.scm:113`).
  `TilesApart` therefore asks for a gap of two border widths.
- An answer whose newline and NUL do not fit is sent without them
  (`repl-server.c:311`); nwm-repl then prints up to what it had read (`ReadAnswer`).
- The procedures of bindings are not marked for the collector (`nwm.c:716`); `Collect`
  lets one that no variable holds go, and anything may run in its place.
- Nor is the port of a connection (`repl-server.c:388`): once collected, the next line of that
  session ends nwm, or prints wherever the current port points, or into the session whose port was put
  in its place (`Collect`, `SetPort` of `ReplBuffers`).
- `init.scm` begins with `(load "auto-tile.scm")` and loads `tags.scm`, but the
  `README.md` of nwm (lines 41-42) copies `init.scm` only: the load ends with the first
  missing file, nwm goes on without keys and hooks (`load_init_scheme`).
- A process without `HOME` ends in `strlen(NULL)` after it has claimed the screen
  (`repl-server.c:341`; `init_conf_dir`, `Unlink`).

## 7. Abstractions

- `XServer` queues only events that nwm handles and that change the state of
  `Clients`: MapRequest, UnmapNotify, DestroyNotify. ConfigureRequest and KeyPress are
  in `Tiling` and `KeyBindings`. Stacking and colours are left out.
- Each window belongs to a program of its own, so `xcb_kill_client` destroys one
  window.
- `mark_client` marks nothing, so a structure that is not on the C list can be
  collected although a tag still refers to it. `manage_window` picks any
  unlisted structure; whether the collector really ran is left open. Tags keep
  withdrawn clients (no hook runs for a withdrawal), so such an entry may
  turn into another window's client: `TaggedIsManaged` is checked where no window is
  withdrawn, and `tags_admin` runs with withdrawals and checks what still holds.
- `free()` of memory of the collector may abort, do nothing that matters, or
  overwrite the first words of the structure, `window` among them.
- Where a layout fails (`MayMisfit`) is not computed in `Clients`: any visible client may be
  the first that does not fit. `Tiling` computes it.
- `get-focus-client` (`xcb_get_input_focus`) at the start of a command and
  `visible-clients` inside one are sampled in one step each; programs
  move between commands, and between a command and the calls it makes.
- `handle_unmap_notify_event` also maps `event->event`, which is the root window for
  every notification nwm receives: nothing changes.
- `create-tag` is called for a tag that does not exist yet. The nine tags of
  `tags.scm` are two here.
- A key binding whose procedure raises an error ends nwm and the REPL catches it:
  `Raise` has both outcomes.
- After a crash (`status = "dead"`) the programs are not followed any further.
- `Tiling` handles one event per step: no program moves between the requests of
  one `auto-tile`. That programs do move in between is what `Clients` is about.
- A line of `ReplBuffers` longer than the buffer is read and evaluated in pieces,
  each with an answer of its own (`LinesFit` excludes it where that matters).
- `ReplServer` leaves out sizes, `ReplBuffers` the order in which connections are
  served. That ports are collected is in `ReplBuffers` only: in `ReplServer` every connection
  keeps its port. A `select` that fails makes `repl_server_step` return with nothing
  done, a stuttering step. Requests that
  arrive together are evaluated together, and only the last value is answered
  (`Evaluate`). A peer that leaves with unread answers resets the connection; the
  first read then fails. A write of an answer to a local socket is never short: an
  answer is at most one buffer.
- A keyboard is two or three keys; `bind-key` of a character is that of the keysym
  with the same name.
- In `Startup` the requests that matter are the grab, the claim of the root window,
  the selection of events and the release; everything else a process sends is
  read-only. `xinerama_test` and `scan_windows` wait for replies: `Scan` does. All processes are
  of one X server. A second server with the same home directory (`run-in-xephyr` starts an
  nwm on display `:1`) has a redirection of its own, and its nwm takes over the one socket in
  `~/.nwm`: `SocketOfManager` does not speak of that.

## 8. What is not modelled

- `launch-program`: a forked copy of the process that runs another program, or, if
  that is missing, a Scheme error inside a second copy of nwm on the same X connection,
  which has no defined behaviour to model.
- Exception printing (`handle_lisp_error`, `str_exception_param`): text for the log,
  with no state; where it reads uninitialized strings nothing could be related to it.
- `get-client-name`, `dump-client`, `log`, `trace-x-events`: read-only.
- The descriptors that `repl_conn_free` does not close: their number only grows, and a
  property about it would restate the missing `close()`.
- The end of the X connection: the code has no case for it.
- The rest of `sglib.h`: third-party macros; add, delete and reverse are modelled
  where they are used, together with the links they leave behind.
- `xcb_event_wait_for_event_loop` of `event.c` is not called.
- The build and run scripts.

## 9. Plan

1. An abstract request/answer service, with a set of outstanding requests and no
   connections, that `ReplServer` implements as long as no peer leaves; and `ReplServer`
   composed with `ReplBuffers`, so that `NoCrossTalk` and `AnswerMatchesRequest` are said of
   one system.
2. The safety part of the liveness arguments as theorems: that each step of
   `NwmLoop` brings the due task nearer to its turn (a measure that decreases), that a
   pending map request only moves towards the head of the queue.
3. `TaggedIsManaged` in the presence of withdrawals: an invariant that names exactly
   the entries that outlive their client.
4. `Startup` under `NwmLoop`: that nothing is evaluated before the screen is claimed.
