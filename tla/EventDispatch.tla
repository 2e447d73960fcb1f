---------------------------- MODULE EventDispatch ----------------------------
(***************************************************************************)
(* From what the X server sends to the handler that gets it: the tables of *)
(* event.c and how nwm.c fills them, first for the check at startup and    *)
(* then for good.  A handler is named as the xcb_event_set_..._handler     *)
(* function that sets it.                                                  *)
(***************************************************************************)
EXTENDS Integers, Sequences

CONSTANTS
    NULL,       \* a handler that is not set
    Types,      \* the response types the server sends, 0 for an error
    ErrorCodes, \* the codes of the errors it sends
    QueueCap    \* bound: the messages nwm has not read

\* XCB_EVENT_MAKE_EVENT_HANDLER: the X11 protocol's numbers of the events.
UKIND == [key_press |-> 2, key_release |-> 3, button_press |-> 4,
          button_release |-> 5, motion_notify |-> 6, enter_notify |-> 7,
          leave_notify |-> 8, focus_in |-> 9, focus_out |-> 10,
          keymap_notify |-> 11, expose |-> 12, graphics_exposure |-> 13,
          no_exposure |-> 14, visibility_notify |-> 15, create_notify |-> 16,
          destroy_notify |-> 17, unmap_notify |-> 18, map_notify |-> 19,
          map_request |-> 20, reparent_notify |-> 21, configure_notify |-> 22,
          configure_request |-> 23, gravity_notify |-> 24,
          resize_request |-> 25, circulate_notify |-> 26,
          circulate_request |-> 27, property_notify |-> 28,
          selection_clear |-> 29, selection_request |-> 30,
          selection_notify |-> 31, colormap_notify |-> 32,
          client_message |-> 33, mapping_notify |-> 34]

\* The handlers of nwm.c that return without having done anything.
handle_button_events == {"button_press", "button_release"}
handle_configure_notify == {"configure_notify"}
handle_pointer_and_exposure ==
    {"enter_notify", "leave_notify", "focus_in", "motion_notify", "expose"}
handle_key_release == {"key_release"}
handle_other_notices == {"client_message", "mapping_notify", "reparent_notify"}

Quiet == handle_button_events \cup handle_configure_notify \cup
         handle_pointer_and_exposure \cup handle_key_release \cup
         handle_other_notices
Acting == {"configure_request", "destroy_notify", "key_press", "map_request",
           "unmap_notify"}
Set == Quiet \cup Acting
ErrorHandlers == {"startup_error", "error"}

\* What X.org sends: errors, and events with or without the bit of SendEvent.
ASSUME EventDispatchAssumption ==
    /\ NULL \notin Set \cup ErrorHandlers
    /\ Types \subseteq {0} \cup (2..127) \cup (130..255)
    /\ ErrorCodes \subseteq 0..255
    /\ QueueCap \in Nat

VARIABLES
    event,   \* evenths->event, indexed from 0
    error,   \* evenths->error
    queue,   \* the messages that wait in the connection
    stage,   \* "init", "check", "running", "exited" or "aborted"
    called   \* history: the last message that was handled and by what

dvars == <<event, error, queue, stage, called>>

Nothing == [type |-> 0, code |-> 0, handler |-> NULL]

\* xcb_event_handlers_init.
DispatchInit ==
    /\ event = [n \in 0..125 |-> NULL]
    /\ error = [n \in 0..255 |-> NULL]
    /\ queue = <<>> /\ stage = "init" /\ called = Nothing

----------------------------------------------------------------------------
\* Mutant: the mask is a bit short.
event_index_short(type) == (type % 64) - 2

\* get_event_handler: the place of an event, whoever has sent it.
event_index(type) == (type % 128) - 2

\* The assertions of xcb_event_handle and get_event_handler.
Asserted(type) == type # 1 /\ type < 256 /\ (type = 0 \/ type % 128 >= 2)

set_exclusive_error_handler(handler) == error' = [n \in 0..255 |-> handler]

set_event_handlers ==
    event' = [n \in 0..125 |->
        IF \E h \in Set : event_index(UKIND[h]) = n
        THEN CHOOSE h \in Set : event_index(UKIND[h]) = n ELSE event[n]]

\* main() before the check for another window manager.
PrepareCheck ==
    /\ stage = "init" /\ stage' = "check"
    /\ set_exclusive_error_handler("startup_error")
    /\ UNCHANGED <<event, queue, called>>

\* Mutant: the handler of errors that ends nwm stays.
EndCheckErrorsKept ==
    /\ stage = "check" /\ queue = <<>> /\ stage' = "running"
    /\ set_event_handlers
    /\ UNCHANGED <<error, queue, called>>

\* main() after it: nothing was left in the queue.
EndCheck ==
    /\ stage = "check" /\ queue = <<>> /\ stage' = "running"
    /\ set_exclusive_error_handler("error")
    /\ set_event_handlers
    /\ UNCHANGED <<queue, called>>

Receive ==
    /\ Len(queue) < QueueCap
    /\ \E type \in Types, code \in ErrorCodes :
          queue' = Append(queue, [type |-> type, code |-> code])
    /\ UNCHANGED <<event, error, stage, called>>

handler_of(message) ==
    IF message.type = 0 THEN error[message.code] ELSE event[event_index(message.type)]

\* handle_startup_error exits, handle_error and the others return.
StageAfter(handler) == IF handler = "startup_error" THEN "exited" ELSE stage

\* One pass of xcb_event_poll_for_event_loop or event_task_x_events.
xcb_event_handle ==
    /\ stage \in {"check", "running"} /\ queue # <<>>
    /\ queue' = Tail(queue)
    /\ LET message == Head(queue)
       IN IF Asserted(message.type)
          THEN /\ called' = [type |-> message.type, code |-> message.code,
                             handler |-> handler_of(message)]
               /\ stage' = StageAfter(handler_of(message))
          ELSE stage' = "aborted" /\ UNCHANGED called
    /\ UNCHANGED <<event, error>>

Ended == stage \in {"exited", "aborted"} /\ UNCHANGED dvars

DispatchNext ==
    PrepareCheck \/ EndCheck \/ (stage # "init" /\ Receive) \/ xcb_event_handle \/ Ended

DispatchSpec == DispatchInit /\ [][DispatchNext]_dvars

----------------------------------------------------------------------------
\* The handler a message is for.  Errors are for the one of the stage; an event
\* is for the handler of its own kind, a copy made by SendEvent too, but only
\* once the check is over: until then, as later for events nwm has no handler
\* for, it is for none.
IsFor(message, handler, when) ==
    IF message.type = 0
    THEN handler = IF when = "check" THEN "startup_error" ELSE "error"
    ELSE IF when = "running" /\ \E h \in Set : UKIND[h] \in {message.type, message.type - 128}
    THEN handler \in Set /\ UKIND[handler] \in {message.type, message.type - 128}
    ELSE handler = NULL

\* Whatever is taken from the queue, in the check and after it, an error or an
\* event, reaches the handler it is for (get_event_handler and the two tables).
EachToItsHandler ==
    [][Len(queue') < Len(queue) => IsFor(Head(queue), called'.handler, stage)]_dvars

\* An error ends nwm during the check for another window manager and at no
\* later time (set_exclusive_error_handler).
OnlyTheCheckIsFatal ==
    [][stage' = "exited" /\ stage # "exited" =>
          stage = "check" /\ called'.type = 0]_dvars
=============================================================================
