------------------------------- MODULE NwmLoop -------------------------------
(***************************************************************************)
(* nwm as the one thread it is: what the window manager of Clients does,   *)
(* scheduled by the event loop of EventLoop.  In Clients any command,      *)
(* event or pointer query can come next, and Fairness assumes which ones   *)
(* eventually do; here the three tasks of nwm.c take their turns and       *)
(* Fairness is what has to follow.                                         *)
(***************************************************************************)
EXTENDS Clients, EventLoop

CONSTANTS
    ReplCap,  \* bound: the expressions one repl_server_step evaluates
    KeyCap    \* bound: the key presses that come before the next X event

ASSUME NwmLoopAssumption == TaskCount = 3 /\ ReplCap \in Nat /\ KeyCap \in Nat

VARIABLE work   \* what the running task has before it, X events apart

allvars == <<vars, loopvars, work>>

NwmLoopInit == Init /\ LoopInit /\ work = 0

Running(task) == pc = "running" /\ task_idx = task /\ Idle

StartTask ==
    /\ Idle /\ BeginTask
    /\ work' \in CASE task_idx = 0 -> 0..ReplCap
                   [] task_idx = 1 -> 0..KeyCap
                   [] task_idx = 2 -> {1}
    /\ UNCHANGED vars

\* An expression or a key press: one of the commands, nwm-stop, or nothing to
\* Clients.
Evaluate ==
    /\ Running(0) \/ Running(1)
    /\ work > 0 /\ work' = work - 1
    /\ \/ RunCommand /\ UNCHANGED loopvars /\ (caught' = (Running(0) /\ todo' # <<>>))
       \/ nwm_stop /\ UNCHANGED vars
       \/ UNCHANGED <<vars, loopvars>>

event_task_x_events ==
    /\ Running(1) /\ work = 0
    /\ HandleEvent
    /\ work' \in 0..KeyCap
    /\ UNCHANGED loopvars

event_task_autofocus ==
    /\ Running(2) /\ work = 1 /\ work' = 0
    /\ auto_focus_pointer
    /\ UNCHANGED loopvars

MakeCall == NwmStep /\ UNCHANGED <<loopvars, work>>

\* Mutant: the task returns whatever X events are left.
TaskReturnsEarly ==
    /\ Idle /\ work = 0
    /\ \E d \in Durations, s \in ClockSteps : EndTask(d + s)
    /\ UNCHANGED <<vars, work>>

\* The task of the X events returns only when none is left.
TaskReturns ==
    /\ Idle /\ work = 0
    /\ task_idx = 1 => xqueue = <<>>
    /\ \E d \in Durations, s \in ClockSteps : EndTask(d + s)
    /\ UNCHANGED <<vars, work>>

BetweenTasks ==
    /\ Idle
    /\ StartTurn \/ EndTurn \/ WakeUp \/ Leave
    /\ UNCHANGED <<vars, work>>

NwmMove ==
    \/ BetweenTasks \/ StartTask \/ Evaluate \/ event_task_x_events
    \/ event_task_autofocus \/ MakeCall \/ TaskReturns

\* What programs do once the loop is left is not nwm's business.
NwmLoopNext ==
    \/ NwmMove
    \/ pc # "left" /\ AppAction /\ UNCHANGED <<loopvars, work>>
    \/ (status = "dead" \/ pc = "left") /\ UNCHANGED allvars

\* All that is assumed is that the thread runs.
NwmLoopSpec == NwmLoopInit /\ [][NwmLoopNext]_allvars /\ WF_allvars(NwmMove)

----------------------------------------------------------------------------
Left == <>(pc = "left")

\* The event loop provides the fairness that Clients assumes: calls return,
\* and an X event that waits is handled however busy the REPL and the keys
\* are and however long a task takes (event_loop, event_task_x_events).
LoopIsFair == Spec /\ (Left \/ Fairness)

\* Nothing but an endless supply of X events keeps nwm from any of its tasks,
\* or from ending after nwm-stop: the drain loop of event_task_x_events is the
\* only one without an end.
StarvedOnlyByEvents ==
    \/ []<><<HandleEvent>>_vars
    \/ <>(status = "dead")
    \/ Left
    \/ [](~stop) /\ \A task \in Tasks : []<>(pc = "running" /\ task_idx = task)

\* A map request is eventually honoured, through handle_map_request_event, if
\* its window lives, did not opt out, and nwm does not end.
MapRequestServed ==
    \A w \in Windows :
        Pending("MapRequest", w) ~>
            (Mapped(w) \/ ~Exists(w) \/ w \in xoverride \/ status = "dead"
             \/ pc = "left")

\* The client of a destroyed window is eventually dropped, whatever the REPL
\* and the keys have nwm do meanwhile (handle_destroy_notify_event).
ZombieRemoved ==
    \A w \in Windows :
        (Managed(w) /\ ~Exists(w)) ~>
            (~Managed(w) \/ status = "dead" \/ pc = "left")
=============================================================================
