------------------------------ MODULE EventLoop ------------------------------
(***************************************************************************)
(* The event loop of nwm.c: three tasks take turns, a turn starts tasks    *)
(* while its time slice lasts and then sleeps.  Time is the difference of  *)
(* two gettimeofday() readings, so it also moves when the clock is set.    *)
(* What the tasks do is left to the modules that use this one.             *)
(***************************************************************************)
EXTENDS Integers

CONSTANTS
    TaskCount,   \* task_func_count
    SliceSize,   \* usec_slice_size, in units of time
    Durations,   \* bound: how long one task can take
    ClockSteps   \* by how much the clock can be set while a task runs

ASSUME EventLoopAssumption ==
    /\ TaskCount \in Nat \ {0}
    /\ SliceSize \in Nat \ {0}
    /\ Durations \subseteq Nat
    /\ ClockSteps \subseteq Int /\ 0 \in ClockSteps

VARIABLES
    pc,           \* where event_loop() is
    task_idx,     \* the task that is due next, or is running
    started,      \* i: how many tasks this turn has started and finished
    elapsed,      \* end_time - begin_time
    usleep_time,  \* what the last usleep() was asked for
    stop,         \* wm_conf.stop
    waits         \* waits[t]: tasks run since t last ran (history)

loopvars == <<pc, task_idx, started, elapsed, usleep_time, stop, waits>>

Tasks == 0..(TaskCount - 1)

LoopTypeOK ==
    /\ pc \in {"turn", "next", "running", "sleep", "left"}
    /\ task_idx \in Tasks
    /\ started \in 0..TaskCount
    /\ elapsed \in Int
    /\ usleep_time \in Int
    /\ stop \in BOOLEAN
    /\ waits \in [Tasks -> 0..TaskCount]

LoopInit ==
    /\ pc = "turn" /\ task_idx = 0 /\ started = 0
    /\ elapsed = 0 /\ usleep_time = 1
    /\ stop = FALSE
    /\ waits = [t \in Tasks |-> 0]

----------------------------------------------------------------------------
\* Mutant: every turn begins with the first task.
StartTurnAnew ==
    /\ pc = "turn" /\ ~stop
    /\ pc' = "next" /\ started' = 0 /\ task_idx' = 0
    /\ UNCHANGED <<elapsed, usleep_time, stop, waits>>

StartTurn ==
    /\ pc = "turn" /\ ~stop
    /\ pc' = "next" /\ started' = 0
    /\ UNCHANGED <<task_idx, elapsed, usleep_time, stop, waits>>

Leave ==
    /\ pc = "turn" /\ stop
    /\ pc' = "left"
    /\ UNCHANGED <<task_idx, started, elapsed, usleep_time, stop, waits>>

\* The history counts no further than what NoTaskPassedOver forbids.
OneMore(n) == IF n < TaskCount THEN n + 1 ELSE n

TimeLeft == started < TaskCount /\ elapsed <= SliceSize

BeginTask ==
    /\ pc = "next" /\ TimeLeft
    /\ pc' = "running"
    /\ waits' = [t \in Tasks |-> IF t = task_idx THEN 0 ELSE OneMore(waits[t])]
    /\ UNCHANGED <<task_idx, started, elapsed, usleep_time, stop>>

\* Mutant: the index stays at the last task.
EndTaskStuck(d) ==
    /\ pc = "running"
    /\ pc' = "next" /\ started' = started + 1 /\ elapsed' = elapsed + d
    /\ task_idx' = IF task_idx + 1 = TaskCount THEN task_idx ELSE task_idx + 1
    /\ UNCHANGED <<usleep_time, stop, waits>>

\* The task returns after d units of time by the clock.
EndTask(d) ==
    /\ pc = "running"
    /\ pc' = "next" /\ started' = started + 1 /\ elapsed' = elapsed + d
    /\ task_idx' = IF task_idx + 1 = TaskCount THEN 0 ELSE task_idx + 1
    /\ UNCHANGED <<usleep_time, stop, waits>>

\* Mutant: the argument of usleep() is unsigned, nothing stops at 1.
EndTurnUnchecked ==
    /\ pc = "next" /\ ~TimeLeft
    /\ pc' = "sleep"
    /\ usleep_time' = SliceSize - elapsed
    /\ UNCHANGED <<task_idx, started, elapsed, stop, waits>>

EndTurn ==
    /\ pc = "next" /\ ~TimeLeft
    /\ pc' = "sleep"
    /\ usleep_time' = IF SliceSize - elapsed > 0 THEN SliceSize - elapsed ELSE 1
    /\ UNCHANGED <<task_idx, started, elapsed, stop, waits>>

\* The next turn computes both times anew.
WakeUp ==
    /\ pc = "sleep" /\ pc' = "turn"
    /\ elapsed' = 0 /\ usleep_time' = 1
    /\ UNCHANGED <<task_idx, started, stop, waits>>

\* (nwm-stop), evaluated by whatever the running task calls.
nwm_stop ==
    /\ pc = "running" /\ stop' = TRUE
    /\ UNCHANGED <<pc, task_idx, started, elapsed, usleep_time, waits>>

Turn == StartTurn \/ BeginTask \/ EndTurn \/ WakeUp \/ Leave

LoopNext ==
    \/ Turn
    \/ \E d \in Durations, s \in ClockSteps : EndTask(d + s)
    \/ nwm_stop
    \/ pc = "left" /\ UNCHANGED loopvars

LoopSpec == LoopInit /\ [][LoopNext]_loopvars

----------------------------------------------------------------------------
\* No task is passed over: between two runs of a task each of the others runs
\* once, however the slices fall (the index task_idx survives the turn) and
\* whatever happens to the clock.
NoTaskPassedOver == \A t \in Tasks : waits[t] < TaskCount

\* usleep() is never asked for nothing or for a negative time, which it would
\* take for a very long one; and for no more than the slice (the comment on
\* the sleep), unless the clock was set back in the turn.
SleepBounded ==
    /\ usleep_time >= 1
    /\ pc = "sleep" /\ elapsed >= 0 => usleep_time <= SliceSize
=============================================================================
