---------------------------- MODULE NwmLoopProofs ----------------------------
(***************************************************************************)
(* Proofs about EventLoop, for any number of tasks, any slice and any      *)
(* durations; and that NwmLoop implements both of its parts, so what is    *)
(* proved about the window manager and about the event loop holds of nwm   *)
(* as one thread.                                                          *)
(***************************************************************************)
EXTENDS NwmLoop, ClientsProofs

----------------------------------------------------------------------------
(* The event loop.                                                         *)

\* How many tasks were begun since t was, when `due' comes next: those between
\* the two on the circle.
Between(t, due) == IF t < due THEN due - 1 - t ELSE TaskCount + due - 1 - t

\* Why no task is passed over: a task waits for those between it and the task
\* that is due, and the one that is running has just begun.
WaitsInOrder ==
    \A t \in Tasks :
        waits[t] <= IF pc = "running"
                    THEN IF t = task_idx THEN 0 ELSE Between(t, task_idx) + 1
                    ELSE Between(t, task_idx)

\* A task runs in a turn that had not started all of them.
TurnNotOver == pc = "running" => started < TaskCount

LoopInv == LoopTypeOK /\ TurnNotOver /\ WaitsInOrder

LEMMA LoopInitial == LoopInit => LoopInv
<1> USE EventLoopAssumption DEF Tasks
<1> SUFFICES ASSUME LoopInit PROVE LoopInv
    OBVIOUS
<1>1. LoopTypeOK /\ TurnNotOver
  <2>1. 0 \in 0..(TaskCount - 1) /\ 0 \in 0..TaskCount
    OBVIOUS
  <2>2. waits \in [Tasks -> 0..TaskCount] /\ task_idx \in Tasks
    BY <2>1 DEF LoopInit
  <2>3. /\ pc = "turn" /\ started \in 0..TaskCount /\ elapsed \in Int
        /\ usleep_time \in Int
    BY <2>1 DEF LoopInit
  <2>4. stop \in BOOLEAN
    BY Zenon DEF LoopInit
  <2> QED BY <2>2, <2>3, <2>4 DEF LoopTypeOK, TurnNotOver
<1>2. WaitsInOrder
    BY DEF LoopInit, WaitsInOrder, Between
<1> QED BY <1>1, <1>2 DEF LoopInv

\* The index stays on the circle and the counters in their ranges.
LEMMA LoopTypes == LoopTypeOK /\ TurnNotOver /\ [LoopNext]_loopvars
                       => LoopTypeOK' /\ TurnNotOver'
<1> USE EventLoopAssumption DEF Tasks, LoopTypeOK, TurnNotOver
<1> SUFFICES ASSUME LoopTypeOK, TurnNotOver, [LoopNext]_loopvars
             PROVE  LoopTypeOK' /\ TurnNotOver'
    OBVIOUS
<1>1. CASE Turn
  <2>1. CASE StartTurn BY <2>1 DEF StartTurn
  <2>2. CASE BeginTask BY <2>2 DEF BeginTask, TimeLeft, OneMore
  <2>3. CASE EndTurn BY <2>3 DEF EndTurn
  <2>4. CASE WakeUp BY <2>4 DEF WakeUp
  <2>5. CASE Leave BY <2>5 DEF Leave
  <2> QED BY <1>1, <2>1, <2>2, <2>3, <2>4, <2>5 DEF Turn
<1>2. ASSUME NEW d \in Durations, NEW s \in ClockSteps, EndTask(d + s)
      PROVE  LoopTypeOK' /\ TurnNotOver'
  <2>1. d \in Int /\ s \in Int
    OBVIOUS
  <2> QED BY <1>2, <2>1 DEF EndTask
<1>3. CASE nwm_stop BY <1>3 DEF nwm_stop
<1>4. CASE UNCHANGED loopvars BY <1>4 DEF loopvars
<1> QED BY <1>1, <1>2, <1>3, <1>4 DEF LoopNext

\* A task that begins leaves the circle behind it one longer; ending it moves
\* the index on to the next.
LEMMA WaitsKept == LoopTypeOK /\ WaitsInOrder /\ [LoopNext]_loopvars
                       => WaitsInOrder'
<1> USE EventLoopAssumption DEF Tasks
<1> SUFFICES ASSUME LoopTypeOK, WaitsInOrder, [LoopNext]_loopvars,
                    NEW t \in Tasks
             PROVE  waits'[t] <= IF pc' = "running"
                                 THEN IF t = task_idx' THEN 0
                                      ELSE Between(t, task_idx') + 1
                                 ELSE Between(t, task_idx')
    BY DEF WaitsInOrder, Between
<1>0. waits[t] \in Nat /\ task_idx \in Tasks /\ t \in Int
    BY DEF LoopTypeOK
<1>1. waits[t] <= IF pc = "running"
                  THEN IF t = task_idx THEN 0 ELSE Between(t, task_idx) + 1
                  ELSE Between(t, task_idx)
    BY DEF WaitsInOrder
<1>2. CASE BeginTask
  <2>1. pc # "running" /\ pc' = "running" /\ task_idx' = task_idx
    BY <1>2 DEF BeginTask
  <2>2. waits'[t] = IF t = task_idx THEN 0 ELSE OneMore(waits[t])
    BY <1>2 DEF BeginTask
  <2> QED BY <1>0, <1>1, <2>1, <2>2 DEF OneMore, Between
<1>3. ASSUME NEW d \in Durations, NEW s \in ClockSteps, EndTask(d + s)
      PROVE  waits'[t] <= IF pc' = "running"
                          THEN IF t = task_idx' THEN 0
                               ELSE Between(t, task_idx') + 1
                          ELSE Between(t, task_idx')
  <2>1. /\ pc = "running" /\ pc' = "next" /\ waits' = waits
        /\ task_idx' = IF task_idx + 1 = TaskCount THEN 0 ELSE task_idx + 1
    BY <1>3 DEF EndTask
  <2> QED BY <1>0, <1>1, <2>1 DEF Between
<1>4. CASE StartTurn \/ EndTurn \/ WakeUp \/ Leave \/ nwm_stop
           \/ UNCHANGED loopvars
  <2>1. waits' = waits /\ task_idx' = task_idx
    BY <1>4 DEF StartTurn, EndTurn, WakeUp, Leave, nwm_stop, loopvars
  <2>2. (pc' = "running") <=> (pc = "running")
    BY <1>4 DEF StartTurn, EndTurn, WakeUp, Leave, nwm_stop, loopvars
  <2> QED BY <1>1, <2>1, <2>2
<1> QED BY <1>2, <1>3, <1>4 DEF LoopNext, Turn

\* The state of the loop, and the order of the tasks behind it, in every
\* reachable state.
THEOREM LoopInvariant == LoopSpec => []LoopInv
<1>1. LoopInit => LoopInv
    BY LoopInitial
<1>2. LoopInv /\ [LoopNext]_loopvars => LoopInv'
    BY LoopTypes, WaitsKept DEF LoopInv
<1> QED BY <1>1, <1>2, PTL DEF LoopSpec

\* No task of the event loop is passed over, whatever the clock does.
THEOREM TasksInTurn == LoopSpec => []NoTaskPassedOver
<1>1. LoopInv => NoTaskPassedOver
    BY EventLoopAssumption
       DEF LoopInv, LoopTypeOK, WaitsInOrder, NoTaskPassedOver, Between, Tasks
<1> QED BY <1>1, LoopInvariant, PTL

----------------------------------------------------------------------------
\* usleep() is given at least one microsecond, and more than a slice only when
\* the clock was set back in the turn.
THEOREM SleepInSlice == LoopSpec => []SleepBounded
<1> USE EventLoopAssumption DEF SleepBounded
<1>1. LoopInit => SleepBounded
    BY DEF LoopInit
<1>2. LoopTypeOK /\ SleepBounded /\ [LoopNext]_loopvars => SleepBounded'
  <2> SUFFICES ASSUME LoopTypeOK, SleepBounded, [LoopNext]_loopvars
               PROVE  SleepBounded'
    OBVIOUS
  <2>0. usleep_time \in Int /\ elapsed \in Int
    BY DEF LoopTypeOK
  <2>1. CASE EndTurn BY <2>0, <2>1 DEF EndTurn
  <2>2. CASE WakeUp BY <2>2 DEF WakeUp
  <2>3. CASE StartTurn \/ BeginTask \/ Leave
    BY <2>3 DEF StartTurn, BeginTask, Leave
  <2>4. ASSUME NEW d \in Durations, NEW s \in ClockSteps, EndTask(d + s)
        PROVE  SleepBounded'
    BY <2>4 DEF EndTask
  <2>5. CASE nwm_stop \/ UNCHANGED loopvars
    BY <2>5 DEF nwm_stop, loopvars
  <2> QED BY <2>1, <2>2, <2>3, <2>4, <2>5 DEF LoopNext, Turn
<1> QED BY <1>1, <1>2, LoopInvariant, PTL DEF LoopSpec, LoopInv

----------------------------------------------------------------------------
(* nwm under its event loop.                                               *)

\* Whatever the event loop has nwm do is something Clients lets it do.
LEMMA StepOfClients == [NwmLoopNext]_allvars => [Next]_vars
<1> SUFFICES ASSUME [NwmLoopNext]_allvars PROVE [Next]_vars
    OBVIOUS
<1>1. CASE BetweenTasks \/ StartTask \/ TaskReturns
  BY <1>1 DEF BetweenTasks, StartTask, TaskReturns
<1>2. CASE Evaluate
  BY <1>2 DEF Evaluate, Next
<1>3. CASE event_task_x_events
  BY <1>3 DEF event_task_x_events, Next
<1>4. CASE event_task_autofocus
  BY <1>4 DEF event_task_autofocus, Next
<1>5. CASE MakeCall
  BY <1>5 DEF MakeCall, Next
<1>6. CASE AppAction
  BY <1>6 DEF Next
<1>7. CASE UNCHANGED allvars
  BY <1>7 DEF allvars
<1> QED BY <1>1, <1>2, <1>3, <1>4, <1>5, <1>6, <1>7 DEF NwmLoopNext, NwmMove

\* And it keeps to its turns while it does.
LEMMA StepOfLoop == [NwmLoopNext]_allvars => [LoopNext]_loopvars
<1> SUFFICES ASSUME [NwmLoopNext]_allvars PROVE [LoopNext]_loopvars
    OBVIOUS
<1>1. CASE BetweenTasks
  BY <1>1 DEF BetweenTasks, LoopNext, Turn
<1>2. CASE StartTask
  BY <1>2 DEF StartTask, LoopNext, Turn
<1>3. CASE TaskReturns
  BY <1>3 DEF TaskReturns, LoopNext
<1>4. CASE Evaluate
  BY <1>4 DEF Evaluate, LoopNext
<1>5. CASE event_task_x_events \/ event_task_autofocus \/ MakeCall
  BY <1>5 DEF event_task_x_events, event_task_autofocus, MakeCall
<1>6. CASE AppAction /\ UNCHANGED <<loopvars, work>>
  BY <1>6
<1>7. CASE UNCHANGED allvars
  BY <1>7 DEF allvars
<1> QED BY <1>1, <1>2, <1>3, <1>4, <1>5, <1>6, <1>7 DEF NwmLoopNext, NwmMove

\* nwm under its event loop is the window manager of Clients.
THEOREM NwmIsClients == NwmLoopSpec => Spec
<1>1. NwmLoopInit => Init
    BY DEF NwmLoopInit
<1> QED BY <1>1, StepOfClients, PTL DEF NwmLoopSpec, Spec

\* nwm under its event loop takes the turns of EventLoop.
THEOREM NwmKeepsTurns == NwmLoopSpec => LoopSpec
<1>1. NwmLoopInit => LoopInit
    BY DEF NwmLoopInit
<1> QED BY <1>1, StepOfLoop, PTL DEF NwmLoopSpec, LoopSpec

\* So in nwm no window is managed twice, every client's window is there or its
\* end is about to be noticed, and no task is passed over.
THEOREM NwmSafe ==
    NwmLoopSpec => [](NoDuplicateWindow /\ NoZombieClient /\ NoTaskPassedOver)
BY NwmIsClients, NwmKeepsTurns, NoWindowManagedTwice, NoZombieKept,
   TasksInTurn, PTL
=============================================================================
