----------------------------- MODULE Visualizer -----------------------------
(***************************************************************************)
(* The live visualizer of ns-3: a simulation thread that runs one sample   *)
(* period at a time, and the GTK main loop, which redraws the view, grants *)
(* the next period and handles what the user does.                         *)
(*                                                                         *)
(* While the simulation is busy the redraw runs the GTK loop inside itself *)
(* (update_view_timeout), so that a handler, and a second redraw, may run  *)
(* in the middle of one.  Simulated time is counted in sample periods.     *)
(***************************************************************************)
EXTENDS Naturals, Sequences, FiniteSets

CONSTANTS Periods,     \* values of sample_period the speed control can give
          MaxTime,     \* bound: no redraw is started from this time on
          MaxTimers,   \* bound on timers started, at least 1
          MaxQueries,  \* bound on tooltips, drags and selections
          MaxMessages  \* bound on Pause calls of the simulation

\* The adjustment of the speed control has an upper limit.
ASSUME VisualizerAssumption ==
  /\ Periods \subseteq Nat \ {0} /\ 1 \in Periods
  /\ \E p \in Periods : \A q \in Periods : q <= p
  /\ MaxTime \in Nat /\ MaxTimers \in Nat \ {0}
  /\ MaxQueries \in Nat /\ MaxMessages \in Nat

VARIABLES
  \* The simulation thread and what it shares.
  sim,           \* where SimulationThread.run is
  lock,          \* owner of lock: "sim" or "free"; see ViewUpdate
  go, quit,      \* the event and the flag
  target,        \* target_time
  now,           \* Simulator::Now
  pauseMessages, \* pause_messages
  runs, raised,  \* runs made, pause messages raised so far
  \* The main thread.
  mode,          \* what it does: see Modes
  frames,        \* redraws waiting for the lock, the innermost last
  taken,         \* the local pause_messages of the innermost redraw
  shownMessages, \* messages shown in a dialog
  shown,         \* simulated time of the last redraw
  play,          \* play_button.get_active()
  period,        \* sample_period
  timers,        \* live timer sources
  timeoutId,     \* _update_timeout_id, or None
  nextId,        \* the id of the next source
  idle,          \* update_model sources waiting
  updates,       \* updates of the model made
  queries,
  mainQuit,      \* Gtk.main_quit was called
  pausedAt       \* simulated time when play was last released

simVars   == <<sim, lock, now, runs, raised>>
timerVars == <<timers, timeoutId, nextId>>
loopVars  == <<mode, frames, mainQuit>>
userVars  == <<play, period, queries, pausedAt>>
drawn     == <<taken, shownMessages, shown, updates>>
vars == <<simVars, go, quit, target, pauseMessages, idle, timerVars, loopVars,
          userVars, drawn>>

None  == 0
Modes == {"loop", "try", "after", "model", "query", "go", "join", "exit"}

-----------------------------------------------------------------------------
\* Visualizer.__init__ starts a timer (through _speed_changed) and the button
\* is not pressed.
Init ==
  /\ sim = "loop" /\ lock = "free" /\ go = FALSE /\ quit = FALSE
  /\ target = 0 /\ now = 0 /\ pauseMessages = {}
  /\ runs = 0 /\ raised = 0
  /\ mode = "loop" /\ frames = <<>> /\ taken = {} /\ shownMessages = {}
  /\ shown = 0 /\ play = FALSE /\ period = 1
  /\ timers = {1} /\ timeoutId = 1 /\ nextId = 2
  /\ idle = 0 /\ updates = 0 /\ queries = 0
  /\ mainQuit = FALSE /\ pausedAt = 0

-----------------------------------------------------------------------------
\* SimulationThread.run.

mainVars == <<target, timerVars, loopVars, userVars, drawn, quit>>

SimLoop == /\ sim = "loop"
           /\ sim' = IF quit THEN "gone" ELSE "wait"
           /\ UNCHANGED <<lock, now, runs, raised, go, pauseMessages, idle,
                          mainVars>>

SimWait == /\ sim = "wait" /\ go
           /\ sim' = "clear"
           /\ UNCHANGED <<lock, now, runs, raised, go, pauseMessages, idle,
                          mainVars>>

SimClear == /\ sim = "clear"
            /\ go' = FALSE
            /\ sim' = "check"
            /\ UNCHANGED <<lock, now, runs, raised, pauseMessages, idle,
                           mainVars>>

SimCheckQuit == /\ sim = "check"
                /\ sim' = IF quit THEN "gone" ELSE "lock"
                /\ UNCHANGED <<lock, now, runs, raised, go, pauseMessages,
                               idle, mainVars>>

SimLock == /\ sim = "lock" /\ lock = "free"
           /\ lock' = "sim" /\ sim' = "run"
           /\ UNCHANGED <<now, runs, raised, go, pauseMessages, idle, mainVars>>

\* SimulatorRunUntil returns at once when the target has been reached.
SimTime == IF now < target THEN target ELSE now

\* Faulty forms of the definition below, which the properties must refute.
SimRunCoalesced ==
  /\ sim = "run"
  /\ now' = SimTime
  /\ runs' = runs + 1
  /\ UNCHANGED <<raised, pauseMessages>>
  /\ idle' = 1
  /\ sim' = "release"
  /\ UNCHANGED <<lock, go, mainVars>>

\* The run, which first forgets the samples of the one before, the messages it
\* raised and the request for update_model.
SimRun == /\ sim = "run"
          /\ now' = SimTime
          /\ runs' = runs + 1
          /\ \/ UNCHANGED <<raised, pauseMessages>>
             \/ /\ now < target /\ raised < MaxMessages
                /\ raised' = raised + 1
                /\ pauseMessages' = pauseMessages \cup {raised'}
          /\ idle' = idle + 1
          /\ sim' = "release"
          /\ UNCHANGED <<lock, go, mainVars>>

SimRelease == /\ sim = "release"
              /\ lock' = "free" /\ sim' = "loop"
              /\ UNCHANGED <<now, runs, raised, go, pauseMessages, idle,
                             mainVars>>

SimStep == \/ SimLoop \/ SimWait \/ SimClear \/ SimCheckQuit \/ SimLock \/ SimRun
           \/ SimRelease
-----------------------------------------------------------------------------
\* The GTK loop, outermost or inside a redraw.  The priority of update_model is
\* above that of events and of the timers: those are dispatched when no
\* update_model waits.
InLoop     == mode = "loop" /\ (frames = <<>> => ~mainQuit)
CanHandle  == InLoop /\ idle = 0
\* _quit handles "delete-event", whose default handler then destroys the window.
UserActs   == CanHandle /\ ~quit

\* The loop inside a redraw ends when no event is pending.
PumpDone == /\ mode = "loop" /\ frames # <<>> /\ idle = 0
            /\ mode' = "try"
            /\ UNCHANGED <<simVars, go, quit, target, pauseMessages, idle, timerVars,
                           frames, mainQuit, userVars, drawn>>

\* Gtk.main returns.
MainReturns == /\ mode = "loop" /\ frames = <<>> /\ mainQuit
               /\ mode' = "exit"
               /\ UNCHANGED <<simVars, go, quit, target, pauseMessages, idle, timerVars,
                              frames, mainQuit, userVars, drawn>>

\* update_model, up to the lock, and under it.
ModelBegin == /\ InLoop /\ idle > 0
              /\ idle' = idle - 1
              /\ mode' = "model"
              /\ UNCHANGED <<simVars, go, quit, target, pauseMessages, timerVars,
                             frames, mainQuit, userVars, drawn>>

ModelUpdate == /\ mode = "model" /\ lock = "free"
               /\ updates' = updates + 1
               /\ mode' = "loop"
               /\ UNCHANGED <<simVars, go, quit, target, pauseMessages, idle, timerVars,
                              frames, mainQuit, userVars, taken, shownMessages, shown>>

\* A handler that reads or moves a node under the lock: tooltip_query,
\* node_drag_motion, set_nodes_of_interest and their like.
QueryBegin == /\ UserActs /\ queries < MaxQueries
              /\ queries' = queries + 1
              /\ mode' = "query"
              /\ UNCHANGED <<simVars, go, quit, target, pauseMessages, idle, timerVars,
                             frames, mainQuit, play, period, pausedAt, drawn>>

Query == /\ mode = "query" /\ lock = "free"
         /\ mode' = "loop"
         /\ UNCHANGED <<simVars, go, quit, target, pauseMessages, idle, timerVars,
                        frames, mainQuit, userVars, drawn>>
-----------------------------------------------------------------------------
\* update_view_timeout.

TimerFires == /\ CanHandle /\ now < MaxTime
              /\ \E i \in timers :
                   /\ \A k \in DOMAIN frames : frames[k] # i
                   /\ frames' = Append(frames, i)
              /\ mode' = "try"
              /\ UNCHANGED <<simVars, go, quit, target, pauseMessages, idle, timerVars,
                             mainQuit, userVars, drawn>>

\* lock.acquire(False) fails: the GTK loop runs inside the redraw.
LockBusy == /\ mode = "try" /\ lock = "sim"
            /\ mode' = "loop"
            /\ UNCHANGED <<simVars, go, quit, target, pauseMessages, idle, timerVars,
                           frames, mainQuit, userVars, drawn>>

\* Faulty forms of the definition below, which the properties must refute.
TargetFromTarget(t) == target + period

\* The time the simulation may run to next, when the view shows time t.
NextTarget(t) == t + period

\* Faulty forms of the definition below, which the properties must refute.
ViewUpdateKeepsMessages ==
  /\ mode = "try" /\ lock = "free"
  /\ taken' = pauseMessages
  /\ shown' = now
  /\ target' = NextTarget(now)
  /\ mode' = "after"
  /\ UNCHANGED <<simVars, go, quit, pauseMessages, idle, timerVars, frames, mainQuit,
                 userVars, shownMessages, updates>>

\* lock.acquire(False) succeeds.  The simulation thread can do nothing that
\* this section sees or changes until the lock is released, so that it is one
\* step.  That update_view raises an exception is left out: then only the lock is
\* given back (finally), the messages taken are lost and the timer ends.
ViewUpdate == /\ mode = "try" /\ lock = "free"
              /\ taken' = pauseMessages
              /\ pauseMessages' = {}
              /\ shown' = now
              /\ target' = NextTarget(now)
              /\ mode' = "after"
              /\ UNCHANGED <<simVars, go, quit, idle, timerVars, frames, mainQuit,
                             userVars, shownMessages, updates>>

Top == frames[Len(frames)]

\* Faulty forms of the definition below, which the properties must refute.
ViewEndGoesOn ==
  /\ mode = "after"
  /\ shownMessages' = shownMessages \cup taken
  /\ taken' = {}
  /\ play' = (play /\ taken = {})
  /\ pausedAt' = IF play /\ ~play' THEN now ELSE pausedAt
  /\ go' = TRUE /\ UNCHANGED timerVars
  /\ frames' = SubSeq(frames, 1, Len(frames) - 1)
  /\ mode' = "loop"
  /\ UNCHANGED <<simVars, quit, target, pauseMessages, idle, mainQuit, period, queries,
                 shown, updates>>
ViewEndWithoutGo ==
  /\ mode = "after"
  /\ shownMessages' = shownMessages \cup taken
  /\ taken' = {}
  /\ play' = (play /\ taken = {})
  /\ pausedAt' = IF play /\ ~play' THEN now ELSE pausedAt
  /\ IF play' THEN UNCHANGED timerVars
     ELSE /\ timers' = timers \ {Top, IF play THEN timeoutId ELSE Top}
          /\ timeoutId' = None
          /\ UNCHANGED nextId
  /\ UNCHANGED go
  /\ frames' = SubSeq(frames, 1, Len(frames) - 1)
  /\ mode' = "loop"
  /\ UNCHANGED <<simVars, quit, target, pauseMessages, idle, mainQuit, period, queries,
                 shown, updates>>

\* After the lock: a message pauses; a paused redraw ends its timer; otherwise
\* the simulation is sent on.
ViewEnd ==
  /\ mode = "after"
  /\ shownMessages' = shownMessages \cup taken
  /\ taken' = {}
  /\ play' = (play /\ taken = {})
  /\ pausedAt' = IF play /\ ~play' THEN now ELSE pausedAt
  /\ IF play'
     THEN go' = TRUE /\ UNCHANGED timerVars
     ELSE /\ timers' = timers \ {Top, IF play THEN timeoutId ELSE Top}
          /\ timeoutId' = None
          /\ UNCHANGED <<go, nextId>>
  /\ frames' = SubSeq(frames, 1, Len(frames) - 1)
  /\ mode' = "loop"
  /\ UNCHANGED <<simVars, quit, target, pauseMessages, idle, mainQuit, period, queries,
                 shown, updates>>
-----------------------------------------------------------------------------
\* The buttons.

\* _start_update_timer; removing a source that is gone does nothing.
StartTimer == /\ nextId <= MaxTimers
              /\ timers' = (timers \ {timeoutId}) \cup {nextId}
              /\ timeoutId' = nextId
              /\ nextId' = nextId + 1

\* Faulty forms of the definition below, which the properties must refute.
ToggleTrustsTheId ==
  /\ UserActs
  /\ play' = ~play
  /\ IF play'
     THEN /\ UNCHANGED pausedAt
          /\ IF timeoutId = None THEN StartTimer ELSE UNCHANGED timerVars
     ELSE /\ timers' = timers \ {timeoutId}
          /\ pausedAt' = now
          /\ UNCHANGED <<timeoutId, nextId>>
  /\ UNCHANGED <<simVars, go, quit, target, pauseMessages, idle, loopVars,
                 period, queries, drawn>>

\* _on_play_button_toggled: the id of the removed timer is kept.
Toggle == /\ UserActs
          /\ play' = ~play
          /\ IF play' THEN StartTimer /\ UNCHANGED pausedAt
             ELSE /\ timers' = timers \ {timeoutId}
                  /\ pausedAt' = now
                  /\ UNCHANGED <<timeoutId, nextId>>
          /\ UNCHANGED <<simVars, go, quit, target, pauseMessages, idle, loopVars,
                         period, queries, drawn>>

\* _speed_changed
SpeedChange == /\ UserActs
               /\ \E p \in Periods \ {period} : period' = p
               /\ StartTimer
               /\ UNCHANGED <<simVars, go, quit, target, pauseMessages, idle, loopVars,
                              play, queries, pausedAt, drawn>>

\* _quit sets the flag, then the event, and joins the thread.
QuitFlag == /\ UserActs
            /\ timers' = timers \ {timeoutId}
            /\ timeoutId' = None
            /\ quit' = TRUE
            /\ mode' = "go"
            /\ UNCHANGED <<simVars, go, target, pauseMessages, idle, nextId, frames,
                           mainQuit, userVars, drawn>>

\* Faulty forms of the definition below, which the properties must refute.
QuitWithoutGo ==
  /\ mode = "go"
  /\ mode' = "join"
  /\ UNCHANGED <<simVars, go, quit, target, pauseMessages, idle, timerVars, frames,
                 mainQuit, userVars, drawn>>

QuitGo == /\ mode = "go"
          /\ go' = TRUE
          /\ mode' = "join"
          /\ UNCHANGED <<simVars, quit, target, pauseMessages, idle, timerVars, frames,
                         mainQuit, userVars, drawn>>

\* Faulty forms of the definition below, which the properties must refute.
QuitWithoutJoin ==
  /\ mode = "join"
  /\ mainQuit' = TRUE
  /\ mode' = "loop"
  /\ UNCHANGED <<simVars, go, quit, target, pauseMessages, idle, timerVars,
                 frames, userVars, drawn>>

QuitJoin == /\ mode = "join" /\ sim = "gone"
            /\ mainQuit' = TRUE
            /\ mode' = "loop"
            /\ UNCHANGED <<simVars, go, quit, target, pauseMessages, idle, timerVars,
                           frames, userVars, drawn>>
-----------------------------------------------------------------------------
UserStep == QueryBegin \/ Toggle \/ SpeedChange \/ QuitFlag
MainStep == \/ PumpDone \/ MainReturns \/ ModelBegin \/ ModelUpdate \/ Query
            \/ LockBusy \/ ViewUpdate \/ ViewEnd \/ QuitGo \/ QuitJoin

Next == SimStep \/ MainStep \/ TimerFires \/ UserStep

\* Both threads run, a run of one period ends, and a timer fires in the end.
Fairness == WF_vars(SimStep) /\ WF_vars(MainStep) /\ WF_vars(TimerFires)

Spec == Init /\ [][Next]_vars /\ Fairness
-----------------------------------------------------------------------------
MaxPeriod == CHOOSE p \in Periods : \A q \in Periods : q <= p

\* Every variable has its type, and Gtk.main_quit is called only after the
\* simulation thread was joined.
TypeOK ==
  /\ sim \in {"loop", "wait", "clear", "check", "lock", "run", "release", "gone"}
  /\ lock \in {"free", "sim"} /\ go \in BOOLEAN /\ quit \in BOOLEAN
  /\ target \in Nat /\ now \in Nat /\ shown \in Nat /\ pausedAt \in Nat
  /\ runs \in Nat /\ raised \in 0 .. MaxMessages
  /\ pauseMessages \subseteq 1 .. raised /\ taken \subseteq 1 .. raised
  /\ shownMessages \subseteq 1 .. raised
  /\ mode \in Modes /\ frames \in Seq(1 .. MaxTimers)
  /\ play \in BOOLEAN /\ period \in Periods
  /\ timers \subseteq 1 .. MaxTimers /\ timeoutId \in 0 .. MaxTimers
  /\ nextId \in 1 .. MaxTimers + 1
  /\ idle \in Nat /\ updates \in Nat /\ queries \in 0 .. MaxQueries
  /\ mainQuit \in BOOLEAN /\ (mainQuit => sim = "gone")

\* The simulation never runs past the time the last redraw granted, and the
\* grant is counted from what that redraw showed: the view is never more than
\* one sample period behind, whatever redraws were nested or skipped.
ViewNeverLags == now <= target /\ target - shown \in Periods \cup {0}

\* After play is released the simulation goes on for at most two sample periods:
\* the one it was granted, and one more when a redraw overtook it, so that a
\* second go signal is outstanding, and a last redraw moves the target.
PauseStopsSoon == ~play => now <= pausedAt + 2 * MaxPeriod

\* A message the simulation raised waits in pause_messages, is in the hands of
\* one redraw or was shown: none is lost or shown twice.
MessagesAccounted ==
  /\ pauseMessages \cup taken \cup shownMessages = 1 .. raised
  /\ pauseMessages \cap taken = {} /\ taken \cap shownMessages = {}
  /\ pauseMessages \cap shownMessages = {}

\* Each run is followed by one update of the model, which may still be waiting.
OneModelUpdatePerRun ==
  runs = updates + idle + (IF mode = "model" THEN 1 ELSE 0)

\* While playing, the timer the window remembers is alive, so that the view
\* goes on and releasing play stops it.
PlayingHasItsTimer == play /\ ~quit => timeoutId \in timers

\* The comment in update_view_timeout: "if we're paused, stop the update
\* timer".
PausedStopsTheTimer == [][ViewEnd /\ ~play' => timers' = {}]_vars

\* The comment on the signal update_model emits: "signal emitted after every
\* simulation period": no run starts while the update of the last one waits,
\* because the run forgets the samples.
UpdateBeforeNextRun == [][SimRun => idle = 0 /\ mode # "model"]_vars

\* A quit ends the simulation thread and then the GTK loop, wherever the two
\* threads are when it comes.
QuitEnds == quit ~> mode = "exit"

\* While play is pressed the simulated time advances.
PlayAdvances == \A t \in 0 .. MaxTime - 1 :
                  play /\ now = t ~> now > t \/ ~play \/ quit
=============================================================================
