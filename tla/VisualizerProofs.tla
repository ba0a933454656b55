-------------------------- MODULE VisualizerProofs --------------------------
(***************************************************************************)
(* The safety of the live visualizer, for every set of sample periods with *)
(* a largest one and every bound: types, the view that never lags, the     *)
(* messages, the updates of the model, the timer of a playing window, and  *)
(* how far the simulation runs on after a pause.                           *)
(*                                                                         *)
(* Each proof of an inductive step goes through the actions in the order   *)
(* of Next: the simulation thread, the main thread, a timer, the user.     *)
(***************************************************************************)
EXTENDS Visualizer, SequenceTheorems, TLAPS

USE DEF vars, simVars, timerVars, loopVars, userVars, drawn, mainVars

-----------------------------------------------------------------------------
\* The sequence of redraws stays one when a redraw is pushed or popped.
LEMMA FramesType ==
  ASSUME NEW S, NEW s \in Seq(S)
  PROVE  /\ \A i \in S : Append(s, i) \in Seq(S)
         /\ SubSeq(s, 1, Len(s) - 1) \in Seq(S)
<1>1. \A i \in S : Append(s, i) \in Seq(S)
  OBVIOUS
<1>2. \A k \in 1 .. Len(s) - 1 : s[k] \in S
  OBVIOUS
<1>3. SubSeq(s, 1, Len(s) - 1) \in Seq(S)
  BY <1>2, SubSeqProperties, LenProperties
<1> QED BY <1>1, <1>3

LEMMA TypeOKInit == ASSUME Init PROVE TypeOK
<1>1. 1 \in 1 .. MaxTimers /\ 1 \in Periods /\ 0 \in 0 .. MaxMessages
      /\ 0 \in 0 .. MaxQueries
  BY VisualizerAssumption
<1>2. <<>> \in Seq(1 .. MaxTimers) /\ {1} \subseteq 1 .. MaxTimers
      /\ 1 \in 0 .. MaxTimers /\ 2 \in 1 .. MaxTimers + 1
  BY VisualizerAssumption
<1>3. \A n \in Nat : {} \subseteq 1 .. n
  OBVIOUS
<1> QED BY <1>1, <1>2, <1>3 DEF Init, TypeOK, Modes

LEMMA TypeOKStep ==
  ASSUME TypeOK, [Next]_vars
  PROVE  TypeOK'
<1> USE VisualizerAssumption
<1>1. CASE SimLoop
  BY <1>1 DEF SimLoop, TypeOK, Modes
<1>2. CASE SimWait
  BY <1>2 DEF SimWait, TypeOK, Modes
<1>3. CASE SimClear
  BY <1>3 DEF SimClear, TypeOK, Modes
<1>4. CASE SimCheckQuit
  BY <1>4 DEF SimCheckQuit, TypeOK, Modes
<1>5. CASE SimLock
  BY <1>5 DEF SimLock, TypeOK, Modes
<1>6. CASE SimRun
  <2>1. now' \in Nat /\ runs' \in Nat /\ idle' \in Nat
    BY <1>6 DEF SimRun, SimTime, TypeOK
  <2>2. /\ raised' \in 0 .. MaxMessages
        /\ pauseMessages' \subseteq 1 .. raised' /\ 1 .. raised \subseteq 1 .. raised'
    <3>1. CASE raised' = raised /\ pauseMessages' = pauseMessages
      BY <3>1 DEF TypeOK
    <3>2. CASE /\ raised < MaxMessages /\ raised' = raised + 1
               /\ pauseMessages' = pauseMessages \cup {raised'}
      <4>1. raised' \in 0 .. MaxMessages /\ 1 .. raised \subseteq 1 .. raised'
            /\ raised' \in 1 .. raised'
        BY <3>2 DEF TypeOK
      <4> QED BY <3>2, <4>1 DEF TypeOK
    <3> QED BY <1>6, <3>1, <3>2 DEF SimRun
  <2>3. taken' \subseteq 1 .. raised' /\ shownMessages' \subseteq 1 .. raised'
    BY <1>6, <2>2 DEF SimRun, TypeOK
  <2> QED BY <1>6, <2>1, <2>2, <2>3 DEF SimRun, TypeOK
<1>7. CASE SimRelease
  BY <1>7 DEF SimRelease, TypeOK, Modes
<1>8. CASE PumpDone
  BY <1>8 DEF PumpDone, TypeOK, Modes
<1>9. CASE MainReturns
  BY <1>9 DEF MainReturns, TypeOK, Modes
<1>10. CASE ModelBegin
  BY <1>10 DEF ModelBegin, InLoop, TypeOK, Modes
<1>11. CASE ModelUpdate
  BY <1>11 DEF ModelUpdate, TypeOK, Modes
<1>12. CASE Query
  BY <1>12 DEF Query, TypeOK, Modes
<1>13. CASE LockBusy
  BY <1>13 DEF LockBusy, TypeOK, Modes
<1>14. CASE ViewUpdate
  BY <1>14 DEF ViewUpdate, NextTarget, TypeOK, Modes
<1>15. CASE ViewEnd
  <2>1. frames' \in Seq(1 .. MaxTimers)
    BY <1>15, FramesType DEF ViewEnd, TypeOK
  <2>2. timers' \subseteq 1 .. MaxTimers /\ timeoutId' \in 0 .. MaxTimers
        /\ nextId' = nextId /\ go' \in BOOLEAN
    <3>1. CASE play'
      BY <1>15, <3>1 DEF ViewEnd, TypeOK
    <3>2. CASE ~play'
      <4>1. go' = go /\ nextId' = nextId /\ timeoutId' = 0 /\ timers' \subseteq timers
        BY <1>15, <3>2 DEF ViewEnd, None
      <4> QED BY <4>1 DEF TypeOK
    <3> QED BY <3>1, <3>2
  <2>3. play' \in BOOLEAN /\ pausedAt' \in Nat
    BY <1>15 DEF ViewEnd, TypeOK
  <2>4. taken' = {} /\ shownMessages' \subseteq 1 .. raised' /\ mode' \in Modes
    BY <1>15 DEF ViewEnd, TypeOK, Modes
  <2> QED BY <1>15, <2>1, <2>2, <2>3, <2>4 DEF ViewEnd, TypeOK
<1>16. CASE QuitGo
  BY <1>16 DEF QuitGo, TypeOK, Modes
<1>17. CASE QuitJoin
  BY <1>17 DEF QuitJoin, TypeOK, Modes
<1>18. CASE TimerFires
  <2>1. frames' \in Seq(1 .. MaxTimers)
    BY <1>18, FramesType DEF TimerFires, TypeOK
  <2> QED BY <1>18, <2>1 DEF TimerFires, CanHandle, InLoop, TypeOK, Modes
<1>19. CASE QueryBegin
  BY <1>19 DEF QueryBegin, UserActs, CanHandle, InLoop, TypeOK, Modes
<1>20. CASE Toggle
  <2>1. /\ timers' \subseteq 1 .. MaxTimers /\ timeoutId' \in 0 .. MaxTimers
        /\ nextId' \in 1 .. MaxTimers + 1
    <3>1. CASE play'
      <4>1. /\ nextId \in 1 .. MaxTimers /\ nextId' = nextId + 1
            /\ timeoutId' = nextId /\ timers' \subseteq timers \cup {nextId}
        BY <1>20, <3>1 DEF Toggle, StartTimer, TypeOK
      <4> QED BY <4>1 DEF TypeOK
    <3>2. CASE ~play'
      BY <1>20, <3>2 DEF Toggle, TypeOK
    <3> QED BY <3>1, <3>2
  <2> QED BY <1>20, <2>1 DEF Toggle, TypeOK
<1>21. CASE SpeedChange
  <2>1. /\ timers' \subseteq 1 .. MaxTimers /\ timeoutId' \in 0 .. MaxTimers
        /\ nextId' \in 1 .. MaxTimers + 1
    BY <1>21 DEF SpeedChange, StartTimer, TypeOK
  <2> QED BY <1>21, <2>1 DEF SpeedChange, TypeOK
<1>22. CASE QuitFlag
  BY <1>22 DEF QuitFlag, TypeOK, Modes, None
<1>23. CASE UNCHANGED vars
  BY <1>23 DEF TypeOK, Modes
<1> QED
  BY <1>1, <1>2, <1>3, <1>4, <1>5, <1>6, <1>7, <1>8, <1>9, <1>10, <1>11,
     <1>12, <1>13, <1>14, <1>15, <1>16, <1>17, <1>18, <1>19, <1>20, <1>21,
     <1>22, <1>23 DEF Next, SimStep, MainStep, UserStep

\* The variables of both threads have their types, and Gtk.main_quit is called
\* only when the simulation thread was joined, wherever a quit comes from.
THEOREM TypeCorrect == Spec => []TypeOK
<1>1. Init => TypeOK
  BY TypeOKInit
<1>2. TypeOK /\ [Next]_vars => TypeOK'
  BY TypeOKStep
<1> QED BY <1>1, <1>2, PTL DEF Spec
-----------------------------------------------------------------------------
LEMMA ViewNeverLagsStep ==
  ASSUME TypeOK, ViewNeverLags, [Next]_vars
  PROVE  ViewNeverLags'
<1> USE VisualizerAssumption
<1>1. CASE SimLoop
  BY <1>1 DEF SimLoop, TypeOK, ViewNeverLags
<1>2. CASE SimWait
  BY <1>2 DEF SimWait, TypeOK, ViewNeverLags
<1>3. CASE SimClear
  BY <1>3 DEF SimClear, TypeOK, ViewNeverLags
<1>4. CASE SimCheckQuit
  BY <1>4 DEF SimCheckQuit, TypeOK, ViewNeverLags
<1>5. CASE SimLock
  BY <1>5 DEF SimLock, TypeOK, ViewNeverLags
<1>6. CASE SimRun
  BY <1>6 DEF SimRun, SimTime, TypeOK, ViewNeverLags
<1>7. CASE SimRelease
  BY <1>7 DEF SimRelease, TypeOK, ViewNeverLags
<1>8. CASE PumpDone
  BY <1>8 DEF PumpDone, TypeOK, ViewNeverLags
<1>9. CASE MainReturns
  BY <1>9 DEF MainReturns, TypeOK, ViewNeverLags
<1>10. CASE ModelBegin
  BY <1>10 DEF ModelBegin, InLoop, TypeOK, ViewNeverLags
<1>11. CASE ModelUpdate
  BY <1>11 DEF ModelUpdate, TypeOK, ViewNeverLags
<1>12. CASE Query
  BY <1>12 DEF Query, TypeOK, ViewNeverLags
<1>13. CASE LockBusy
  BY <1>13 DEF LockBusy, TypeOK, ViewNeverLags
<1>14. CASE ViewUpdate
  BY <1>14 DEF ViewUpdate, NextTarget, TypeOK, ViewNeverLags
<1>15. CASE ViewEnd
  BY <1>15 DEF ViewEnd, Top, TypeOK, ViewNeverLags
<1>16. CASE QuitGo
  BY <1>16 DEF QuitGo, TypeOK, ViewNeverLags
<1>17. CASE QuitJoin
  BY <1>17 DEF QuitJoin, TypeOK, ViewNeverLags
<1>18. CASE TimerFires
  BY <1>18 DEF TimerFires, CanHandle, InLoop, TypeOK, ViewNeverLags
<1>19. CASE QueryBegin
  BY <1>19 DEF QueryBegin, UserActs, CanHandle, InLoop, TypeOK, ViewNeverLags
<1>20. CASE Toggle
  BY <1>20 DEF Toggle, UserActs, CanHandle, InLoop, StartTimer, TypeOK, ViewNeverLags
<1>21. CASE SpeedChange
  BY <1>21 DEF SpeedChange, UserActs, CanHandle, InLoop, StartTimer, TypeOK, ViewNeverLags
<1>22. CASE QuitFlag
  BY <1>22 DEF QuitFlag, UserActs, CanHandle, InLoop, TypeOK, ViewNeverLags
<1>23. CASE UNCHANGED vars
  BY <1>23 DEF TypeOK, ViewNeverLags
<1> QED
  BY <1>1, <1>2, <1>3, <1>4, <1>5, <1>6, <1>7, <1>8, <1>9, <1>10, <1>11,
     <1>12, <1>13, <1>14, <1>15, <1>16, <1>17, <1>18, <1>19, <1>20, <1>21,
     <1>22, <1>23 DEF Next, SimStep, MainStep, UserStep

\* The simulation never passes the time the last redraw granted, and the grant
\* is one sample period from what that redraw showed, whichever redraw it was
\* (update_view_timeout, SimulatorRunUntil).
THEOREM ViewNeverLagsCorrect == Spec => []ViewNeverLags
<1>1. Init => ViewNeverLags
  BY VisualizerAssumption DEF Init, ViewNeverLags
<1>2. TypeOK /\ ViewNeverLags /\ [Next]_vars => ViewNeverLags'
  BY ViewNeverLagsStep
<1> QED BY <1>1, <1>2, TypeCorrect, PTL DEF Spec
-----------------------------------------------------------------------------
\* A redraw holds messages only between the lock and its end.
HeldAfterLock == mode # "after" => taken = {}

MessagesInv == MessagesAccounted /\ HeldAfterLock

LEMMA MessagesStep ==
  ASSUME TypeOK, MessagesInv, [Next]_vars
  PROVE  MessagesInv'
<1> USE VisualizerAssumption
<1>1. CASE SimLoop
  BY <1>1 DEF SimLoop, MessagesInv, MessagesAccounted, HeldAfterLock
<1>2. CASE SimWait
  BY <1>2 DEF SimWait, MessagesInv, MessagesAccounted, HeldAfterLock
<1>3. CASE SimClear
  BY <1>3 DEF SimClear, MessagesInv, MessagesAccounted, HeldAfterLock
<1>4. CASE SimCheckQuit
  BY <1>4 DEF SimCheckQuit, MessagesInv, MessagesAccounted, HeldAfterLock
<1>5. CASE SimLock
  BY <1>5 DEF SimLock, MessagesInv, MessagesAccounted, HeldAfterLock
<1>6. CASE SimRun
  <2>1. CASE UNCHANGED <<raised, pauseMessages>>
    BY <1>6, <2>1 DEF SimRun, MessagesInv, MessagesAccounted, HeldAfterLock
  <2>2. CASE raised' = raised + 1 /\ pauseMessages' = pauseMessages \cup {raised'}
    <3>1. raised \in Nat /\ taken' = taken /\ shownMessages' = shownMessages
          /\ mode' = mode
      BY <1>6 DEF SimRun, TypeOK
    <3>2. 1 .. raised' = (1 .. raised) \cup {raised'} /\ raised' \notin 1 .. raised
      BY <2>2, <3>1
    <3>3. raised' \notin taken /\ raised' \notin shownMessages
      BY <3>2 DEF TypeOK
    <3> QED BY <2>2, <3>1, <3>2, <3>3 DEF MessagesInv, MessagesAccounted, HeldAfterLock
  <2> QED BY <1>6, <2>1, <2>2 DEF SimRun
<1>7. CASE SimRelease
  BY <1>7 DEF SimRelease, MessagesInv, MessagesAccounted, HeldAfterLock
<1>8. CASE PumpDone
  BY <1>8 DEF PumpDone, MessagesInv, MessagesAccounted, HeldAfterLock
<1>9. CASE MainReturns
  BY <1>9 DEF MainReturns, MessagesInv, MessagesAccounted, HeldAfterLock
<1>10. CASE ModelBegin
  BY <1>10 DEF ModelBegin, InLoop, MessagesInv, MessagesAccounted, HeldAfterLock
<1>11. CASE ModelUpdate
  BY <1>11 DEF ModelUpdate, MessagesInv, MessagesAccounted, HeldAfterLock
<1>12. CASE Query
  BY <1>12 DEF Query, MessagesInv, MessagesAccounted, HeldAfterLock
<1>13. CASE LockBusy
  BY <1>13 DEF LockBusy, MessagesInv, MessagesAccounted, HeldAfterLock
<1>14. CASE ViewUpdate
  BY <1>14 DEF ViewUpdate, NextTarget, MessagesInv, MessagesAccounted, HeldAfterLock
<1>15. CASE ViewEnd
  BY <1>15 DEF ViewEnd, Top, MessagesInv, MessagesAccounted, HeldAfterLock
<1>16. CASE QuitGo
  BY <1>16 DEF QuitGo, MessagesInv, MessagesAccounted, HeldAfterLock
<1>17. CASE QuitJoin
  BY <1>17 DEF QuitJoin, MessagesInv, MessagesAccounted, HeldAfterLock
<1>18. CASE TimerFires
  BY <1>18 DEF TimerFires, CanHandle, InLoop, MessagesInv, MessagesAccounted, HeldAfterLock
<1>19. CASE QueryBegin
  BY <1>19 DEF QueryBegin, UserActs, CanHandle, InLoop, MessagesInv, MessagesAccounted, HeldAfterLock
<1>20. CASE Toggle
  BY <1>20 DEF Toggle, UserActs, CanHandle, InLoop, StartTimer, MessagesInv, MessagesAccounted, HeldAfterLock
<1>21. CASE SpeedChange
  BY <1>21 DEF SpeedChange, UserActs, CanHandle, InLoop, StartTimer, MessagesInv, MessagesAccounted, HeldAfterLock
<1>22. CASE QuitFlag
  BY <1>22 DEF QuitFlag, UserActs, CanHandle, InLoop, MessagesInv, MessagesAccounted, HeldAfterLock
<1>23. CASE UNCHANGED vars
  BY <1>23 DEF MessagesInv, MessagesAccounted, HeldAfterLock
<1> QED
  BY <1>1, <1>2, <1>3, <1>4, <1>5, <1>6, <1>7, <1>8, <1>9, <1>10, <1>11,
     <1>12, <1>13, <1>14, <1>15, <1>16, <1>17, <1>18, <1>19, <1>20, <1>21,
     <1>22, <1>23 DEF Next, SimStep, MainStep, UserStep

\* No message of the simulation is lost or shown twice, although one thread
\* extends pause_messages and the other swaps it out.
THEOREM MessagesAccountedCorrect == Spec => []MessagesAccounted
<1>1. Init => MessagesInv
  BY DEF Init, MessagesInv, MessagesAccounted, HeldAfterLock
<1>2. TypeOK /\ MessagesInv /\ [Next]_vars => MessagesInv'
  BY MessagesStep
<1>3. MessagesInv => MessagesAccounted
  BY DEF MessagesInv
<1> QED BY <1>1, <1>2, <1>3, TypeCorrect, PTL DEF Spec
-----------------------------------------------------------------------------
LEMMA OneModelUpdateStep ==
  ASSUME TypeOK, OneModelUpdatePerRun, [Next]_vars
  PROVE  OneModelUpdatePerRun'
<1>1. CASE SimLoop
  BY <1>1 DEF SimLoop, TypeOK, OneModelUpdatePerRun
<1>2. CASE SimWait
  BY <1>2 DEF SimWait, TypeOK, OneModelUpdatePerRun
<1>3. CASE SimClear
  BY <1>3 DEF SimClear, TypeOK, OneModelUpdatePerRun
<1>4. CASE SimCheckQuit
  BY <1>4 DEF SimCheckQuit, TypeOK, OneModelUpdatePerRun
<1>5. CASE SimLock
  BY <1>5 DEF SimLock, TypeOK, OneModelUpdatePerRun
<1>6. CASE SimRun
  BY <1>6 DEF SimRun, SimTime, TypeOK, OneModelUpdatePerRun
<1>7. CASE SimRelease
  BY <1>7 DEF SimRelease, TypeOK, OneModelUpdatePerRun
<1>8. CASE PumpDone
  BY <1>8 DEF PumpDone, TypeOK, OneModelUpdatePerRun
<1>9. CASE MainReturns
  BY <1>9 DEF MainReturns, TypeOK, OneModelUpdatePerRun
<1>10. CASE ModelBegin
  BY <1>10 DEF ModelBegin, InLoop, TypeOK, OneModelUpdatePerRun
<1>11. CASE ModelUpdate
  BY <1>11 DEF ModelUpdate, TypeOK, OneModelUpdatePerRun
<1>12. CASE Query
  BY <1>12 DEF Query, TypeOK, OneModelUpdatePerRun
<1>13. CASE LockBusy
  BY <1>13 DEF LockBusy, TypeOK, OneModelUpdatePerRun
<1>14. CASE ViewUpdate
  BY <1>14 DEF ViewUpdate, NextTarget, TypeOK, OneModelUpdatePerRun
<1>15. CASE ViewEnd
  BY <1>15 DEF ViewEnd, Top, TypeOK, OneModelUpdatePerRun
<1>16. CASE QuitGo
  BY <1>16 DEF QuitGo, TypeOK, OneModelUpdatePerRun
<1>17. CASE QuitJoin
  BY <1>17 DEF QuitJoin, TypeOK, OneModelUpdatePerRun
<1>18. CASE TimerFires
  BY <1>18 DEF TimerFires, CanHandle, InLoop, TypeOK, OneModelUpdatePerRun
<1>19. CASE QueryBegin
  BY <1>19 DEF QueryBegin, UserActs, CanHandle, InLoop, TypeOK, OneModelUpdatePerRun
<1>20. CASE Toggle
  BY <1>20 DEF Toggle, UserActs, CanHandle, InLoop, StartTimer, TypeOK, OneModelUpdatePerRun
<1>21. CASE SpeedChange
  BY <1>21 DEF SpeedChange, UserActs, CanHandle, InLoop, StartTimer, TypeOK, OneModelUpdatePerRun
<1>22. CASE QuitFlag
  BY <1>22 DEF QuitFlag, UserActs, CanHandle, InLoop, TypeOK, OneModelUpdatePerRun
<1>23. CASE UNCHANGED vars
  BY <1>23 DEF TypeOK, OneModelUpdatePerRun
<1> QED
  BY <1>1, <1>2, <1>3, <1>4, <1>5, <1>6, <1>7, <1>8, <1>9, <1>10, <1>11,
     <1>12, <1>13, <1>14, <1>15, <1>16, <1>17, <1>18, <1>19, <1>20, <1>21,
     <1>22, <1>23 DEF Next, SimStep, MainStep, UserStep

\* Every run is followed by exactly one update of the model, also when updates
\* wait behind one another or are made inside a redraw.
THEOREM OneModelUpdateCorrect == Spec => []OneModelUpdatePerRun
<1>1. Init => OneModelUpdatePerRun
  BY DEF Init, OneModelUpdatePerRun
<1>2. TypeOK /\ OneModelUpdatePerRun /\ [Next]_vars => OneModelUpdatePerRun'
  BY OneModelUpdateStep
<1> QED BY <1>1, <1>2, TypeCorrect, PTL DEF Spec
-----------------------------------------------------------------------------
LEMMA PlayingHasItsTimerStep ==
  ASSUME TypeOK, PlayingHasItsTimer, [Next]_vars
  PROVE  PlayingHasItsTimer'
<1>1. CASE SimLoop
  BY <1>1 DEF SimLoop, TypeOK, PlayingHasItsTimer
<1>2. CASE SimWait
  BY <1>2 DEF SimWait, TypeOK, PlayingHasItsTimer
<1>3. CASE SimClear
  BY <1>3 DEF SimClear, TypeOK, PlayingHasItsTimer
<1>4. CASE SimCheckQuit
  BY <1>4 DEF SimCheckQuit, TypeOK, PlayingHasItsTimer
<1>5. CASE SimLock
  BY <1>5 DEF SimLock, TypeOK, PlayingHasItsTimer
<1>6. CASE SimRun
  BY <1>6 DEF SimRun, SimTime, TypeOK, PlayingHasItsTimer
<1>7. CASE SimRelease
  BY <1>7 DEF SimRelease, TypeOK, PlayingHasItsTimer
<1>8. CASE PumpDone
  BY <1>8 DEF PumpDone, TypeOK, PlayingHasItsTimer
<1>9. CASE MainReturns
  BY <1>9 DEF MainReturns, TypeOK, PlayingHasItsTimer
<1>10. CASE ModelBegin
  BY <1>10 DEF ModelBegin, InLoop, TypeOK, PlayingHasItsTimer
<1>11. CASE ModelUpdate
  BY <1>11 DEF ModelUpdate, TypeOK, PlayingHasItsTimer
<1>12. CASE Query
  BY <1>12 DEF Query, TypeOK, PlayingHasItsTimer
<1>13. CASE LockBusy
  BY <1>13 DEF LockBusy, TypeOK, PlayingHasItsTimer
<1>14. CASE ViewUpdate
  BY <1>14 DEF ViewUpdate, NextTarget, TypeOK, PlayingHasItsTimer
<1>15. CASE ViewEnd
  BY <1>15 DEF ViewEnd, Top, TypeOK, PlayingHasItsTimer
<1>16. CASE QuitGo
  BY <1>16 DEF QuitGo, TypeOK, PlayingHasItsTimer
<1>17. CASE QuitJoin
  BY <1>17 DEF QuitJoin, TypeOK, PlayingHasItsTimer
<1>18. CASE TimerFires
  BY <1>18 DEF TimerFires, CanHandle, InLoop, TypeOK, PlayingHasItsTimer
<1>19. CASE QueryBegin
  BY <1>19 DEF QueryBegin, UserActs, CanHandle, InLoop, TypeOK, PlayingHasItsTimer
<1>20. CASE Toggle
  BY <1>20 DEF Toggle, UserActs, CanHandle, InLoop, StartTimer, TypeOK, PlayingHasItsTimer
<1>21. CASE SpeedChange
  BY <1>21 DEF SpeedChange, UserActs, CanHandle, InLoop, StartTimer, TypeOK, PlayingHasItsTimer
<1>22. CASE QuitFlag
  BY <1>22 DEF QuitFlag, UserActs, CanHandle, InLoop, TypeOK, PlayingHasItsTimer
<1>23. CASE UNCHANGED vars
  BY <1>23 DEF TypeOK, PlayingHasItsTimer
<1> QED
  BY <1>1, <1>2, <1>3, <1>4, <1>5, <1>6, <1>7, <1>8, <1>9, <1>10, <1>11,
     <1>12, <1>13, <1>14, <1>15, <1>16, <1>17, <1>18, <1>19, <1>20, <1>21,
     <1>22, <1>23 DEF Next, SimStep, MainStep, UserStep

\* While playing, the timer whose id the window keeps is alive, whatever
\* handlers ran inside which redraws.
THEOREM PlayingHasItsTimerCorrect == Spec => []PlayingHasItsTimer
<1>1. Init => PlayingHasItsTimer
  BY DEF Init, PlayingHasItsTimer
<1>2. TypeOK /\ PlayingHasItsTimer /\ [Next]_vars => PlayingHasItsTimer'
  BY PlayingHasItsTimerStep
<1> QED BY <1>1, <1>2, TypeCorrect, PTL DEF Spec
-----------------------------------------------------------------------------
\* The runs the simulation may still make if no signal is given any more: the
\* one it is about to make, and the one a signal it has not cleared stands for.
RunAhead   == IF sim \in {"lock", "run"} \/ (sim = "check" /\ ~quit) THEN 1 ELSE 0
SignalLeft == IF ~quit /\ (go \/ sim = "clear") THEN 1 ELSE 0
Credit     == RunAhead + SignalLeft

\* Paused, each of them advances the time by one period at most.
PausedCredit == ~play => now + Credit * MaxPeriod <= pausedAt + 2 * MaxPeriod

LEMMA MaxPeriodIsMax ==
  /\ MaxPeriod \in Periods /\ MaxPeriod \in Nat
  /\ \A p \in Periods : p <= MaxPeriod
BY VisualizerAssumption DEF MaxPeriod

\* The simulation is never more than a period before its target.
LEMMA TargetIsNear ==
  ASSUME TypeOK, ViewNeverLags, shown <= now
  PROVE  target <= now + MaxPeriod
BY MaxPeriodIsMax, VisualizerAssumption DEF TypeOK, ViewNeverLags

\* _quit sets the flag before the event.
QuitMode == mode \in {"go", "join"} => quit

PauseInv == PausedCredit /\ shown <= now /\ QuitMode

LEMMA PauseStep ==
  ASSUME TypeOK, ViewNeverLags, PauseInv, [Next]_vars
  PROVE  PauseInv'
<1> DEFINE P == MaxPeriod
<1>0. P \in Nat /\ target <= now + P /\ shown <= now
  BY MaxPeriodIsMax, TargetIsNear DEF PauseInv
<1> HIDE DEF P
<1>a. ASSUME now' = now, shown' = shown, pausedAt' = pausedAt, ~play' => ~play,
             Credit' <= Credit, QuitMode'
      PROVE  PauseInv'
  <2>1. Credit \in 0 .. 2 /\ Credit' \in 0 .. 2
    BY DEF Credit, RunAhead, SignalLeft
  <2>2. \A c, d \in 0 .. 2 : c <= d => c * P <= d * P /\ c * P \in Nat /\ d * P \in Nat
    BY <1>0
  <2>3. Credit' * P <= Credit * P /\ Credit' * P \in Nat /\ Credit * P \in Nat
    BY <1>a, <2>1, <2>2
  <2> QED BY <1>0, <1>a, <2>3 DEF PauseInv, PausedCredit, TypeOK, P
<1>b. Credit' * P <= 2 * P /\ Credit' * P \in Nat
  <2>1. Credit' \in 0 .. 2
    BY DEF Credit, RunAhead, SignalLeft
  <2>2. \A c \in 0 .. 2 : c * P <= 2 * P /\ c * P \in Nat
    BY <1>0
  <2> QED BY <2>1, <2>2
<1>1. CASE SimLoop
  BY <1>1, <1>a DEF SimLoop, TypeOK, PauseInv, QuitMode, Credit, RunAhead, SignalLeft
<1>2. CASE SimWait
  BY <1>2, <1>a DEF SimWait, TypeOK, PauseInv, QuitMode, Credit, RunAhead, SignalLeft
<1>3. CASE SimClear
  BY <1>3, <1>a DEF SimClear, TypeOK, PauseInv, QuitMode, Credit, RunAhead, SignalLeft
<1>4. CASE SimCheckQuit
  BY <1>4, <1>a DEF SimCheckQuit, TypeOK, PauseInv, QuitMode, Credit, RunAhead, SignalLeft
<1>5. CASE SimLock
  BY <1>5, <1>a DEF SimLock, TypeOK, PauseInv, QuitMode, Credit, RunAhead, SignalLeft
<1>6. CASE SimRun
  <2>1. now' <= now + P /\ shown' = shown /\ pausedAt' = pausedAt /\ play' = play
        /\ now' \in Nat /\ now <= now' /\ mode' = mode /\ quit' = quit
    BY <1>6, <1>0 DEF SimRun, SimTime, TypeOK
  <2>2. Credit \in 1 .. 2 /\ Credit' = Credit - 1
    BY <1>6 DEF SimRun, Credit, RunAhead, SignalLeft
  <2>3. Credit' * P + P = Credit * P
    BY <1>0, <2>2
  <2>4. Credit' * P \in Nat
    BY <1>0, <2>2
  <2> QED BY <1>0, <2>1, <2>3, <2>4 DEF PauseInv, QuitMode, PausedCredit, TypeOK, P
<1>7. CASE SimRelease
  BY <1>7, <1>a DEF SimRelease, TypeOK, PauseInv, QuitMode, Credit, RunAhead, SignalLeft
<1>8. CASE PumpDone
  BY <1>8, <1>a DEF PumpDone, TypeOK, PauseInv, QuitMode, Credit, RunAhead, SignalLeft
<1>9. CASE MainReturns
  BY <1>9, <1>a DEF MainReturns, TypeOK, PauseInv, QuitMode, Credit, RunAhead, SignalLeft
<1>10. CASE ModelBegin
  BY <1>10, <1>a DEF ModelBegin, InLoop, TypeOK, PauseInv, QuitMode, Credit, RunAhead, SignalLeft
<1>11. CASE ModelUpdate
  BY <1>11, <1>a DEF ModelUpdate, TypeOK, PauseInv, QuitMode, Credit, RunAhead, SignalLeft
<1>12. CASE Query
  BY <1>12, <1>a DEF Query, TypeOK, PauseInv, QuitMode, Credit, RunAhead, SignalLeft
<1>13. CASE LockBusy
  BY <1>13, <1>a DEF LockBusy, TypeOK, PauseInv, QuitMode, Credit, RunAhead, SignalLeft
<1>14. CASE ViewUpdate
  <2>1. now' = now /\ shown' = now /\ pausedAt' = pausedAt /\ play' = play
        /\ Credit' = Credit /\ mode' = "after"
    BY <1>14 DEF ViewUpdate, Credit, RunAhead, SignalLeft
  <2> QED BY <2>1 DEF PauseInv, QuitMode, PausedCredit, TypeOK
<1>15. CASE ViewEnd
  <2>1. CASE ~play' /\ play
    <3>1. now' = now /\ pausedAt' = now /\ shown' = shown /\ mode' = "loop"
      BY <1>15, <2>1 DEF ViewEnd
    <3> QED BY <1>0, <1>b, <3>1 DEF PauseInv, QuitMode, PausedCredit, TypeOK, P
  <2>2. CASE play'
    BY <1>15, <2>2 DEF ViewEnd, PauseInv, QuitMode, PausedCredit
  <2>3. CASE ~play
    <3>1. /\ now' = now /\ shown' = shown /\ pausedAt' = pausedAt /\ ~play'
          /\ go' = go /\ sim' = sim /\ quit' = quit /\ mode' = "loop"
      BY <1>15, <2>3 DEF ViewEnd, TypeOK
    <3> QED BY <1>a, <2>3, <3>1 DEF QuitMode, Credit, RunAhead, SignalLeft, TypeOK
  <2> QED BY <2>1, <2>2, <2>3
<1>16. CASE QuitGo
  BY <1>16, <1>a DEF QuitGo, TypeOK, PauseInv, QuitMode, Credit, RunAhead, SignalLeft
<1>17. CASE QuitJoin
  BY <1>17, <1>a DEF QuitJoin, TypeOK, PauseInv, QuitMode, Credit, RunAhead, SignalLeft
<1>18. CASE TimerFires
  BY <1>18, <1>a DEF TimerFires, CanHandle, InLoop, TypeOK, PauseInv, QuitMode, Credit, RunAhead, SignalLeft
<1>19. CASE QueryBegin
  BY <1>19, <1>a DEF QueryBegin, UserActs, CanHandle, InLoop, TypeOK, PauseInv, QuitMode, Credit, RunAhead, SignalLeft
<1>20. CASE Toggle
  <2>1. CASE play'
    BY <1>20, <2>1 DEF Toggle, UserActs, CanHandle, InLoop, PauseInv, QuitMode, PausedCredit
  <2>2. CASE ~play'
    <3>1. now' = now /\ pausedAt' = now /\ shown' = shown /\ mode' = mode /\ quit' = quit
      BY <1>20, <2>2 DEF Toggle
    <3> QED BY <1>0, <1>b, <3>1 DEF PauseInv, QuitMode, PausedCredit, TypeOK, P
  <2> QED BY <2>1, <2>2
<1>21. CASE SpeedChange
  BY <1>21, <1>a DEF SpeedChange, UserActs, CanHandle, InLoop, StartTimer, TypeOK, PauseInv, QuitMode, Credit, RunAhead, SignalLeft
<1>22. CASE QuitFlag
  BY <1>22, <1>a DEF QuitFlag, UserActs, CanHandle, InLoop, TypeOK, PauseInv, QuitMode, Credit, RunAhead, SignalLeft
<1>23. CASE UNCHANGED vars
  BY <1>23 DEF TypeOK, PauseInv, QuitMode, PausedCredit, Credit, RunAhead, SignalLeft
<1> QED
  BY <1>1, <1>2, <1>3, <1>4, <1>5, <1>6, <1>7, <1>8, <1>9, <1>10, <1>11,
     <1>12, <1>13, <1>14, <1>15, <1>16, <1>17, <1>18, <1>19, <1>20, <1>21,
     <1>22, <1>23 DEF Next, SimStep, MainStep, UserStep

\* After play is released the simulation goes on for at most two sample
\* periods, however the redraws, the signal and the runs fall: a message or the
\* button may release it in the middle of a redraw.
THEOREM PauseStopsSoonCorrect == Spec => []PauseStopsSoon
<1>1. Init => PauseInv
  <2>1. ASSUME Init
        PROVE  now = 0 /\ shown = 0 /\ pausedAt = 0 /\ Credit = 0 /\ mode = "loop"
    BY <2>1 DEF Init, Credit, RunAhead, SignalLeft
  <2> QED BY <2>1, MaxPeriodIsMax DEF PauseInv, PausedCredit, QuitMode
<1>2. TypeOK /\ ViewNeverLags /\ PauseInv /\ [Next]_vars => PauseInv'
  BY PauseStep
<1>3. TypeOK /\ PauseInv => PauseStopsSoon
  <2>1. Credit \in 0 .. 2
    BY DEF Credit, RunAhead, SignalLeft
  <2>2. Credit * MaxPeriod \in Nat
    BY <2>1, MaxPeriodIsMax
  <2> QED BY <2>2, MaxPeriodIsMax DEF TypeOK, PauseInv, PausedCredit, PauseStopsSoon
<1> QED BY <1>1, <1>2, <1>3, TypeCorrect, ViewNeverLagsCorrect, PTL DEF Spec
=============================================================================
