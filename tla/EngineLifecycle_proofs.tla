----------------------- MODULE EngineLifecycle_proofs -----------------------
(***************************************************************************)
(* Theorems about EngineLifecycle, for any arrangements of the buses and any *)
(* number of restarts asked for and commands.  Each part of LifecycleInv is  *)
(* kept by every step, one lemma for each; the actions that the same facts   *)
(* settle are taken together, as they are in Next.                          *)
(***************************************************************************)
EXTENDS EngineLifecycle, TLAPS

USE LayoutsAssumption, BoundsAssumption
USE DEF pairVars, layoutVars, staleVars, commandVars, countVars

(* TaskInv is kept: each step of the control thread has its transactions. *)
LEMMA TaskStep ==
  ASSUME TypeOK, TaskInv, PlanInv, DspInv, [Next]_vars
  PROVE  TaskInv'
<1> USE DEF TypeOK, TaskInv, PlanInv, DspInv, NextTask, Opened, OpenSteps, Restoring, Regenerating,
  Negotiating, Restarting, Closing, Tasks
<1>1. CASE Open
  BY <1>1 DEF Open, OpenComponent, OpenController, OpenHandler, OpenConnection, OpenBuses, OpenSetup,
    OpenActivateBuses, OpenPrepare, OpenRun, OpenFails, Goto, Recover
<1>2. CASE Close
  BY <1>2 DEF Close, CloseMode, CloseHooks, CloseTerminate, CloseRelease, CloseEditor, StopDsp, Goto
<1>3. CASE Loop
  BY <1>3 DEF Loop, PublishFirst, LeaveLoop, Turn, TakeRestart, Goto, OpenEditor, HideEditor, Dispatch
<1>4. CASE Coordinate
  BY <1>4 DEF Coordinate, Pause, PauseTimesOut, Reconcile, Refresh, Publish, Resume, ResumeTimesOut,
    StepFails, Goto, FirstStep, Recover, Dispatch
<1>5. CASE Restart
  BY <1>5 DEF Restart, StopPlugin, InspectIo, ConfirmIo, RebuildIo, StartPlugin, Goto
<1>6. CASE State
  BY <1>6 DEF State, Capture, RestoreSet, RestoreStart, RestoreRead, RestoreFails, Goto, Recover
<1>7. CASE Reload
  BY <1>7 DEF Reload, Absorb, Enumerate, FixedPoint, Goto, Recover
<1>8. CASE LateResume
  BY <1>8 DEF LateResume
<1>9. CASE WorkerEnds
  BY <1>9 DEF WorkerEnds
<1>10. CASE UserHides
  BY <1>10 DEF UserHides
<1>11. CASE ObsStops
  BY <1>11 DEF ObsStops
<1>12. CASE ObsCommands
  BY <1>12 DEF ObsCommands
<1>13. CASE RequestRestart
  BY <1>13 DEF RequestRestart
<1>14. CASE UNCHANGED vars
  BY <1>14 DEF vars
<1> QED BY <1>1, <1>2, <1>3, <1>4, <1>5, <1>6, <1>7, <1>8, <1>9, <1>10, <1>11, <1>12, <1>13,
  <1>14 DEF Next, Control, Environment

(* PlanInv is kept: a transaction is taken off the plan in the order of NextTask. *)
LEMMA PlanStep ==
  ASSUME TypeOK, TaskInv, PlanInv, [Next]_vars
  PROVE  PlanInv'
<1> USE DEF TypeOK, TaskInv, PlanInv, NextTask, Restarts, Aspects, Opened, OpenSteps, Restoring,
  Regenerating, Negotiating, Restarting, Closing, Tasks
<1>1. CASE Open
  BY <1>1 DEF Open, OpenComponent, OpenController, OpenHandler, OpenConnection, OpenBuses, OpenSetup,
    OpenActivateBuses, OpenPrepare, OpenRun, OpenFails, Goto, Recover
<1>2. CASE Close
  BY <1>2 DEF Close, CloseMode, CloseHooks, CloseTerminate, CloseRelease, CloseEditor, StopDsp, Goto
<1>3. CASE Loop
  BY <1>3 DEF Loop, PublishFirst, LeaveLoop, Turn, TakeRestart, Goto, OpenEditor, HideEditor, Dispatch
<1>4. CASE Coordinate
  BY <1>4 DEF Coordinate, Pause, PauseTimesOut, Reconcile, Refresh, Publish, Resume, ResumeTimesOut,
    StepFails, Goto, FirstStep, Recover, Dispatch
<1>5. CASE Restart
  BY <1>5 DEF Restart, StopPlugin, InspectIo, ConfirmIo, RebuildIo, StartPlugin, Goto
<1>6. CASE State
  BY <1>6 DEF State, Capture, RestoreSet, RestoreStart, RestoreRead, RestoreFails, Goto, Recover
<1>7. CASE Reload
  BY <1>7 DEF Reload, Absorb, Enumerate, FixedPoint, Goto, Recover
<1>8. CASE LateResume
  BY <1>8 DEF LateResume
<1>9. CASE WorkerEnds
  BY <1>9 DEF WorkerEnds
<1>10. CASE UserHides
  BY <1>10 DEF UserHides
<1>11. CASE ObsStops
  BY <1>11 DEF ObsStops
<1>12. CASE ObsCommands
  BY <1>12 DEF ObsCommands
<1>13. CASE RequestRestart
  BY <1>13 DEF RequestRestart
<1>14. CASE UNCHANGED vars
  BY <1>14 DEF vars
<1> QED BY <1>1, <1>2, <1>3, <1>4, <1>5, <1>6, <1>7, <1>8, <1>9, <1>10, <1>11, <1>12, <1>13,
  <1>14 DEF Next, Control, Environment

(* ObjectsInv is kept: open and close build and take down one object at a time. *)
LEMMA ObjectsStep ==
  ASSUME TypeOK, TaskInv, ObjectsInv, ModeInv, [Next]_vars
  PROVE  ObjectsInv'
<1> USE DEF TypeOK, TaskInv, ObjectsInv, Whole, Running, Played, ModeInv, Opened, OpenSteps, Restoring,
  Regenerating, Negotiating, Restarting, Closing, Tasks
<1>1. CASE OpenComponent
  BY <1>1 DEF OpenComponent, Goto
<1>2. CASE OpenController
  BY <1>2 DEF OpenController, Goto
<1>3. CASE OpenHandler
  BY <1>3 DEF OpenHandler, Goto
<1>4. CASE OpenConnection
  BY <1>4 DEF OpenConnection, Goto
<1>5. CASE OpenBuses
  BY <1>5 DEF OpenBuses, Goto
<1>6. CASE OpenSetup
  BY <1>6 DEF OpenSetup, Goto
<1>7. CASE OpenActivateBuses
  BY <1>7 DEF OpenActivateBuses, Goto
<1>8. CASE OpenPrepare
  BY <1>8 DEF OpenPrepare, Goto
<1>9. CASE OpenRun
  BY <1>9 DEF OpenRun, Goto
<1>10. CASE OpenFails
  BY <1>10 DEF OpenFails, Goto, Recover
<1>11. CASE CloseMode
  BY <1>11 DEF CloseMode, Goto
<1>12. CASE CloseHooks
  BY <1>12 DEF CloseHooks, Goto
<1>13. CASE CloseTerminate
  BY <1>13 DEF CloseTerminate, Goto
<1>14. CASE CloseRelease
  BY <1>14 DEF CloseRelease, Goto
<1>15. CASE CloseEditor
  BY <1>15 DEF CloseEditor, Goto
<1>16. CASE StopDsp
  BY <1>16 DEF StopDsp, Goto
<1>17. CASE PublishFirst
  BY <1>17 DEF PublishFirst, Goto
<1>18. CASE LeaveLoop
  BY <1>18 DEF LeaveLoop, Goto
<1>19. CASE Turn
  BY <1>19 DEF Turn, Goto, OpenEditor, HideEditor
<1>20. CASE TakeRestart
  BY <1>20 DEF TakeRestart, Goto, Dispatch, NextTask
<1>21. CASE Coordinate
  BY <1>21 DEF Coordinate, Pause, PauseTimesOut, Reconcile, Refresh, Publish, Resume, ResumeTimesOut,
    StepFails, Goto, FirstStep, Recover, Dispatch, NextTask
<1>22. CASE Restart
  BY <1>22 DEF Restart, StopPlugin, InspectIo, ConfirmIo, RebuildIo, StartPlugin, Goto
<1>23. CASE State
  BY <1>23 DEF State, Capture, RestoreSet, RestoreStart, RestoreRead, RestoreFails, Goto, Recover
<1>24. CASE Reload
  BY <1>24 DEF Reload, Absorb, Enumerate, FixedPoint, Goto, Recover
<1>25. CASE LateResume
  BY <1>25 DEF LateResume
<1>26. CASE WorkerEnds
  BY <1>26 DEF WorkerEnds
<1>27. CASE UserHides
  BY <1>27 DEF UserHides
<1>28. CASE ObsStops
  BY <1>28 DEF ObsStops
<1>29. CASE ObsCommands
  BY <1>29 DEF ObsCommands
<1>30. CASE RequestRestart
  BY <1>30 DEF RequestRestart
<1>31. CASE UNCHANGED vars
  BY <1>31 DEF vars
<1> QED BY <1>1, <1>2, <1>3, <1>4, <1>5, <1>6, <1>7, <1>8, <1>9, <1>10, <1>11, <1>12, <1>13, <1>14, <1>15,
  <1>16, <1>17, <1>18, <1>19, <1>20, <1>21, <1>22, <1>23, <1>24, <1>25, <1>26, <1>27, <1>28, <1>29, <1>30,
  <1>31 DEF Next, Open, Close, Loop, Control, Environment

(* ModeInv is kept: the plug-in stops and starts one mode at a time. *)
LEMMA ModeStep ==
  ASSUME TypeOK, TaskInv, ObjectsInv, ModeInv, DspInv, [Next]_vars
  PROVE  ModeInv'
<1> USE DEF TypeOK, TaskInv, ObjectsInv, Whole, Running, Played, ModeInv, DspInv, Opened, OpenSteps,
  Restoring, Regenerating, Negotiating, Restarting, Closing, Tasks
<1>1. CASE Open
  BY <1>1 DEF Open, OpenComponent, OpenController, OpenHandler, OpenConnection, OpenBuses, OpenSetup,
    OpenActivateBuses, OpenPrepare, OpenRun, OpenFails, Goto, Recover
<1>2. CASE Close
  BY <1>2 DEF Close, CloseMode, CloseHooks, CloseTerminate, CloseRelease, CloseEditor, StopDsp, Goto
<1>3. CASE Loop
  BY <1>3 DEF Loop, PublishFirst, LeaveLoop, Turn, TakeRestart, Goto, OpenEditor, HideEditor, Dispatch,
    NextTask
<1>4. CASE Coordinate
  BY <1>4 DEF Coordinate, Pause, PauseTimesOut, Reconcile, Refresh, Publish, Resume, ResumeTimesOut,
    StepFails, Goto, FirstStep, Recover, Dispatch, NextTask
<1>5. CASE Restart
  BY <1>5 DEF Restart, StopPlugin, InspectIo, ConfirmIo, RebuildIo, StartPlugin, Goto
<1>6. CASE State
  BY <1>6 DEF State, Capture, RestoreSet, RestoreStart, RestoreRead, RestoreFails, Goto, Recover
<1>7. CASE Reload
  BY <1>7 DEF Reload, Absorb, Enumerate, FixedPoint, Goto, Recover
<1>8. CASE LateResume
  BY <1>8 DEF LateResume
<1>9. CASE WorkerEnds
  BY <1>9 DEF WorkerEnds
<1>10. CASE UserHides
  BY <1>10 DEF UserHides
<1>11. CASE ObsStops
  BY <1>11 DEF ObsStops
<1>12. CASE ObsCommands
  BY <1>12 DEF ObsCommands
<1>13. CASE RequestRestart
  BY <1>13 DEF RequestRestart
<1>14. CASE UNCHANGED vars
  BY <1>14 DEF vars
<1> QED BY <1>1, <1>2, <1>3, <1>4, <1>5, <1>6, <1>7, <1>8, <1>9, <1>10, <1>11, <1>12, <1>13,
  <1>14 DEF Next, Control, Environment

(* DspInv is kept: nothing but Resume lets a parked worker go. *)
LEMMA DspStep ==
  ASSUME TypeOK, TaskInv, ModeInv, DspInv, [Next]_vars
  PROVE  DspInv'
<1> USE DEF TypeOK, TaskInv, ModeInv, DspInv, Played, Opened, OpenSteps, Restoring, Regenerating,
  Negotiating, Restarting, Closing, Tasks
<1>1. CASE Open
  BY <1>1 DEF Open, OpenComponent, OpenController, OpenHandler, OpenConnection, OpenBuses, OpenSetup,
    OpenActivateBuses, OpenPrepare, OpenRun, OpenFails, Goto, Recover
<1>2. CASE Close
  BY <1>2 DEF Close, CloseMode, CloseHooks, CloseTerminate, CloseRelease, CloseEditor, StopDsp, Goto
<1>3. CASE Loop
  BY <1>3 DEF Loop, PublishFirst, LeaveLoop, Turn, TakeRestart, Goto, OpenEditor, HideEditor, Dispatch,
    NextTask
<1>4. CASE Coordinate
  BY <1>4 DEF Coordinate, Pause, PauseTimesOut, Reconcile, Refresh, Publish, Resume, ResumeTimesOut,
    StepFails, Goto, FirstStep, Recover, Dispatch, NextTask
<1>5. CASE Restart
  BY <1>5 DEF Restart, StopPlugin, InspectIo, ConfirmIo, RebuildIo, StartPlugin, Goto
<1>6. CASE State
  BY <1>6 DEF State, Capture, RestoreSet, RestoreStart, RestoreRead, RestoreFails, Goto, Recover
<1>7. CASE Reload
  BY <1>7 DEF Reload, Absorb, Enumerate, FixedPoint, Goto, Recover
<1>8. CASE LateResume
  BY <1>8 DEF LateResume
<1>9. CASE WorkerEnds
  BY <1>9 DEF WorkerEnds
<1>10. CASE UserHides
  BY <1>10 DEF UserHides
<1>11. CASE ObsStops
  BY <1>11 DEF ObsStops
<1>12. CASE ObsCommands
  BY <1>12 DEF ObsCommands
<1>13. CASE RequestRestart
  BY <1>13 DEF RequestRestart
<1>14. CASE UNCHANGED vars
  BY <1>14 DEF vars
<1> QED BY <1>1, <1>2, <1>3, <1>4, <1>5, <1>6, <1>7, <1>8, <1>9, <1>10, <1>11, <1>12, <1>13,
  <1>14 DEF Next, Control, Environment

(* BusInv is kept: what was read is prepared for before it is committed. *)
LEMMA BusStep ==
  ASSUME TypeOK, TaskInv, DspInv, BusInv, [Next]_vars
  PROVE  BusInv'
<1> USE DEF TypeOK, TaskInv, DspInv, BusInv, Matched, Played, Served, Opened, OpenSteps, Restoring,
  Regenerating, Negotiating, Restarting, Closing, Tasks
<1>1. CASE Open
  BY <1>1 DEF Open, OpenComponent, OpenController, OpenHandler, OpenConnection, OpenBuses, OpenSetup,
    OpenActivateBuses, OpenPrepare, OpenRun, OpenFails, Goto, Recover
<1>2. CASE Close
  BY <1>2 DEF Close, CloseMode, CloseHooks, CloseTerminate, CloseRelease, CloseEditor, StopDsp, Goto
<1>3. CASE Loop
  BY <1>3 DEF Loop, PublishFirst, LeaveLoop, Turn, TakeRestart, Goto, OpenEditor, HideEditor, Dispatch,
    NextTask
<1>4. CASE Pause
  BY <1>4 DEF Pause, Goto, FirstStep
<1>5. CASE PauseTimesOut
  BY <1>5 DEF PauseTimesOut, Goto, Recover
<1>6. CASE Reconcile
  BY <1>6 DEF Reconcile, Goto
<1>7. CASE Refresh
  BY <1>7 DEF Refresh, Goto
<1>8. CASE Publish
  BY <1>8 DEF Publish, Goto
<1>9. CASE Resume
  BY <1>9 DEF Resume, Goto, Dispatch, NextTask
<1>10. CASE ResumeTimesOut
  BY <1>10 DEF ResumeTimesOut, Goto, Recover
<1>11. CASE StepFails
  BY <1>11 DEF StepFails, Goto, Recover
<1>12. CASE Restart
  BY <1>12 DEF Restart, StopPlugin, InspectIo, ConfirmIo, RebuildIo, StartPlugin, Goto
<1>13. CASE Capture
  BY <1>13 DEF Capture, Goto
<1>14. CASE RestoreSet
  BY <1>14 DEF RestoreSet, Goto
<1>15. CASE RestoreStart
  BY <1>15 DEF RestoreStart, Goto
<1>16. CASE RestoreRead
  BY <1>16 DEF RestoreRead, Goto
<1>17. CASE RestoreFails
  BY <1>17 DEF RestoreFails, Goto, Recover
<1>18. CASE Reload
  BY <1>18 DEF Reload, Absorb, Enumerate, FixedPoint, Goto, Recover
<1>19. CASE LateResume
  BY <1>19 DEF LateResume
<1>20. CASE WorkerEnds
  BY <1>20 DEF WorkerEnds
<1>21. CASE UserHides
  BY <1>21 DEF UserHides
<1>22. CASE ObsStops
  BY <1>22 DEF ObsStops
<1>23. CASE ObsCommands
  BY <1>23 DEF ObsCommands
<1>24. CASE RequestRestart
  BY <1>24 DEF RequestRestart
<1>25. CASE UNCHANGED vars
  BY <1>25 DEF vars
<1> QED BY <1>1, <1>2, <1>3, <1>4, <1>5, <1>6, <1>7, <1>8, <1>9, <1>10, <1>11, <1>12, <1>13, <1>14, <1>15,
  <1>16, <1>17, <1>18, <1>19, <1>20, <1>21, <1>22, <1>23, <1>24, <1>25 DEF Next, Coordinate, State,
  Control, Environment

(* ReadInv is kept: a request after the reading sets its flag again. *)
LEMMA ReadStep ==
  ASSUME TypeOK, TaskInv, PlanInv, ReadInv, [Next]_vars
  PROVE  ReadInv'
<1> USE DEF TypeOK, TaskInv, PlanInv, ReadInv, Asked, Settled, Served, Aspects, NextTask, Opened,
  OpenSteps, Restoring, Regenerating, Negotiating, Restarting, Closing, Tasks
<1>1. CASE Open
  BY <1>1 DEF Open, OpenComponent, OpenController, OpenHandler, OpenConnection, OpenBuses, OpenSetup,
    OpenActivateBuses, OpenPrepare, OpenRun, OpenFails, Goto, Recover
<1>2. CASE Close
  BY <1>2 DEF Close, CloseMode, CloseHooks, CloseTerminate, CloseRelease, CloseEditor, StopDsp, Goto
<1>3. CASE Loop
  BY <1>3 DEF Loop, PublishFirst, LeaveLoop, Turn, TakeRestart, Goto, OpenEditor, HideEditor, Dispatch
<1>4. CASE Coordinate
  BY <1>4 DEF Coordinate, Pause, PauseTimesOut, Reconcile, Refresh, Publish, Resume, ResumeTimesOut,
    StepFails, Goto, FirstStep, Recover, Dispatch
<1>5. CASE Restart
  BY <1>5 DEF Restart, StopPlugin, InspectIo, ConfirmIo, RebuildIo, StartPlugin, Goto
<1>6. CASE State
  BY <1>6 DEF State, Capture, RestoreSet, RestoreStart, RestoreRead, RestoreFails, Goto, Recover
<1>7. CASE Reload
  BY <1>7 DEF Reload, Absorb, Enumerate, FixedPoint, Goto, Recover
<1>8. CASE LateResume
  BY <1>8 DEF LateResume
<1>9. CASE WorkerEnds
  BY <1>9 DEF WorkerEnds
<1>10. CASE UserHides
  BY <1>10 DEF UserHides
<1>11. CASE ObsStops
  BY <1>11 DEF ObsStops
<1>12. CASE ObsCommands
  BY <1>12 DEF ObsCommands
<1>13. CASE RequestRestart
  <2>1. PICK f \in Restarts :
          LET changed == IF f = "reload" THEN Aspects ELSE {f} \cap Aspects
          IN  flags' = flags \cup {f} /\ stale' = stale \cup changed /\ unserved' = unserved \cup changed
    BY <1>13 DEF RequestRestart
  <2>2. \A a : (a \in stale' \ stale => Asked(a)') /\ (a \in unserved' \ unserved => Asked(a)')
    BY <2>1
  <2>3. \A a : Asked(a) => Asked(a)'
    BY <2>1
  <2>4. \A aspects : Settled(aspects) => Settled(aspects)'
    BY <2>2, <2>3
  <2>5. UNCHANGED <<control, task, plan>>
    BY <1>13 DEF RequestRestart
  <2> HIDE DEF Asked, Settled, Served
  <2>6. Served(task, plan)' = Served(task, plan)
    BY <2>5 DEF Served
  <2> QED BY <2>2, <2>3, <2>4, <2>5, <2>6
<1>14. CASE UNCHANGED vars
  BY <1>14 DEF vars
<1> QED BY <1>1, <1>2, <1>3, <1>4, <1>5, <1>6, <1>7, <1>8, <1>9, <1>10, <1>11, <1>12, <1>13,
  <1>14 DEF Next, Control, Environment

(* NoRequestLost is kept: what a transaction drops from the plan it has served. *)
LEMMA RequestStep ==
  ASSUME TypeOK, TaskInv, PlanInv, ReadInv, NoRequestLost, [Next]_vars
  PROVE  NoRequestLost'
<1> USE DEF TypeOK, TaskInv, PlanInv, ReadInv, NoRequestLost, Asked, Settled, Served, Aspects, NextTask,
  Opened, OpenSteps, Restoring, Regenerating, Negotiating, Restarting, Closing, Tasks
<1>1. CASE Open
  BY <1>1 DEF Open, OpenComponent, OpenController, OpenHandler, OpenConnection, OpenBuses, OpenSetup,
    OpenActivateBuses, OpenPrepare, OpenRun, OpenFails, Goto, Recover
<1>2. CASE Close
  BY <1>2 DEF Close, CloseMode, CloseHooks, CloseTerminate, CloseRelease, CloseEditor, StopDsp, Goto
<1>3. CASE Loop
  BY <1>3 DEF Loop, PublishFirst, LeaveLoop, Turn, TakeRestart, Goto, OpenEditor, HideEditor, Dispatch
<1>4. CASE Coordinate
  BY <1>4 DEF Coordinate, Pause, PauseTimesOut, Reconcile, Refresh, Publish, Resume, ResumeTimesOut,
    StepFails, Goto, FirstStep, Recover, Dispatch
<1>5. CASE Restart
  BY <1>5 DEF Restart, StopPlugin, InspectIo, ConfirmIo, RebuildIo, StartPlugin, Goto
<1>6. CASE State
  BY <1>6 DEF State, Capture, RestoreSet, RestoreStart, RestoreRead, RestoreFails, Goto, Recover
<1>7. CASE Reload
  BY <1>7 DEF Reload, Absorb, Enumerate, FixedPoint, Goto, Recover
<1>8. CASE LateResume
  BY <1>8 DEF LateResume
<1>9. CASE WorkerEnds
  BY <1>9 DEF WorkerEnds
<1>10. CASE UserHides
  BY <1>10 DEF UserHides
<1>11. CASE ObsStops
  BY <1>11 DEF ObsStops
<1>12. CASE ObsCommands
  BY <1>12 DEF ObsCommands
<1>13. CASE RequestRestart
  BY <1>13 DEF RequestRestart
<1>14. CASE UNCHANGED vars
  BY <1>14 DEF vars
<1> QED BY <1>1, <1>2, <1>3, <1>4, <1>5, <1>6, <1>7, <1>8, <1>9, <1>10, <1>11, <1>12, <1>13,
  <1>14 DEF Next, Control, Environment

(* The parts of TypeOK. *)
Flagged == handler \in BOOLEAN /\ shutdown \in BOOLEAN /\ restored \in BOOLEAN /\ unresumed \in BOOLEAN
Ranged ==
  /\ component \in {"none", "created", "initialized", "terminated"}
  /\ controller \in {"none", "component", "created", "initialized", "terminated"}
  /\ connected \in SUBSET {"component", "controller"}
  /\ mode \in {"off", "setup", "active", "processing"}
  /\ arrangement \in Layouts
  /\ {confirmed, prepared, committed} \subseteq Layouts \cup {"none"}
  /\ window \in {"none", "hidden", "visible"}
  /\ flags \in SUBSET Restarts
  /\ plan \in SUBSET Restarts
  /\ stale \in SUBSET Aspects
  /\ unserved \in SUBSET Aspects
  /\ control \in Steps
  /\ task \in {"start", "reload", "io", "parameters", "latency", "state", "exit"}
  /\ dsp \in {"none", "running", "parked", "resuming", "gone"}
  /\ command \in {"none", "capture", "restore", "open", "hide"}
  /\ requests \in 0 .. MaxRequests
  /\ commands \in 0 .. MaxCommands
Empty ==
  control = "exited" =>
    /\ {component, controller, window} = {"none"}
    /\ connected = {} /\ ~handler /\ dsp \in {"none", "gone"}

(* TypeOK is its parts. *)
LEMMA TypeParts  == TypeOK <=> Flagged /\ Ranged /\ Empty
BY Zenon DEF TypeOK, Flagged, Ranged, Empty

(* The flags are kept. *)
LEMMA FlaggedStep ==
  ASSUME Flagged, [Next]_vars
  PROVE  Flagged'
<1> USE DEF Flagged
<1>1. CASE OpenComponent
  BY <1>1 DEF OpenComponent, Goto
<1>2. CASE OpenController
  BY <1>2 DEF OpenController, Goto
<1>3. CASE OpenHandler
  BY <1>3 DEF OpenHandler, Goto
<1>4. CASE OpenConnection
  BY <1>4 DEF OpenConnection, Goto
<1>5. CASE OpenBuses
  BY <1>5 DEF OpenBuses, Goto
<1>6. CASE OpenSetup
  BY <1>6 DEF OpenSetup, Goto
<1>7. CASE OpenActivateBuses
  BY <1>7 DEF OpenActivateBuses, Goto
<1>8. CASE OpenPrepare
  BY <1>8 DEF OpenPrepare, Goto
<1>9. CASE OpenRun
  BY <1>9 DEF OpenRun, Goto
<1>10. CASE OpenFails
  BY <1>10 DEF OpenFails, Goto, OpenSteps, Recover
<1>11. CASE CloseMode
  BY <1>11 DEF CloseMode, Goto
<1>12. CASE CloseHooks
  BY <1>12 DEF CloseHooks, Goto
<1>13. CASE CloseTerminate
  BY <1>13 DEF CloseTerminate, Goto
<1>14. CASE CloseRelease
  BY <1>14 DEF CloseRelease, Goto
<1>15. CASE CloseEditor
  BY <1>15 DEF CloseEditor, Goto
<1>16. CASE StopDsp
  BY <1>16 DEF StopDsp, Goto
<1>17. CASE PublishFirst
  BY <1>17 DEF PublishFirst, Goto
<1>18. CASE LeaveLoop
  BY <1>18 DEF LeaveLoop, Goto
<1>19. CASE Turn
  BY <1>19 DEF Turn, Goto, OpenEditor, HideEditor
<1>20. CASE TakeRestart
  BY <1>20 DEF TakeRestart, Goto, Dispatch, NextTask
<1>21. CASE Pause
  BY <1>21 DEF Pause, Goto, FirstStep
<1>22. CASE PauseTimesOut
  BY <1>22 DEF PauseTimesOut, Goto, Recover
<1>23. CASE Reconcile
  BY <1>23 DEF Reconcile, Goto
<1>24. CASE Refresh
  BY <1>24 DEF Refresh, Goto
<1>25. CASE Publish
  BY <1>25 DEF Publish, Goto
<1>26. CASE Resume
  BY <1>26 DEF Resume, Goto, Dispatch, NextTask
<1>27. CASE ResumeTimesOut
  BY <1>27 DEF ResumeTimesOut, Goto, Recover
<1>28. CASE StepFails
  BY <1>28 DEF StepFails, Goto, Recover
<1>29. CASE StopPlugin
  BY <1>29 DEF StopPlugin, Goto
<1>30. CASE InspectIo
  BY <1>30 DEF InspectIo, Goto
<1>31. CASE ConfirmIo
  BY <1>31 DEF ConfirmIo, Goto
<1>32. CASE RebuildIo
  BY <1>32 DEF RebuildIo, Goto
<1>33. CASE StartPlugin
  BY <1>33 DEF StartPlugin, Goto
<1>34. CASE Capture
  BY <1>34 DEF Capture, Goto
<1>35. CASE RestoreSet
  BY <1>35 DEF RestoreSet, Goto
<1>36. CASE RestoreStart
  BY <1>36 DEF RestoreStart, Goto
<1>37. CASE RestoreRead
  BY <1>37 DEF RestoreRead, Goto
<1>38. CASE RestoreFails
  BY <1>38 DEF RestoreFails, Goto, Recover
<1>39. CASE Absorb
  BY <1>39 DEF Absorb, Goto, Recover
<1>40. CASE Enumerate
  BY <1>40 DEF Enumerate, Goto
<1>41. CASE FixedPoint
  BY <1>41 DEF FixedPoint, Goto, Recover
<1>42. CASE LateResume
  BY <1>42 DEF LateResume
<1>43. CASE WorkerEnds
  BY <1>43 DEF WorkerEnds
<1>44. CASE UserHides
  BY <1>44 DEF UserHides
<1>45. CASE ObsStops
  BY <1>45 DEF ObsStops
<1>46. CASE ObsCommands
  BY <1>46 DEF ObsCommands
<1>47. CASE RequestRestart
  BY <1>47 DEF RequestRestart
<1>48. CASE UNCHANGED vars
  BY <1>48 DEF vars
<1> QED BY <1>1, <1>2, <1>3, <1>4, <1>5, <1>6, <1>7, <1>8, <1>9, <1>10, <1>11, <1>12, <1>13, <1>14, <1>15,
  <1>16, <1>17, <1>18, <1>19, <1>20, <1>21, <1>22, <1>23, <1>24, <1>25, <1>26, <1>27, <1>28, <1>29, <1>30,
  <1>31, <1>32, <1>33, <1>34, <1>35, <1>36, <1>37, <1>38, <1>39, <1>40, <1>41, <1>42, <1>43, <1>44, <1>45,
  <1>46, <1>47, <1>48 DEF Next, Open, Close, Loop, Coordinate, Restart, State, Reload, Control, Environment

(* The values are kept in range. *)
LEMMA RangedStep ==
  ASSUME Ranged, TaskInv, PlanInv, [Next]_vars
  PROVE  Ranged'
<1> USE DEF Ranged, TaskInv, PlanInv, Steps, Opened, OpenSteps, Restoring, Regenerating, Negotiating,
  Restarting, Closing, Tasks
<1>1. CASE OpenComponent
  BY <1>1 DEF OpenComponent, Goto
<1>2. CASE OpenController
  BY <1>2 DEF OpenController, Goto
<1>3. CASE OpenHandler
  BY <1>3 DEF OpenHandler, Goto
<1>4. CASE OpenConnection
  <2>1. connected' \in SUBSET {"component", "controller"}
    BY <1>4 DEF OpenConnection
  <2> QED BY <1>4, <2>1 DEF OpenConnection, Goto
<1>5. CASE OpenBuses
  BY <1>5 DEF OpenBuses, Goto
<1>6. CASE OpenSetup
  BY <1>6 DEF OpenSetup, Goto
<1>7. CASE OpenActivateBuses
  BY <1>7 DEF OpenActivateBuses, Goto
<1>8. CASE OpenPrepare
  BY <1>8 DEF OpenPrepare, Goto
<1>9. CASE OpenRun
  BY <1>9 DEF OpenRun, Goto
<1>10. CASE OpenFails
  BY <1>10 DEF OpenFails, Goto, Recover
<1>11. CASE CloseMode
  BY <1>11 DEF CloseMode, Goto
<1>12. CASE CloseHooks
  BY <1>12 DEF CloseHooks, Goto
<1>13. CASE CloseTerminate
  BY <1>13 DEF CloseTerminate, Goto
<1>14. CASE CloseRelease
  BY <1>14 DEF CloseRelease, Goto
<1>15. CASE CloseEditor
  BY <1>15 DEF CloseEditor, Goto
<1>16. CASE StopDsp
  BY <1>16 DEF StopDsp, Goto
<1>17. CASE PublishFirst
  BY <1>17 DEF PublishFirst, Goto
<1>18. CASE LeaveLoop
  BY <1>18 DEF LeaveLoop, Goto
<1>19. CASE Turn
  BY <1>19 DEF Turn, Goto, OpenEditor, HideEditor
<1>20. CASE TakeRestart
  BY <1>20 DEF TakeRestart, Goto, Dispatch, NextTask
<1>21. CASE Pause
  BY <1>21 DEF Pause, Goto, FirstStep
<1>22. CASE PauseTimesOut
  BY <1>22 DEF PauseTimesOut, Goto, Recover
<1>23. CASE Reconcile
  BY <1>23 DEF Reconcile, Goto
<1>24. CASE Refresh
  BY <1>24 DEF Refresh, Goto
<1>25. CASE Publish
  BY <1>25 DEF Publish, Goto
<1>26. CASE Resume
  BY <1>26 DEF Resume, Goto, Dispatch, NextTask
<1>27. CASE ResumeTimesOut
  BY <1>27 DEF ResumeTimesOut, Goto, Recover
<1>28. CASE StepFails
  BY <1>28 DEF StepFails, Goto, Recover
<1>29. CASE StopPlugin
  BY <1>29 DEF StopPlugin, Goto
<1>30. CASE InspectIo
  BY <1>30 DEF InspectIo, Goto
<1>31. CASE ConfirmIo
  BY <1>31 DEF ConfirmIo, Goto
<1>32. CASE RebuildIo
  BY <1>32 DEF RebuildIo, Goto
<1>33. CASE StartPlugin
  BY <1>33 DEF StartPlugin, Goto
<1>34. CASE Capture
  BY <1>34 DEF Capture, Goto
<1>35. CASE RestoreSet
  BY <1>35 DEF RestoreSet, Goto
<1>36. CASE RestoreStart
  BY <1>36 DEF RestoreStart, Goto
<1>37. CASE RestoreRead
  BY <1>37 DEF RestoreRead, Goto
<1>38. CASE RestoreFails
  BY <1>38 DEF RestoreFails, Goto, Recover
<1>39. CASE Absorb
  BY <1>39 DEF Absorb, Goto, Recover
<1>40. CASE Enumerate
  BY <1>40 DEF Enumerate, Goto
<1>41. CASE FixedPoint
  BY <1>41 DEF FixedPoint, Goto, Recover
<1>42. CASE LateResume
  BY <1>42 DEF LateResume
<1>43. CASE WorkerEnds
  BY <1>43 DEF WorkerEnds
<1>44. CASE UserHides
  BY <1>44 DEF UserHides
<1>45. CASE ObsStops
  BY <1>45 DEF ObsStops
<1>46. CASE ObsCommands
  BY <1>46 DEF ObsCommands
<1>47. CASE RequestRestart
  BY <1>47 DEF RequestRestart
<1>48. CASE UNCHANGED vars
  BY <1>48 DEF vars
<1> QED BY <1>1, <1>2, <1>3, <1>4, <1>5, <1>6, <1>7, <1>8, <1>9, <1>10, <1>11, <1>12, <1>13, <1>14, <1>15,
  <1>16, <1>17, <1>18, <1>19, <1>20, <1>21, <1>22, <1>23, <1>24, <1>25, <1>26, <1>27, <1>28, <1>29, <1>30,
  <1>31, <1>32, <1>33, <1>34, <1>35, <1>36, <1>37, <1>38, <1>39, <1>40, <1>41, <1>42, <1>43, <1>44, <1>45,
  <1>46, <1>47, <1>48 DEF Next, Open, Close, Loop, Coordinate, Restart, State, Reload, Control, Environment

(* Nothing is left at the exit. *)
LEMMA EmptyStep ==
  ASSUME Empty, TaskInv, ObjectsInv, DspInv, [Next]_vars
  PROVE  Empty'
<1> USE DEF Empty, TaskInv, ObjectsInv, DspInv, Opened, OpenSteps, Restoring, Regenerating, Negotiating,
  Restarting, Closing, Tasks
<1>1. CASE Open
  BY <1>1 DEF Open, OpenComponent, OpenController, OpenHandler, OpenConnection, OpenBuses, OpenSetup,
    OpenActivateBuses, OpenPrepare, OpenRun, OpenFails, Goto, Recover
<1>2. CASE Close
  BY <1>2 DEF Close, CloseMode, CloseHooks, CloseTerminate, CloseRelease, CloseEditor, StopDsp, Goto
<1>3. CASE Loop
  BY <1>3 DEF Loop, PublishFirst, LeaveLoop, Turn, TakeRestart, Goto, OpenEditor, HideEditor, Dispatch,
    NextTask
<1>4. CASE Coordinate
  BY <1>4 DEF Coordinate, Pause, PauseTimesOut, Reconcile, Refresh, Publish, Resume, ResumeTimesOut,
    StepFails, Goto, FirstStep, Recover, Dispatch, NextTask
<1>5. CASE Restart
  BY <1>5 DEF Restart, StopPlugin, InspectIo, ConfirmIo, RebuildIo, StartPlugin, Goto
<1>6. CASE State
  BY <1>6 DEF State, Capture, RestoreSet, RestoreStart, RestoreRead, RestoreFails, Goto, Recover
<1>7. CASE Reload
  BY <1>7 DEF Reload, Absorb, Enumerate, FixedPoint, Goto, Recover
<1>8. CASE LateResume
  BY <1>8 DEF LateResume
<1>9. CASE WorkerEnds
  BY <1>9 DEF WorkerEnds
<1>10. CASE UserHides
  BY <1>10 DEF UserHides
<1>11. CASE ObsStops
  BY <1>11 DEF ObsStops
<1>12. CASE ObsCommands
  BY <1>12 DEF ObsCommands
<1>13. CASE RequestRestart
  BY <1>13 DEF RequestRestart
<1>14. CASE UNCHANGED vars
  BY <1>14 DEF vars
<1> QED BY <1>1, <1>2, <1>3, <1>4, <1>5, <1>6, <1>7, <1>8, <1>9, <1>10, <1>11, <1>12, <1>13,
  <1>14 DEF Next, Control, Environment

(* The invariant holds before the plug-in is opened. *)
LEMMA InitHolds == Init => LifecycleInv
<1> SUFFICES ASSUME Init PROVE LifecycleInv
  OBVIOUS
<1>1. TypeOK
  <2>1. Flagged
    BY DEF Init, Flagged
  <2>2. Ranged
    BY DEF Init, Ranged, Steps, OpenSteps
  <2>3. Empty
    BY DEF Init, Empty
  <2> QED BY <2>1, <2>2, <2>3, TypeParts
<1>2. TaskInv /\ PlanInv /\ DspInv
  BY DEF Init, TaskInv, PlanInv, DspInv, Opened, OpenSteps, Restoring, Regenerating, Negotiating, Restarting, Closing, Tasks
<1>3. ObjectsInv /\ ModeInv
  BY DEF Init, ObjectsInv, ModeInv, Played, Running, Opened, OpenSteps, Restoring, Regenerating, Negotiating,
    Restarting, Closing
<1>4. BusInv /\ ReadInv /\ NoRequestLost
  BY DEF Init, BusInv, ReadInv, NoRequestLost, Aspects
<1> QED BY <1>1, <1>2, <1>3, <1>4 DEF LifecycleInv

(* Every step keeps the invariant. *)
LEMMA StepHolds == LifecycleInv /\ [Next]_vars => LifecycleInv'
<1> SUFFICES ASSUME LifecycleInv, [Next]_vars PROVE LifecycleInv'
  OBVIOUS
<1>1. TypeOK /\ TaskInv /\ PlanInv /\ ObjectsInv /\ ModeInv /\ DspInv /\ BusInv /\ ReadInv /\ NoRequestLost
  BY DEF LifecycleInv
<1>2. TypeOK'
  <2>1. (Flagged /\ Ranged /\ Empty)'
    BY <1>1, TypeParts, FlaggedStep, RangedStep, EmptyStep
  <2> QED BY Zenon, <2>1 DEF TypeOK, Flagged, Ranged, Empty
<1>3. TaskInv' /\ PlanInv' /\ ObjectsInv' /\ ModeInv' /\ DspInv' /\ BusInv' /\ ReadInv' /\ NoRequestLost'
  BY <1>1, TaskStep, PlanStep, ObjectsStep, ModeStep, DspStep, BusStep, ReadStep, RequestStep
<1> QED BY <1>2, <1>3 DEF LifecycleInv

(* The inductive invariant: at each step of the control thread, which objects of  *)
(* the pair exist, how far the plug-in runs, what the buses match, and which      *)
(* requests are still in the flags or in the plan.                                *)
THEOREM LifecycleSafety == Spec => []LifecycleInv
BY InitHolds, StepHolds, PTL DEF Spec

(* The variables stay in range, and a helper that has left its main loop leaves   *)
(* nothing of the plug-in behind.                                                 *)
THEOREM LifecycleTypes == Spec => []TypeOK
<1>1. LifecycleInv => TypeOK
  BY DEF LifecycleInv
<1> QED BY <1>1, LifecycleSafety, PTL

(* No transaction lets the worker run blocks on a half restarted plug-in.         *)
THEOREM LifecycleBlocksOnWholePlugin == Spec => []BlocksOnWholePlugin
<1>1. LifecycleInv => BlocksOnWholePlugin
  BY DEF LifecycleInv, DspInv, BusInv, Matched, BlocksOnWholePlugin
<1> QED BY <1>1, LifecycleSafety, PTL

(* A restart that the plug-in has asked for is served, or is still to be served,  *)
(* whichever transactions absorb one another.                                     *)
THEOREM LifecycleNoRequestLost == Spec => []NoRequestLost
<1>1. LifecycleInv => NoRequestLost
  BY DEF LifecycleInv
<1> QED BY <1>1, LifecycleSafety, PTL

-----------------------------------------------------------------------------
(* A step that leaves the pair alone. *)
PairAlone == UNCHANGED <<component, controller, handler, connected, mode>> /\ (window' = "none" <=> window = "none")

LEMMA AloneIsStutter == PairAlone => UNCHANGED Pair!vars
BY DEF PairAlone, Pair!vars

(* Opening: each step is one call that the order allows. *)
LEMMA OpenIsPair ==
  ASSUME TypeOK, TaskInv, ObjectsInv, ModeInv, Open
  PROVE  Pair!Next \/ UNCHANGED Pair!vars
<1> USE DEF ObjectsInv, ModeInv, Opened, OpenSteps, Closing, Running, Played, Restoring, Restarting, Negotiating,
        Regenerating, Whole
<1>1. CASE OpenComponent
  BY <1>1 DEF OpenComponent, Goto, Pair!Next, Pair!Component, Pair!vars
<1>2. CASE OpenController
  BY <1>2 DEF OpenController, Goto, Pair!Next, Pair!Controller, Pair!vars
<1>3. CASE OpenHandler
  BY <1>3 DEF OpenHandler, Goto, Pair!Next, Pair!Handler, Pair!HasController
<1>4. CASE OpenConnection
  BY <1>4 DEF OpenConnection, Goto, Pair!Next, Pair!Connect, Pair!vars
<1>5. CASE OpenSetup \/ OpenRun
  <2>1. /\ component = "initialized" /\ controller \in {"none", "initialized", "component"}
        /\ Pair!HasController => handler
        /\ connected # {"component"}
    <3>1. Whole
      BY <1>5 DEF OpenSetup, OpenRun
    <3> HIDE DEF ObjectsInv, ModeInv
    <3>2. controller # "none" => handler
      BY <3>1
    <3> QED BY <3>1, <3>2 DEF Pair!HasController
  <2>2. /\ <<mode, mode'>> \in {<<"off", "setup">>, <<"setup", "active">>, <<"active", "processing">>}
        /\ UNCHANGED <<component, controller, handler, connected, window>>
    BY <1>5 DEF OpenSetup, OpenRun
  <2> HIDE DEF ObjectsInv, ModeInv
  <2> QED BY <2>1, <2>2 DEF Pair!Next, Pair!Run
<1>6. CASE OpenFails
  BY <1>6 DEF OpenFails, Pair!Next, Pair!Run, Pair!Unhook, Pair!Idle, Pair!vars
<1>7. CASE OpenBuses \/ OpenActivateBuses \/ OpenPrepare
  BY <1>7, AloneIsStutter DEF OpenBuses, OpenActivateBuses, OpenPrepare, PairAlone
<1> QED BY <1>1, <1>2, <1>3, <1>4, <1>5, <1>6, <1>7 DEF Open

(* Closing: the teardown takes the pair down in its order, from wherever an       *)
(* opening or a transaction has stopped.                                          *)
LEMMA CloseIsPair ==
  ASSUME TypeOK, TaskInv, ObjectsInv, ModeInv, Close
  PROVE  Pair!Next \/ UNCHANGED Pair!vars
<1> USE DEF ObjectsInv, ModeInv, Opened, OpenSteps, Closing, Running, Played, Restoring, Restarting, Negotiating,
        Regenerating, Whole
<1>1. CASE CloseMode
  BY <1>1 DEF CloseMode, Goto, TypeOK, Pair!Next, Pair!Run, Pair!vars
<1>2. CASE CloseHooks
  BY <1>2 DEF CloseHooks, Goto, Pair!Next, Pair!Unhook, Pair!Idle
<1>3. CASE CloseTerminate
  BY <1>3 DEF CloseTerminate, Goto, TypeOK, Pair!Next, Pair!Terminate, Pair!Idle, Pair!vars
<1>4. CASE CloseRelease
  BY <1>4 DEF CloseRelease, Goto, TypeOK, Pair!Next, Pair!Terminate, Pair!Idle, Pair!vars
<1>5. CASE CloseEditor
  <2>1. CASE control = "close_editor" /\ window = "none"
    BY <1>5, <2>1, AloneIsStutter DEF CloseEditor, PairAlone
  <2>2. CASE control = "close_editor" /\ window # "none"
    <3>1. Pair!HasController /\ handler /\ component = "initialized"
      BY <2>2 DEF Pair!HasController
    <3>2. window' = "none" /\ UNCHANGED <<component, controller, handler, connected, mode>>
      BY <1>5, <2>2 DEF CloseEditor
    <3> QED BY <2>2, <3>1, <3>2 DEF Pair!Next, Pair!View
  <2>3. CASE control = "drop_handler"
    BY <1>5, <2>3 DEF CloseEditor, Pair!Next, Pair!Unhook
  <2> QED BY <1>5, <2>1, <2>2, <2>3 DEF CloseEditor
<1>6. CASE StopDsp
  BY <1>6, AloneIsStutter DEF StopDsp, PairAlone
<1> QED BY <1>1, <1>2, <1>3, <1>4, <1>5, <1>6 DEF Close

(* The transactions stop and start the plug-in one step at a time, and the editor *)
(* opens on a whole pair.                                                         *)
LEMMA TransactionIsPair ==
  ASSUME TypeOK, TaskInv, ObjectsInv, ModeInv,
         Loop \/ Coordinate \/ Restart \/ State \/ Reload \/ LateResume \/ WorkerEnds \/ Environment
  PROVE  Pair!Next \/ UNCHANGED Pair!vars
<1> USE DEF ObjectsInv, ModeInv, Running, Played, Restoring, Restarting, Negotiating, Regenerating, Whole
<1>1. CASE StopPlugin \/ StartPlugin
  BY <1>1 DEF StopPlugin, StartPlugin, Goto, TypeOK, Pair!Next, Pair!Run, Pair!HasController, Pair!vars
<1>2. CASE RestoreSet \/ RestoreStart
  BY <1>2 DEF RestoreSet, RestoreStart, Goto, TypeOK, Pair!Next, Pair!Run, Pair!HasController, Pair!vars
<1>3. CASE Turn
  BY <1>3 DEF Turn, OpenEditor, HideEditor, Goto, TypeOK, Pair!Next, Pair!View, Pair!HasController, Pair!vars
<1>4. CASE UserHides
  BY <1>4, AloneIsStutter DEF UserHides, PairAlone
<1>5. CASE PublishFirst \/ LeaveLoop \/ TakeRestart
  BY <1>5, AloneIsStutter DEF PublishFirst, LeaveLoop, TakeRestart, PairAlone
<1>6. CASE Coordinate
  BY <1>6, AloneIsStutter DEF Coordinate, Pause, PauseTimesOut, Reconcile, Refresh, Publish, Resume,
    ResumeTimesOut, StepFails, PairAlone
<1>7. CASE InspectIo \/ ConfirmIo \/ RebuildIo \/ Capture \/ RestoreRead \/ RestoreFails \/ Reload
  BY <1>7, AloneIsStutter DEF InspectIo, ConfirmIo, RebuildIo, Capture, RestoreRead, RestoreFails, Reload,
    Absorb, Enumerate, FixedPoint, PairAlone
<1>8. CASE LateResume \/ WorkerEnds \/ ObsStops \/ ObsCommands \/ RequestRestart
  BY <1>8, AloneIsStutter DEF LateResume, WorkerEnds, ObsStops, ObsCommands, RequestRestart, PairAlone
<1> QED BY <1>1, <1>2, <1>3, <1>4, <1>5, <1>6, <1>7, <1>8 DEF Loop, Restart, State, Environment

(* HostedPlugin keeps the order of calls of PluginPair, however its transactions  *)
(* fail and whatever the plug-in asks for in the meantime.                        *)
THEOREM LifecyclePairKept == Spec => PairKept
<1>1. Init => Pair!Init
  BY DEF Init, Pair!Init
<1>2. LifecycleInv /\ [Next]_vars => [Pair!Next]_Pair!vars
  <2> SUFFICES ASSUME LifecycleInv, [Next]_vars PROVE [Pair!Next]_Pair!vars
    OBVIOUS
  <2>1. TypeOK /\ TaskInv /\ ObjectsInv /\ ModeInv
    BY DEF LifecycleInv
  <2>2. CASE Next
    BY <2>1, <2>2, OpenIsPair, CloseIsPair, TransactionIsPair DEF Next, Control
  <2>3. CASE UNCHANGED vars
    BY <2>3, AloneIsStutter DEF vars, PairAlone
  <2> QED BY <2>2, <2>3
<1> QED BY <1>1, <1>2, LifecycleSafety, PTL DEF Spec, PairKept, Pair!Spec
=============================================================================
