--------------------------- MODULE EngineLifecycle ---------------------------
(***************************************************************************)
(* The life of the plug-in inside the Single Host helper: HostedPlugin      *)
(* (host/hosted_plugin.cpp) opens, restarts, restores and closes it, on the *)
(* control thread of host/main.cpp, by the transactions of common/          *)
(* (io_restart, latency_restart, parameter_refresh, reload_component).      *)
(* Every call into the plug-in may fail, and while a call runs - or between *)
(* two calls - the plug-in may ask for a restart: restartComponent only     *)
(* sets a flag, which the control thread takes later.                       *)
(*                                                                          *)
(* The DSP worker is what HostAudio promises of it: parked by a pause that  *)
(* succeeds, else running.  Values, titles, latency and audio buses are     *)
(* modelled by what is stale: an aspect the plug-in has changed and the     *)
(* engine has not read, or nobody has been told.  Audio buses also carry    *)
(* the arrangement, which the engine reads twice and prepares for once.     *)
(* A setProcessing(false) or setActive(false) whose result the code ignores *)
(* counts as obeyed.                                                        *)
(***************************************************************************)
EXTENDS Naturals, FiniteSets

CONSTANTS
    Layouts,      \* the supported arrangements of the main buses
    MaxRequests,  \* bound: the restarts the plug-in asks for
    MaxCommands   \* bound: the state and editor commands of OBS

ASSUME LayoutsAssumption == Layouts # {} /\ "none" \notin Layouts
ASSUME BoundsAssumption == MaxRequests \in Nat /\ MaxCommands \in Nat

Aspects == {"io", "values", "latency", "titles"}
Restarts == Aspects \cup {"reload", "unknown"}

VARIABLES
    \* the plug-in and what HostedPlugin holds of it (see PluginPair)
    component, controller, handler, connected, mode,
    arrangement,  \* of the plug-in's main buses
    confirmed,    \* the arrangement read last
    prepared,     \* the one process_data_ was prepared for
    committed,    \* main_input_bus_ .. plugin_output_channels_
    \* the editor
    window,       \* NativeEditorWindow: "none", "hidden", "visible"
    \* restart requests
    flags,        \* restart_flags_
    plan,         \* RestartTransactionPlan: what is left of it
    stale,        \* changed by the plug-in and not read by the engine,
    unserved,     \* changed by the plug-in and not carried through to OBS
    \* the two threads
    control,      \* the next step of the control thread
    task,         \* the transaction it is in
    dsp,          \* the worker: "none", "running", "parked", "resuming", "gone"
    shutdown,     \* shutdown_requested
    command,      \* the command OBS waits for
    restored,     \* of restore_state
    unresumed,    \* a failed restore has left the plug-in stopped
    requests, commands \* counters of the bounds

pairVars == <<component, controller, handler, connected>>
layoutVars == <<arrangement, confirmed, prepared, committed>>
staleVars == <<flags, plan, stale, unserved>>
commandVars == <<command, restored, unresumed>>
countVars == <<requests, commands>>
vars == <<pairVars, mode, layoutVars, window, staleVars, control, task, dsp, shutdown,
          commandVars, countVars>>

Init ==
    /\ component = "none"
    /\ controller = "none"
    /\ handler = FALSE
    /\ connected = {}
    /\ mode = "off"
    /\ arrangement \in Layouts
    /\ confirmed = "none"
    /\ prepared = "none"
    /\ committed = "none"
    /\ window = "none"
    /\ flags = {}
    /\ plan = {}
    /\ stale = Aspects
    /\ unserved = Aspects
    /\ control = "load"
    /\ task = "start"
    /\ dsp = "none"
    /\ shutdown = FALSE
    /\ command = "none"
    /\ restored = TRUE
    /\ unresumed = FALSE
    /\ requests = 0
    /\ commands = 0

Goto(step) == control' = step

(* request_recovery: OBS replaces a helper that asks for its own shutdown, and the main loop *)
(* is left.                                                                                  *)
Recover ==
    /\ shutdown' = TRUE
    /\ task' = "exit"
    /\ control' = "stop_dsp"

-----------------------------------------------------------------------------
(* HostedPlugin::open.  A failure leaves everything as it is: the destructor of the engine *)
(* closes it at the start, and a reload recovers.                                         *)

OpenSteps == {"load", "create", "initialize", "controller", "controller_initialize", "handler",
              "connect_component", "connect_controller", "sync", "buses", "setup", "prepare",
              "activate", "start"}

OpenFails ==
    /\ control \in OpenSteps
    /\ connected' = IF control = "connect_controller" THEN {} ELSE connected
    /\ mode' = IF control = "start" THEN "setup" ELSE mode
    /\ \/ /\ task = "start"
          /\ task' = "exit"
          /\ Goto("close_mode")
          /\ UNCHANGED shutdown
       \/ task = "reload" /\ Recover
    /\ UNCHANGED <<component, controller, handler, layoutVars, window, staleVars, dsp,
                   commandVars, countVars>>

(* The module, the class, the component and its initialize. *)
OpenComponent ==
    /\ \/ control = "load" /\ Goto("create") /\ UNCHANGED component
       \/ control = "create" /\ Goto("initialize") /\ component' = "created"
       \/ control = "initialize" /\ Goto("controller") /\ component' = "initialized"
    /\ UNCHANGED <<controller, handler, connected, mode, layoutVars, window, staleVars, task,
                   dsp, shutdown, commandVars, countVars>>

(* The component is its own controller, advertises one, or has none. *)
OpenController ==
    /\ \/ /\ control = "controller"
          /\ \/ controller' = "component" /\ Goto("handler")
             \/ controller' = "created" /\ Goto("controller_initialize")
             \/ controller' = "none" /\ Goto("buses")
       \/ /\ control = "controller_initialize"
          /\ controller' = "initialized"
          /\ Goto("handler")
    /\ UNCHANGED <<component, handler, connected, mode, layoutVars, window, staleVars, task,
                   dsp, shutdown, commandVars, countVars>>

OpenHandler ==
    /\ control = "handler"
    /\ handler' = TRUE
    /\ Goto(IF controller = "component" THEN "buses" ELSE "connect_component")
    /\ UNCHANGED <<component, controller, connected, mode, layoutVars, window, staleVars, task,
                   dsp, shutdown, commandVars, countVars>>

(* Both sides have connection points, or neither has; then the controller is told the state *)
(* of the component.                                                                        *)
OpenConnection ==
    /\ \/ /\ control = "connect_component"
          /\ \/ connected' = {"component"} /\ Goto("connect_controller")
             \/ connected' = {} /\ Goto("sync")
       \/ /\ control = "connect_controller"
          /\ connected' = {"component", "controller"}
          /\ Goto("sync")
       \/ /\ control = "sync"
          /\ Goto("buses")
          /\ UNCHANGED connected
    /\ UNCHANGED <<component, controller, handler, mode, layoutVars, window, staleVars, task,
                   dsp, shutdown, commandVars, countVars>>

(* enumerate_parameters and configure_buses: the plug-in may keep another arrangement than  *)
(* the requested one; what it answers is what the engine takes.                             *)
OpenBuses ==
    /\ control = "buses"
    /\ arrangement' \in Layouts
    /\ confirmed' = arrangement'
    /\ committed' = arrangement'
    /\ stale' = stale \ {"values", "titles", "io"}
    /\ Goto("setup")
    /\ UNCHANGED <<pairVars, mode, prepared, window, flags, plan, unserved, task, dsp,
                   shutdown, commandVars, countVars>>

(* setupProcessing, activate_configured_buses, the context requirements and ProcessData. *)
OpenSetup ==
    /\ control = "setup"
    /\ mode' = "setup"
    /\ Goto("activate_buses")
    /\ UNCHANGED <<pairVars, layoutVars, window, staleVars, task, dsp, shutdown, commandVars,
                   countVars>>

(* What activateBus answers is only advice. *)
OpenActivateBuses ==
    /\ control = "activate_buses"
    /\ Goto("prepare")
    /\ UNCHANGED <<pairVars, mode, layoutVars, window, staleVars, task, dsp, shutdown,
                   commandVars, countVars>>

OpenPrepare ==
    /\ control = "prepare"
    /\ prepared' = arrangement
    /\ Goto("activate")
    /\ UNCHANGED <<pairVars, mode, arrangement, confirmed, committed, window, staleVars, task,
                   dsp, shutdown, commandVars, countVars>>

(* Active, then the latency, then processing. *)
OpenRun ==
    /\ \/ /\ control = "activate"
          /\ mode' = "active"
          /\ stale' = stale \ {"latency"}
          /\ Goto("start")
       \/ /\ control = "start"
          /\ mode' = "processing"
          /\ Goto(IF task = "start" THEN "publish" ELSE "restore_stop")
          /\ UNCHANGED stale
    /\ UNCHANGED <<pairVars, layoutVars, window, flags, plan, unserved, task, dsp, shutdown,
                   commandVars, countVars>>

-----------------------------------------------------------------------------
(* HostedPlugin::close. *)

CloseMode ==
    /\ control = "close_mode"
    /\ mode' = IF mode = "off" THEN "off" ELSE "setup"
    /\ prepared' = "none"
    /\ Goto("close_hooks")
    /\ UNCHANGED <<pairVars, arrangement, confirmed, committed, window, staleVars, task, dsp,
                   shutdown, commandVars, countVars>>

CloseHooks ==
    /\ control = "close_hooks"
    /\ handler' = FALSE
    /\ connected' = {}
    /\ Goto("terminate_component")
    /\ UNCHANGED <<component, controller, mode, layoutVars, window, staleVars, task, dsp,
                   shutdown, commandVars, countVars>>

(* Mutant: the controller goes before its component. *)
TerminateControllerFirst ==
    /\ \/ /\ control = "terminate_component"
          /\ controller' = IF controller = "initialized" THEN "terminated" ELSE controller
          /\ Goto("terminate_controller")
          /\ UNCHANGED <<component, mode>>
       \/ /\ control = "terminate_controller"
          /\ component' = IF component = "initialized" THEN "terminated" ELSE component
          /\ mode' = "off"
          /\ Goto("release")
          /\ UNCHANGED controller
    /\ UNCHANGED <<handler, connected, layoutVars, window, staleVars, task, dsp, shutdown,
                   commandVars, countVars>>

CloseTerminate ==
    /\ \/ /\ control = "terminate_component"
          /\ component' = IF component = "initialized" THEN "terminated" ELSE component
          /\ mode' = "off"
          /\ Goto("terminate_controller")
          /\ UNCHANGED controller
       \/ /\ control = "terminate_controller"
          /\ controller' = IF controller = "initialized" THEN "terminated" ELSE controller
          /\ Goto("release")
          /\ UNCHANGED <<component, mode>>
    /\ UNCHANGED <<handler, connected, layoutVars, window, staleVars, task, dsp, shutdown,
                   commandVars, countVars>>

(* The references are dropped; a reload opens the next instance. *)
CloseRelease ==
    /\ control = "release"
    /\ component' = "none"
    /\ controller' = "none"
    /\ committed' = "none"
    /\ Goto(IF task = "reload" THEN "load" ELSE "exited")
    /\ stale' = Aspects
    /\ unserved' = Aspects
    /\ UNCHANGED <<handler, connected, mode, arrangement, confirmed, prepared, window, flags,
                   plan, task, dsp, shutdown, commandVars, countVars>>

-----------------------------------------------------------------------------
(* The main loop of wmain: the editor, the restart requests, the state request, again. *)

(* What is left of a plan: one transaction after the other, a reload instead of the rest. *)
NextTask(p) ==
    IF "reload" \in p THEN "reload"
    ELSE IF "io" \in p THEN "io"
    ELSE IF p \cap {"values", "titles"} # {} THEN "parameters"
    ELSE IF "latency" \in p THEN "latency" ELSE "state"

(* What a transaction re-reads and publishes: the restart of the buses re-reads the latency *)
(* too, a new catalog the values too.                                                      *)
Served(t, p) ==
    CASE t \in {"start", "reload"} -> Aspects
      [] t = "io" -> {"io", "latency"}
      [] t = "parameters" -> IF "titles" \in p THEN {"values", "titles"} ELSE {"values"}
      [] t = "latency" -> {"latency"}
      [] t = "state" -> {"values", "latency"}
      [] OTHER -> {}

Dispatch(p) ==
    /\ plan' = p
    /\ task' = NextTask(p)
    /\ Goto(IF NextTask(p) = "state" /\ command \notin {"capture", "restore"} THEN "loop"
            ELSE "pause")

(* The catalog, the latency and the name of the plug-in; then the worker. *)
PublishFirst ==
    /\ control = "publish"
    /\ task = "start"
    /\ \/ /\ unserved' = unserved \cap stale
          /\ dsp' = "running"
          /\ task' = "state"
          /\ Goto("loop")
       \/ /\ task' = "exit"
          /\ Goto("close_mode")
          /\ UNCHANGED <<unserved, dsp>>
    /\ UNCHANGED <<pairVars, mode, layoutVars, window, flags, plan, stale, shutdown, commandVars,
                   countVars>>

(* One turn of the loop: a shutdown ends it, else the command of OBS for the editor. *)
LeaveLoop ==
    /\ control = "loop"
    /\ shutdown
    /\ task' = "exit"
    /\ Goto("stop_dsp")
    /\ UNCHANGED <<pairVars, mode, layoutVars, window, staleVars, dsp, shutdown, commandVars,
                   countVars>>

(* NativeEditorWindow::open: an open window comes to the front, a failure leaves none. *)
OpenEditor ==
    \/ controller # "none" /\ window' = "visible"
    \/ window = "none" /\ UNCHANGED window

HideEditor == window' = IF window = "none" THEN "none" ELSE "hidden"

Turn ==
    /\ control = "loop"
    /\ ~shutdown
    /\ Goto("restart")
    /\ \/ command = "open" /\ OpenEditor /\ command' = "none"
       \/ command = "hide" /\ HideEditor /\ command' = "none"
       \/ command \notin {"open", "hide"} /\ UNCHANGED <<window, command>>
    /\ UNCHANGED <<pairVars, mode, layoutVars, staleVars, task, dsp, shutdown, restored,
                   unresumed, countVars>>

(* Mutant: a latency that changes together with parameters is taken for a parameter change. *)
TakeForgettingLatency ==
    /\ control = "restart"
    /\ flags' = {}
    /\ Dispatch(IF flags \cap {"values", "titles"} # {} THEN flags \ {"latency"} ELSE flags)
    /\ UNCHANGED <<pairVars, mode, layoutVars, window, stale, unserved, dsp, shutdown,
                   commandVars, countVars>>

(* take_restart_flags and plan_restart_component; an unknown flag is only reported. *)
TakeRestart ==
    /\ control = "restart"
    /\ flags' = {}
    /\ Dispatch(flags \ {"unknown"})
    /\ UNCHANGED <<pairVars, mode, layoutVars, window, stale, unserved, dsp, shutdown,
                   commandVars, countVars>>

(* The user closes or shows the window: WM_CLOSE only hides it. *)
UserHides ==
    /\ control = "loop"
    /\ window = "visible"
    /\ window' = "hidden"
    /\ UNCHANGED <<pairVars, mode, layoutVars, staleVars, control, task, dsp,
                   shutdown, commandVars, countVars>>

-----------------------------------------------------------------------------
(* The coordinators: pause, reconcile, work, publish, resume.  Any failure recovers; only a *)
(* state request answers with an error and goes on.                                         *)

FirstStep == [reload |-> "reconcile", io |-> "reconcile", parameters |-> "reconcile",
              latency |-> "stop", state |-> "reconcile"]

(* Mutant: a state request does not wait for the worker. *)
PauseWithoutWaiting ==
    /\ control = "pause"
    /\ dsp \in {"running", "resuming"}
    /\ dsp' = IF task = "state" THEN dsp ELSE "parked"
    /\ Goto(FirstStep[task])
    /\ UNCHANGED <<pairVars, mode, layoutVars, window, staleVars, task, shutdown, commandVars,
                   countVars>>

Pause ==
    /\ control = "pause"
    /\ dsp \in {"running", "resuming"}
    /\ dsp' = "parked"
    /\ Goto(FirstStep[task])
    /\ UNCHANGED <<pairVars, mode, layoutVars, window, staleVars, task, shutdown, commandVars,
                   countVars>>

(* A pause that times out is withdrawn; one that the worker obeyed too late ends by itself. *)
PauseTimesOut ==
    /\ control = "pause"
    /\ dsp' \in (IF dsp = "running" THEN {"running", "resuming"} ELSE {dsp})
    /\ \/ /\ task = "state"
          /\ command' = "none"
          /\ Goto("loop")
          /\ UNCHANGED <<task, shutdown>>
       \/ task # "state" /\ Recover /\ UNCHANGED command
    /\ UNCHANGED <<pairVars, mode, layoutVars, window, staleVars, restored, unresumed,
                   countVars>>

(* Edits and host values reach both sides of the plug-in first. *)
Reconcile ==
    /\ control = "reconcile"
    /\ Goto(CASE task = "reload" -> "capture" [] task = "io" -> "stop" [] task = "parameters" -> "refresh"
              [] OTHER -> IF command = "capture" THEN "capture" ELSE "restore_stop")
    /\ UNCHANGED <<pairVars, mode, layoutVars, window, staleVars, task, dsp, shutdown,
                   commandVars, countVars>>

(* refresh_parameter_values or refresh_parameter_metadata. *)
Refresh ==
    /\ control = "refresh"
    /\ stale' = stale \ Served("parameters", plan)
    /\ Goto("publish")
    /\ UNCHANGED <<pairVars, mode, layoutVars, window, flags, plan, unserved, task, dsp,
                   shutdown, commandVars, countVars>>

Publish ==
    /\ control = "publish"
    /\ task # "start"
    /\ unserved' = unserved \ (Served(task, plan) \ stale)
    /\ Goto("resume")
    /\ UNCHANGED <<pairVars, mode, layoutVars, window, flags, plan, stale, task, dsp, shutdown,
                   commandVars, countVars>>

(* The rest of the plan goes on with another pause. *)
Resume ==
    /\ control = "resume"
    /\ dsp' = IF dsp = "parked" THEN "running" ELSE dsp
    /\ IF task = "state" THEN /\ Goto("loop")
                              /\ command' = "none"
                              /\ UNCHANGED <<plan, task>>
       ELSE /\ Dispatch(IF task = "reload" THEN {} ELSE plan \ Served(task, plan))
            /\ UNCHANGED command
    /\ UNCHANGED <<pairVars, mode, layoutVars, window, flags, stale, unserved, shutdown,
                   restored, unresumed, countVars>>

(* The request to run stands, and the worker follows it later. *)
ResumeTimesOut ==
    /\ control = "resume"
    /\ dsp' = IF dsp = "parked" THEN "resuming" ELSE dsp
    /\ \/ task = "state" /\ command' = "none" /\ Goto("loop") /\ UNCHANGED <<task, shutdown>>
       \/ task # "state" /\ Recover /\ UNCHANGED command
    /\ UNCHANGED <<pairVars, mode, layoutVars, window, staleVars, restored, unresumed,
                   countVars>>

(* A step of a transaction fails; a state request gets its error after the resume. *)
StepFails ==
    /\ control \in {"reconcile", "refresh", "capture", "publish", "stop", "deactivate", "inspect",
                    "confirm", "rebuild", "reactivate", "restart_processing", "settle",
                    "enumerate"}
    /\ task # "start"
    /\ control = "publish" => task \in {"reload", "parameters"}
    /\ \/ task = "state" /\ Goto("resume") /\ UNCHANGED <<task, shutdown>>
       \/ task # "state" /\ Recover
    /\ UNCHANGED <<pairVars, mode, layoutVars, window, staleVars, dsp, commandVars, countVars>>

-----------------------------------------------------------------------------
(* run_io_restart_lifecycle and run_latency_restart_transaction: stop, deactivate, for the *)
(* buses negotiate and prepare, activate, query the latency, start, commit.                *)

StopPlugin ==
    /\ \/ /\ control = "stop"
          /\ mode' = IF mode = "processing" THEN "active" ELSE mode
          /\ Goto("deactivate")
       \/ /\ control = "deactivate"
          /\ mode' = "setup"
          /\ Goto(IF task = "latency" THEN "reactivate" ELSE "inspect")
    /\ UNCHANGED <<pairVars, layoutVars, window, staleVars, task, dsp, shutdown, commandVars,
                   countVars>>

(* The arrangement is read, given back to setBusArrangements, which may decline it, and read *)
(* again: the second answer counts.                                                         *)
InspectIo ==
    /\ control = "inspect"
    /\ Goto("confirm")
    /\ UNCHANGED <<pairVars, mode, layoutVars, window, staleVars, task, dsp, shutdown,
                   commandVars, countVars>>

ConfirmIo ==
    /\ control = "confirm"
    /\ arrangement' \in Layouts
    /\ confirmed' = arrangement'
    /\ stale' = stale \ {"io"}
    /\ Goto("rebuild")
    /\ UNCHANGED <<pairVars, mode, prepared, committed, window, flags, plan, unserved, task,
                   dsp, shutdown, commandVars, countVars>>

(* The buses are switched and ProcessData is prepared for what the plug-in says now. *)
RebuildIo ==
    /\ control = "rebuild"
    /\ prepared' = arrangement
    /\ Goto("reactivate")
    /\ UNCHANGED <<pairVars, mode, arrangement, confirmed, committed, window, staleVars, task,
                   dsp, shutdown, commandVars, countVars>>

StartPlugin ==
    /\ \/ /\ control = "reactivate"
          /\ mode' = "active"
          /\ stale' = stale \ {"latency"}
          /\ Goto("restart_processing")
          /\ UNCHANGED <<committed, unresumed>>
       \/ /\ control = "restart_processing"
          /\ mode' = "processing"
          /\ committed' = IF task = "latency" THEN committed ELSE confirmed
          /\ unresumed' = FALSE
          /\ Goto(IF task = "reload" THEN "settle" ELSE "publish")
          /\ UNCHANGED stale
    /\ UNCHANGED <<pairVars, arrangement, confirmed, prepared, window, flags, plan, unserved,
                   task, dsp, shutdown, command, restored, countVars>>

-----------------------------------------------------------------------------
(* capture_state and restore_state.  A restore stops the plug-in, hands the state over and *)
(* starts it again whatever the plug-in answered.                                          *)

Capture ==
    /\ control = "capture"
    /\ Goto(IF task = "reload" THEN "close_editor" ELSE "resume")
    /\ UNCHANGED <<pairVars, mode, layoutVars, window, staleVars, task, dsp, shutdown,
                   commandVars, countVars>>

RestoreSet ==
    /\ \/ control = "restore_stop" /\ mode' = "setup" /\ restored' = TRUE /\ Goto("restore_set")
       \/ control = "restore_set" /\ restored' \in BOOLEAN /\ Goto("restore_activate")
          /\ UNCHANGED mode
    /\ UNCHANGED <<pairVars, layoutVars, window, staleVars, task, dsp, shutdown, command,
                   unresumed, countVars>>

RestoreStart ==
    /\ \/ control = "restore_activate" /\ mode' = "active" /\ Goto("restore_start")
       \/ control = "restore_start" /\ mode' = "processing" /\ Goto("restore_read")
    /\ UNCHANGED <<pairVars, layoutVars, window, staleVars, task, dsp, shutdown, command,
                   restored, unresumed, countVars>>

(* The plug-in runs again: with the restored state its latency and its values are read. *)
RestoreRead ==
    /\ control = "restore_read"
    /\ restored
    /\ stale' = stale \ Served("state", plan)
    /\ Goto(IF task = "reload" THEN "absorb" ELSE "publish")
    /\ unresumed' = FALSE
    /\ UNCHANGED <<pairVars, mode, layoutVars, window, flags, plan, unserved, task, dsp,
                   shutdown, command, restored, countVars>>

RestoreFails ==
    /\ \/ control \in {"restore_activate", "restore_start"}
       \/ control = "restore_read" /\ ~restored
    /\ unresumed' = (mode # "processing")
    /\ \/ task = "state" /\ Goto("resume") /\ UNCHANGED <<task, shutdown>>
       \/ task = "reload" /\ Recover
    /\ UNCHANGED <<pairVars, mode, layoutVars, window, staleVars, dsp, command, restored,
                   countVars>>

-----------------------------------------------------------------------------
(* The reload, and the exit, which close the editor and drop the handler first. *)

(* Mutant: the window outlives the plug-in that drew it. *)
KeepEditor ==
    /\ \/ control = "close_editor" /\ Goto("drop_handler") /\ UNCHANGED handler
       \/ control = "drop_handler" /\ handler' = FALSE /\ Goto("close_mode")
    /\ UNCHANGED <<component, controller, connected, mode, layoutVars, window, staleVars,
                   task, dsp, shutdown, commandVars, countVars>>

CloseEditor ==
    /\ \/ /\ control = "close_editor"
          /\ window' = "none"
                /\ Goto("drop_handler")
          /\ UNCHANGED handler
       \/ /\ control = "drop_handler"
          /\ handler' = FALSE
          /\ Goto("close_mode")
          /\ UNCHANGED window
    /\ UNCHANGED <<component, controller, connected, mode, layoutVars, staleVars, task, dsp,
                   shutdown, commandVars, countVars>>

(* What the new instance asked for while it was restored is part of the regeneration that   *)
(* follows, unless it asks for another reload.                                              *)
Absorb ==
    /\ control = "absorb"
    /\ flags' = {}
    /\ \/ flags \cap {"reload", "unknown"} = {} /\ Goto("stop") /\ UNCHANGED <<task, shutdown>>
       \/ flags \cap {"reload", "unknown"} # {} /\ Recover
    /\ UNCHANGED <<pairVars, mode, layoutVars, window, plan, stale, unserved, dsp,
                   commandVars, countVars>>

(* Edits made during the negotiation are settled, then the catalog is enumerated. *)
Enumerate ==
    /\ \/ control = "settle" /\ Goto("enumerate") /\ UNCHANGED stale
       \/ control = "enumerate" /\ stale' = stale \ {"values", "titles"} /\ Goto("fixed_point")
    /\ UNCHANGED <<pairVars, mode, layoutVars, window, flags, plan, unserved, task, dsp,
                   shutdown, commandVars, countVars>>

(* Mutant: requests made during the regeneration are dropped with it. *)
FixedPointAlways ==
    /\ control = "fixed_point"
    /\ flags' = {}
    /\ Goto("publish")
    /\ UNCHANGED <<pairVars, mode, layoutVars, window, plan, stale, unserved, task, dsp,
                   shutdown, commandVars, countVars>>

FixedPoint ==
    /\ control = "fixed_point"
    /\ flags' = {}
    /\ \/ flags = {} /\ Goto("publish") /\ UNCHANGED <<task, shutdown>>
       \/ flags # {} /\ Recover
    /\ UNCHANGED <<pairVars, mode, layoutVars, window, plan, stale, unserved, dsp,
                   commandVars, countVars>>

(* DspWorker::stop joins the worker. *)
StopDsp ==
    /\ control = "stop_dsp"
    /\ dsp' = "gone"
    /\ Goto("close_editor")
    /\ UNCHANGED <<pairVars, mode, layoutVars, window, staleVars, task, shutdown, commandVars,
                   countVars>>

-----------------------------------------------------------------------------
(* The worker, OBS and the plug-in. *)

LateResume ==
    /\ dsp = "resuming"
    /\ dsp' = "running"
    /\ UNCHANGED <<pairVars, mode, layoutVars, window, staleVars, control, task, shutdown,
                   commandVars, countVars>>

(* A block, a command or a flush that fails ends the worker and asks for recovery; a *)
(* shutdown ends it too.                                                             *)
WorkerEnds ==
    /\ \/ dsp = "running" /\ shutdown' = TRUE
       \/ dsp \in {"running", "parked", "resuming"} /\ shutdown /\ UNCHANGED shutdown
    /\ dsp' = "gone"
    /\ UNCHANGED <<pairVars, mode, layoutVars, window, staleVars, control, task, commandVars,
                   countVars>>

ObsStops ==
    /\ ~shutdown
    /\ shutdown' = TRUE
    /\ UNCHANGED <<pairVars, mode, layoutVars, window, staleVars, control, task, dsp,
                   commandVars, countVars>>

ObsCommands ==
    /\ dsp # "none"
    /\ command = "none"
    /\ commands < MaxCommands
    /\ commands' = commands + 1
    /\ command' \in {"capture", "restore", "open", "hide"}
    /\ UNCHANGED <<pairVars, mode, layoutVars, window, staleVars, control, task, dsp, shutdown,
                   restored, unresumed, requests>>

(* restartComponent, at any time the plug-in has the handler. *)
RequestRestart ==
    /\ handler
    /\ requests < MaxRequests
    /\ requests' = requests + 1
    /\ \E f \in Restarts :
          LET changed == IF f = "reload" THEN Aspects ELSE {f} \cap Aspects IN
          /\ flags' = flags \cup {f}
          /\ stale' = stale \cup changed
          /\ unserved' = unserved \cup changed
          /\ IF "io" \in changed THEN arrangement' \in Layouts ELSE UNCHANGED arrangement
    /\ UNCHANGED <<pairVars, mode, confirmed, prepared, committed, window, plan, control, task,
                   dsp, shutdown, commandVars, commands>>

-----------------------------------------------------------------------------
Open == OpenComponent \/ OpenController \/ OpenHandler \/ OpenConnection \/ OpenBuses \/ OpenSetup
        \/ OpenActivateBuses \/ OpenPrepare \/ OpenRun \/ OpenFails
Close == CloseMode \/ CloseHooks \/ CloseTerminate \/ CloseRelease \/ CloseEditor \/ StopDsp
Loop == PublishFirst \/ LeaveLoop \/ Turn \/ TakeRestart
Coordinate == Pause \/ PauseTimesOut \/ Reconcile \/ Refresh \/ Publish \/ Resume \/ ResumeTimesOut
              \/ StepFails
Restart == StopPlugin \/ InspectIo \/ ConfirmIo \/ RebuildIo \/ StartPlugin
State == Capture \/ RestoreSet \/ RestoreStart \/ RestoreRead \/ RestoreFails
Reload == Absorb \/ Enumerate \/ FixedPoint

Control == Open \/ Close \/ Loop \/ Coordinate \/ Restart \/ State \/ Reload
Environment == UserHides \/ ObsStops \/ ObsCommands \/ RequestRestart

Next == Control \/ LateResume \/ WorkerEnds \/ Environment

Spec == Init /\ [][Next]_vars

(* The control thread never blocks for good: every wait of it has a timeout. *)
FairSpec == Spec /\ WF_vars(Control) /\ WF_vars(LateResume)

-----------------------------------------------------------------------------
Steps == OpenSteps \cup
    {"activate_buses", "publish", "loop", "restart", "pause", "reconcile", "refresh", "capture", "resume",
     "stop", "deactivate", "inspect", "confirm", "rebuild", "reactivate", "restart_processing",
     "restore_stop", "restore_set", "restore_activate", "restore_start", "restore_read", "absorb",
     "settle", "enumerate", "fixed_point", "stop_dsp", "close_editor", "drop_handler",
     "close_mode", "close_hooks", "terminate_component", "terminate_controller", "release",
     "exited"}

(* The type of the state; once the control thread has left the helper nothing is held open. *)
TypeOK ==
    /\ component \in {"none", "created", "initialized", "terminated"}
    /\ controller \in {"none", "component", "created", "initialized", "terminated"}
    /\ handler \in BOOLEAN
    /\ connected \in SUBSET {"component", "controller"}
    /\ mode \in {"off", "setup", "active", "processing"}
    /\ arrangement \in Layouts
    /\ {confirmed, prepared, committed} \subseteq Layouts \cup {"none"}
    /\ window \in {"none", "hidden", "visible"}
    /\ flags \in SUBSET Restarts
    /\ plan \in SUBSET Restarts
    /\ stale \in SUBSET Aspects
    /\ unserved \in SUBSET Aspects
    /\ control \in Steps
    /\ task \in {"start", "reload", "io", "parameters", "latency", "state", "exit"}
    /\ dsp \in {"none", "running", "parked", "resuming", "gone"}
    /\ shutdown \in BOOLEAN
    /\ command \in {"none", "capture", "restore", "open", "hide"}
    /\ restored \in BOOLEAN
    /\ unresumed \in BOOLEAN
    /\ requests \in 0 .. MaxRequests
    /\ commands \in 0 .. MaxCommands
    /\ control = "exited" =>
          /\ {component, controller, window} = {"none"}
          /\ connected = {} /\ ~handler /\ dsp \in {"none", "gone"}

(* The worker runs blocks only on a plug-in that is processing, with the buses it was        *)
(* prepared for and the channel counts that process() uses: no transaction lets it go while  *)
(* the plug-in is half restarted.  The exceptions are what the code accepts: a plug-in that  *)
(* a failed restore could not start again, and buses the plug-in asks to change.             *)
BlocksOnWholePlugin ==
    dsp = "running" =>
        /\ mode = "processing" \/ unresumed
        /\ "io" \in stale \/ {committed, arrangement} = {prepared}

(* A restart the plug-in asked for is neither lost between the flag, the plan and the        *)
(* transactions that absorb one another, nor dropped at the fixed point of a reload: what    *)
(* changed is still to be served, or the helper is being replaced.                           *)
NoRequestLost ==
    \A a \in unserved :
        \/ shutdown
        \/ task \in {"start", "exit"}
        \/ {a, "reload"} \cap (flags \cup plan) # {}

(* The transactions keep the order a VST3 plug-in may rely on, however they fail. *)
Pair == INSTANCE PluginPair WITH view <- window # "none"
PairKept == Pair!Spec

(* Whatever the plug-in asks for, everything it changed is read and published again and *)
(* again, or the helper is replaced.                                                  *)
RestartsServed == []<>(unserved = {} \/ shutdown \/ task = "exit")

-----------------------------------------------------------------------------
(* The inductive invariant.                                                                 *)

Opened == OpenSteps \cup {"activate_buses"}
Restoring == {"restore_stop", "restore_set", "restore_activate", "restore_start", "restore_read"}
Regenerating == {"absorb", "settle", "enumerate", "fixed_point"}
Negotiating == {"inspect", "confirm", "rebuild"}
Restarting == {"stop", "deactivate", "reactivate", "restart_processing"} \cup Negotiating
Closing == {"close_editor", "drop_handler", "close_mode", "close_hooks", "terminate_component",
            "terminate_controller", "release"}
Tasks == {"reload", "io", "parameters", "latency", "state"}

(* Which transactions come by a step of the control thread. *)
TaskInv ==
    /\ control \in Opened => task \in {"start", "reload"}
    /\ control \in {"loop", "restart"} => task = "state"
    /\ control \in {"pause", "resume"} => task \in Tasks
    /\ control = "reconcile" => task \in Tasks \ {"latency"}
    /\ control = "refresh" => task = "parameters"
    /\ control = "publish" => task \in Tasks \cup {"start"}
    /\ control \in {"capture"} \cup Restoring => task \in {"reload", "state"}
    /\ control \in Restarting => task \in {"reload", "io", "latency"}
    /\ control \in Negotiating => task # "latency"
    /\ control \in Regenerating => task = "reload"
    /\ control \in Closing => task \in {"reload", "exit"}
    /\ control \in {"stop_dsp", "exited"} => task = "exit"

(* A transaction is the first of what is left of the plan. *)
PlanInv ==
    /\ "unknown" \notin plan
    /\ task \in Tasks => task = NextTask(plan)
    /\ task = "start" => plan = {}

(* The pair as open leaves it. *)
Whole ==
    /\ component = "initialized"
    /\ controller \in {"none", "component", "initialized"}
    /\ handler = (controller # "none")
    /\ connected \in {{}, {"component", "controller"}}
    /\ connected # {} => controller = "initialized"

Played == {"loop", "restart", "pause", "reconcile", "refresh", "capture", "resume", "publish"}
Running == Played \cup Restoring \cup Restarting \cup Regenerating

(* What exists of the pair at each step of open and close. *)
ObjectsInv ==
    /\ control \in Running \cup {"buses", "setup", "activate_buses", "prepare", "activate", "start"} => Whole
    /\ window # "none" => Whole /\ controller # "none"
    /\ control \in Opened \cup (Closing \ {"close_editor"}) \cup {"exited"} => window = "none"
    /\ task = "start" => window = "none"
    /\ control \in {"load", "create"} => component = "none"
    /\ control = "initialize" => component = "created"
    /\ control \in {"controller", "controller_initialize", "handler", "connect_component",
                    "connect_controller", "sync"} => component = "initialized"
    /\ control \in {"load", "create", "initialize", "controller"} => controller = "none"
    /\ control = "controller_initialize" => controller = "created"
    /\ control = "handler" => controller \in {"component", "initialized"}
    /\ control \in {"connect_component", "connect_controller", "sync"} => controller = "initialized" /\ handler
    /\ control \in {"load", "create", "initialize", "controller", "controller_initialize", "handler"} => ~handler
    /\ control \in {"load", "create", "initialize", "controller", "controller_initialize", "handler",
                    "connect_component"} => connected = {}
    /\ control = "connect_controller" => connected = {"component"}
    /\ control = "sync" => connected \in {{}, {"component", "controller"}}
    /\ control \in {"terminate_component", "terminate_controller", "release", "exited"} =>
          ~handler /\ connected = {}
    /\ control \in {"terminate_controller", "release"} => component # "initialized"
    /\ control = "release" => controller # "initialized"
    /\ control = "exited" => component = "none" /\ controller = "none"

(* How far the plug-in runs at each step. *)
ModeInv ==
    /\ mode # "off" => component = "initialized"
    /\ control \in {"buses", "setup"} => mode = "off"
    /\ control \in {"activate_buses", "prepare", "activate", "restore_set", "restore_activate",
                    "reactivate"} \cup Negotiating => mode = "setup"
    /\ control \in {"start", "restore_start", "restart_processing"} => mode = "active"
    /\ control \in {"restore_read", "absorb", "settle", "enumerate", "fixed_point"} => mode = "processing"
    /\ control = "deactivate" => mode \in {"setup", "active"}
    /\ control \in {"stop", "restore_stop"} => mode # "off"
    /\ control \in {"close_hooks", "terminate_component"} => mode \in {"off", "setup"}
    /\ control \in {"controller", "controller_initialize", "handler", "connect_component",
                    "connect_controller", "sync", "exited"} => mode = "off"
    /\ control \in Played => mode # "off" /\ (mode = "processing" \/ unresumed)

(* The worker is parked while a transaction is at work on the plug-in. *)
DspInv ==
    /\ task = "start" => dsp = "none"
    /\ task = "exit" /\ control # "stop_dsp" => dsp \in {"none", "gone"}
    /\ control \in {"loop", "restart", "pause"} => dsp \in {"running", "resuming", "gone"}
    /\ task \in Tasks /\ control \notin {"loop", "restart", "pause"} => dsp \in {"parked", "gone"}
    /\ dsp \in {"running", "resuming"} => mode = "processing" \/ unresumed

(* The buses: read, committed and prepared for. *)
Matched == {committed, arrangement} = {prepared}
BusInv ==
    \/ "io" \in stale
    \/ /\ control \in {"setup", "activate_buses", "prepare"} => {confirmed, committed} = {arrangement}
       /\ control = "rebuild" => confirmed = arrangement
       /\ control \in {"reactivate", "restart_processing"} =>
             IF task = "latency" THEN Matched ELSE {confirmed, prepared} = {arrangement}
       /\ control \in Played \cup Restoring \cup {"activate", "start", "absorb", "stop", "deactivate",
                                                 "settle", "enumerate", "fixed_point"} => Matched
       /\ dsp \in {"running", "resuming"} => Matched

(* What a transaction has read and what is stale again has been asked for again; what it has *)
(* published and is unserved again, too.                                                     *)
Asked(a) == {a, "reload"} \cap flags # {}
Settled(aspects) == \A a \in aspects \cap stale : Asked(a)
ReadInv ==
    /\ task = "start" =>
          /\ control \in {"setup", "activate_buses", "prepare", "activate", "start", "publish"} =>
                Settled({"values", "titles", "io"})
          /\ control \in {"start", "publish"} => Settled({"latency"})
    /\ task \in {"io", "reload"} /\ control \in {"rebuild", "reactivate"} => Settled({"io"})
    /\ control \in {"restart_processing", "settle", "enumerate", "fixed_point", "publish"} =>
          /\ task \in {"io", "reload"} => Settled({"io"})
          /\ task \in {"io", "reload", "latency"} => Settled({"latency"})
    /\ control \in {"fixed_point", "publish"} /\ task = "reload" => Settled({"values", "titles"})
    /\ control = "publish" /\ task = "parameters" => Settled(Served(task, plan))
    /\ control = "resume" /\ task # "state" => \A a \in Served(task, plan) \cap unserved : Asked(a)

LifecycleInv ==
    /\ TypeOK
    /\ TaskInv
    /\ PlanInv
    /\ ObjectsInv
    /\ ModeInv
    /\ DspInv
    /\ BusInv
    /\ ReadInv
    /\ NoRequestLost
=============================================================================
