--------------------------- MODULE HostParameters ---------------------------
(***************************************************************************)
(* The way of parameter values through the Single Host helper               *)
(* (host/main.cpp, hosted_plugin.cpp, win_ipc.cpp).  A value is written by  *)
(*   - a slider of OBS, into the pending half of its descriptor,            *)
(*   - the vendor window, through performEdit on the control thread,        *)
(*   - the plug-in itself, as an output parameter of a process call,        *)
(* and must reach four places: the edit controller, the processor, the      *)
(* mirror of the engine, and the value OBS shows.  Two bounded rings join   *)
(* the control thread and the DSP worker; what they have no room for waits  *)
(* in NativeOverrideBuffer, or makes the control thread copy the mirror     *)
(* while the worker is paused.  The pause protocol itself is in HostAudio;  *)
(* here a pause is granted by a parked worker and may time out, and a       *)
(* worker still parked from a pause given up grants the next one.           *)
(*                                                                          *)
(* The controller is the vendor's and may refuse a value.  Of an edit the   *)
(* refusal is an error; of a value handed back to it, it is discarded, and  *)
(* OBS is shown the value all the same.                                     *)
(*                                                                          *)
(* A value is the number of the write that made it.                         *)
(***************************************************************************)
EXTENDS Naturals, FiniteSets, Sequences

CONSTANTS
    Params,           \* parameter identities
    None,             \* no value
    MaxWrites,        \* writes in a behaviour
    RingCapacity,     \* kParameterTransferCapacity of the rings,
    OverrideCapacity, \* and of the override buffer
    CatchUpPasses     \* kMaxPausedHostCatchupPasses

ASSUME ParameterAssumption ==
    /\ IsFiniteSet(Params) /\ MaxWrites \in Nat /\ None \notin (0 .. MaxWrites) \cup Params
    /\ RingCapacity \in Nat \ {0} /\ OverrideCapacity \in Nat \ {0} /\ CatchUpPasses \in Nat \ {0}

Values == 0 .. MaxWrites
Updates == [id : Params, value : Values]

VARIABLES
    descriptor, \* of each parameter: [value, pending, applied, current] in the region
    obs,        \* OBS in set_parameter: the parameter whose value it has stored, or None
    controller, \* the values of the edit controller
    refused,    \* history: the parameters the controller has refused to take back
    engine,     \* HostedPlugin: [processor, mirror, queued, updates]
    to_dsp,     \* control_to_dsp
    to_control, \* dsp_to_control
    resync,     \* feedback_resync_required
    overrides,  \* NativeOverrideBuffer: the value kept for each parameter
    shutdown,   \* shutdown_requested, also by request_consistency_recovery
    wants_pause,\* the requested transition of the worker
    dsp,        \* the next step of DspWorker::run
    processed,  \* processed_any
    control,    \* the control thread: [at, why, native_failed, todo, read, generation, pass]
    writes,
    late        \* whether a pause has timed out

regionVars == <<descriptor, shutdown>>
ringVars == <<to_dsp, to_control, resync>>
controllerVars == <<controller, refused>>
vars == <<descriptor, obs, controllerVars, engine, to_dsp, to_control, resync, overrides, shutdown,
          wants_pause, dsp, processed, control, writes, late>>

NoValues == [p \in Params |-> None]
Zero == [p \in Params |-> 0]
Top == [at |-> "top", why |-> "none", native_failed |-> FALSE, todo |-> {}, read |-> NoValues,
        generation |-> 0, pass |-> 0]

Maybe == Values \cup {None}
Descriptors == [value : Values, pending : Values, applied : Values, current : Values]
Engines == [processor : [Params -> Values], mirror : [Params -> Values],
            queued : [Params -> Maybe], updates : [Params -> Maybe]]

\* The next step of the worker, the last three while it settles for a pause.
Settled == {"settled", "confirm", "parked"}
Steps == {"wait", "feedback", "drain", "flushed"} \cup Settled

\* Where the control thread is: at a reconciled frontier, behind a granted
\* pause, asking for one.
Frontier == {"catch_up", "acknowledge", "capture"}
Granted == {"paused"} \cup Frontier
Pausing == {"pausing"} \cup Granted
Places == {"top", "pump", "publish", "resuming", "host", "apply", "show", "tail"} \cup Pausing
Reasons == {"none", "resync", "native", "state"}
Controls == [at : Places, why : Reasons, native_failed : BOOLEAN, todo : SUBSET Params,
             read : [Params -> Maybe], generation : Values, pass : 0 .. CatchUpPasses]

Kept == {p \in Params : overrides[p] # None}

TypeOK ==
    /\ descriptor \in [Params -> Descriptors] /\ obs \in Params \cup {None}
    /\ controller \in [Params -> Values] /\ refused \in SUBSET Params /\ engine \in Engines
    /\ to_dsp \in Seq(Updates) /\ Len(to_dsp) <= RingCapacity
    /\ to_control \in Seq(Updates) /\ Len(to_control) <= RingCapacity
    /\ resync \in BOOLEAN /\ shutdown \in BOOLEAN /\ wants_pause \in BOOLEAN /\ processed \in BOOLEAN
    /\ overrides \in [Params -> Maybe] /\ Cardinality(Kept) <= OverrideCapacity
    /\ dsp \in Steps /\ control \in Controls
    /\ writes \in 0 .. MaxWrites /\ late \in BOOLEAN

Init ==
    /\ descriptor = [p \in Params |-> [value |-> 0, pending |-> 0, applied |-> 0, current |-> 0]]
    /\ obs = None
    /\ controller = Zero /\ refused = {}
    /\ engine = [processor |-> Zero, mirror |-> Zero, queued |-> NoValues, updates |-> NoValues]
    /\ to_dsp = <<>> /\ to_control = <<>> /\ resync = FALSE
    /\ overrides = NoValues /\ shutdown = FALSE /\ wants_pause = FALSE
    /\ dsp = "wait" /\ processed = FALSE
    /\ control = Top /\ writes = 0 /\ late = FALSE

Write == writes < MaxWrites /\ writes' = writes + 1

-----------------------------------------------------------------------------
(***************************************************************************)
(* HostedPlugin                                                             *)
(***************************************************************************)
Either(new, old) == [p \in Params |-> IF new[p] # None THEN new[p] ELSE old[p]]

\* queue_processor_parameter, of several parameters: mirrored at once and
\* recorded as an update, delivered with the next process call.
Queued(e, values) ==
    [e EXCEPT !.mirror = Either(values, @), !.updates = Either(values, @), !.queued = Either(values, @)]

\* One process call, in which the plug-in changes the parameters of own itself.
Processed(e, own) ==
    [processor |-> Either(own, Either(e.queued, e.processor)),
     mirror |-> Either(own, e.mirror),
     updates |-> Either(own, e.updates),
     queued |-> NoValues]

\* The plug-in changes one parameter in a call, or none.
OwnWrite(own) == IF own = NoValues THEN UNCHANGED writes ELSE Write
OwnChanges == {NoValues} \cup {[NoValues EXCEPT ![p] = writes + 1] : p \in Params}

\* flush_parameter_changes: a process call without samples, if anything is queued.
Flushed(given) ==
    IF given.queued = NoValues
    THEN engine' = given /\ UNCHANGED writes
    ELSE \E own \in OwnChanges : OwnWrite(own) /\ engine' = Processed(given, own)

Shown(values) ==   \* publish_parameter_value
    [p \in Params |-> [descriptor[p] EXCEPT !.current = IF values[p] # None THEN values[p] ELSE @]]

\* What a sequence of updates leaves, but for the parameters of kept.
LastOf(updates, kept) ==
    [p \in Params |->
       LET mine == {i \in 1 .. Len(updates) : updates[i].id = p}
       IN IF p \in kept \/ mine = {} THEN None
          ELSE updates[CHOOSE i \in mine : \A j \in mine : j <= i].value]

-----------------------------------------------------------------------------
(***************************************************************************)
(* OBS: set_parameter stores the value, then advances the generation        *)
(***************************************************************************)
StoreValue(p) ==
    /\ obs = None /\ Write
    /\ descriptor' = [descriptor EXCEPT ![p].value = writes + 1]
    /\ obs' = p
    /\ UNCHANGED <<controllerVars, engine, ringVars, overrides, shutdown, wants_pause, dsp, processed, control, late>>

AdvanceGeneration ==
    /\ obs # None
    /\ descriptor' = [descriptor EXCEPT ![obs].pending = @ + 1]
    /\ obs' = None
    /\ UNCHANGED <<controllerVars, engine, ringVars, overrides, shutdown, wants_pause, dsp, processed,
                   control, writes, late>>

-----------------------------------------------------------------------------
(***************************************************************************)
(* DspWorker::run                                                           *)
(***************************************************************************)
dspOnly == <<obs, controllerVars, overrides, wants_pause, control, late>>

\* A block is processed; its updates follow.
DspBlock ==
    /\ dsp = "wait" /\ ~wants_pause /\ ~shutdown
    /\ \E own \in OwnChanges : OwnWrite(own) /\ engine' = Processed(engine, own)
    /\ processed' = TRUE
    /\ dsp' = "feedback"
    /\ UNCHANGED <<dspOnly, regionVars, ringVars>>

\* A wake-up without a block.
DspWake ==
    /\ dsp = "wait" /\ ~wants_pause /\ ~shutdown /\ to_dsp # <<>>
    /\ dsp' = "drain"
    /\ UNCHANGED <<dspOnly, descriptor, shutdown, engine, ringVars, processed, writes>>

\* enqueue_processor_feedback: shown to OBS at once, and sent to the control
\* thread while the ring has room, else the mirror must be copied.
Feedback ==
    /\ dsp \in {"feedback", "flushed", "settled"}
    /\ \E p \in Params : engine.updates[p] # None
    /\ LET p == CHOOSE q \in Params : engine.updates[q] # None
           v == engine.updates[p]
       IN /\ descriptor' = [descriptor EXCEPT ![p].current = v]
          /\ engine' = [engine EXCEPT !.updates[p] = None]
          /\ IF Len(to_control) < RingCapacity
             THEN to_control' = Append(to_control, [id |-> p, value |-> v]) /\ UNCHANGED resync
             ELSE resync' = TRUE /\ UNCHANGED to_control
    /\ UNCHANGED <<dspOnly, shutdown, to_dsp, dsp, processed, writes>>

FeedbackDone ==
    /\ dsp \in {"feedback", "flushed", "settled"} /\ engine.updates = NoValues
    /\ dsp' = CASE dsp = "feedback" -> "drain" [] dsp = "flushed" -> "wait" [] dsp = "settled" -> "confirm"
    /\ processed' = (dsp = "feedback")
    /\ UNCHANGED <<dspOnly, regionVars, engine, ringVars, writes>>

\* drain_processor_commands, and a zero-sample flush when no block was there to
\* take the changes along.
DspDrain ==
    /\ dsp = "drain"
    /\ LET given == Queued(engine, LastOf(to_dsp, {}))
       IN IF to_dsp # <<>> /\ ~processed
          THEN Flushed(given) /\ dsp' = "flushed"
          ELSE engine' = given /\ dsp' = "wait" /\ UNCHANGED writes
    /\ to_dsp' = <<>> /\ processed' = FALSE
    /\ UNCHANGED <<dspOnly, regionVars, to_control, resync>>

\* Before it parks the worker drains, flushes and sends the feedback.
Settle ==
    /\ dsp = "wait" /\ wants_pause /\ ~shutdown
    /\ Flushed(Queued(engine, LastOf(to_dsp, {})))
    /\ to_dsp' = <<>>
    /\ dsp' = "settled"
    /\ UNCHANGED <<dspOnly, regionVars, to_control, resync, processed>>

Park ==
    /\ dsp = "confirm"
    /\ dsp' = IF wants_pause THEN "parked" ELSE "wait"
    /\ UNCHANGED <<dspOnly, descriptor, shutdown, engine, ringVars, processed, writes>>

Unpark ==
    /\ dsp = "parked" /\ ~wants_pause
    /\ dsp' = "wait"
    /\ UNCHANGED <<dspOnly, descriptor, shutdown, engine, ringVars, processed, writes>>

\* A call of the plug-in fails: the helper is given up.
DspFails ==
    /\ dsp \in {"wait", "drain"} /\ ~shutdown
    /\ shutdown' = TRUE
    /\ UNCHANGED <<dspOnly, descriptor, engine, ringVars, dsp, processed, writes>>

Worker ==
    \/ DspBlock \/ DspWake \/ Feedback \/ FeedbackDone \/ DspDrain
    \/ Settle \/ Park \/ Unpark \/ DspFails

-----------------------------------------------------------------------------
(***************************************************************************)
(* The control thread                                                       *)
(***************************************************************************)
At(place) == control.at = place
Goes(place) == control' = [control EXCEPT !.at = place]
controlOnly == <<obs, wants_pause, dsp, processed, late>>

\* What the controller may hold of a parameter when the last value is handed to
\* it: the edit it has taken, or else what it had or was handed by the ring.
Held(edits) ==
    [p \in Params |->
       IF edits[p] # None THEN {edits[p]}
       ELSE {controller[p]} \cup {to_control[i].value : i \in {j \in 1 .. Len(to_control) : to_control[j].id = p}}]

\* set_controller_parameter of each of the values, its result discarded: the
\* controller takes the value or stays with one of held.
HandBack(values, held) ==
    /\ controller' \in {c \in [Params -> Values] : \A p \in Params : c[p] = values[p] \/ c[p] \in held[p]}
    /\ refused' = {p \in Params : IF values[p] # None THEN controller'[p] # values[p] ELSE p \in refused}

\* drain_controller_feedback, and the form that spares the kept parameters.
DrainFeedback(kept) ==
    LET heard == LastOf(to_control, kept)
    IN /\ HandBack(heard, Held([p \in Params |-> IF p \in kept THEN controller[p] ELSE None]))
       /\ descriptor' = Shown(heard)
       /\ to_control' = <<>>

\* sync_engine_mirror_to_controller, from the engine e, after the edits.
SyncMirror(e, edits) ==
    /\ HandBack(e.mirror, Held(edits))
    /\ descriptor' = [p \in Params |-> [descriptor[p] EXCEPT !.current = e.mirror[p]]]

\* The head of the loop: feedback is taken, and a lost one asks for a pause.
TopDrain ==
    /\ At("top") /\ ~shutdown
    /\ DrainFeedback(Kept)
    /\ IF Kept = {} /\ resync
       THEN wants_pause' = TRUE /\ control' = [control EXCEPT !.at = "pausing", !.why = "resync"]
       ELSE UNCHANGED wants_pause /\ Goes("pump")
    /\ UNCHANGED <<late, obs, dsp, processed, engine, to_dsp, resync, overrides, shutdown, writes>>

\* performEdit, from the messages of the vendor window: the controller has the
\* value already.  What the ring has no room for is kept; so is every later
\* edit of a kept parameter.
PerformEdit(p) ==
    /\ At("pump") /\ Write
    /\ controller' = [controller EXCEPT ![p] = writes + 1] /\ refused' = refused \ {p}
    /\ IF p \notin Kept /\ Len(to_dsp) < RingCapacity
       THEN /\ to_dsp' = Append(to_dsp, [id |-> p, value |-> writes + 1])
            /\ UNCHANGED <<overrides, shutdown>>
       ELSE /\ UNCHANGED to_dsp
            /\ IF p \in Kept \/ Cardinality(Kept) < OverrideCapacity
               THEN overrides' = [overrides EXCEPT ![p] = writes + 1] /\ UNCHANGED shutdown
               ELSE shutdown' = TRUE /\ UNCHANGED overrides
    /\ control' = [control EXCEPT !.at = "publish", !.read = [NoValues EXCEPT ![p] = writes + 1]]
    /\ UNCHANGED <<controlOnly, descriptor, engine, to_control, resync>>

\* The worker may have answered before the value is shown.
PublishEdit ==
    /\ At("publish")
    /\ descriptor' = Shown(control.read)
    /\ control' = [control EXCEPT !.at = "pump", !.read = NoValues]
    /\ UNCHANGED <<controlOnly, controllerVars, engine, ringVars, overrides, shutdown, writes>>

\* Kept edits ask for a pause at once; then it is the turn of the sliders.
PumpDone ==
    /\ At("pump")
    /\ IF Kept # {}
       THEN wants_pause' = TRUE /\ control' = [control EXCEPT !.at = "pausing", !.why = "native"]
       ELSE UNCHANGED wants_pause /\ control' = [control EXCEPT !.at = "host", !.todo = Params]
    /\ UNCHANGED <<late, obs, dsp, processed, descriptor, controllerVars, engine, ringVars, overrides, shutdown, writes>>

PauseGranted ==
    /\ At("pausing") /\ dsp = "parked"
    /\ Goes("paused")
    /\ UNCHANGED <<controlOnly, descriptor, controllerVars, engine, ringVars, overrides, shutdown, writes>>

\* Where the loop goes on after a pause, granted or not.
AfterPause(failed) ==
    [control EXCEPT !.at = CASE control.why = "resync" -> "pump"
                              [] control.why = "native" -> "host"
                              [] control.why = "state" -> "tail",
                    !.why = "none", !.pass = 0, !.read = NoValues, !.generation = 0,
                    !.todo = IF control.why = "native" THEN Params ELSE {},
                    !.native_failed = failed]
Resumes == wants_pause' = FALSE /\ Goes("resuming")

\* The worker has taken the request to run, or two seconds have passed.
ResumeEnds ==
    /\ At("resuming")
    /\ \/ dsp # "parked" /\ control' = AfterPause(control.native_failed) /\ UNCHANGED late
       \/ late' = TRUE /\ control' = AfterPause(control.why = "native")
    /\ UNCHANGED <<obs, wants_pause, dsp, processed, descriptor, controllerVars, engine, ringVars, overrides, shutdown, writes>>

PauseTimesOut ==
    /\ At("pausing")
    /\ wants_pause' = FALSE /\ control' = AfterPause(control.why = "native")
    /\ late' = TRUE
    /\ UNCHANGED <<obs, dsp, processed, descriptor, controllerVars, engine, ringVars, overrides, shutdown, writes>>

\* reconcile_controller_feedback_after_pause: after an overflow the mirror is
\* the truth.
ReconcileFeedback ==
    /\ At("paused") /\ control.why \in {"resync", "state"} /\ Kept = {}
    /\ IF resync
       THEN SyncMirror(engine, NoValues) /\ to_control' = <<>>
       ELSE DrainFeedback({})
    /\ resync' = FALSE
    /\ IF control.why = "resync" THEN Resumes ELSE UNCHANGED wants_pause /\ Goes("catch_up")
    /\ UNCHANGED <<late, obs, dsp, processed, engine, to_dsp, overrides, shutdown, writes>>

\* reconcile_native_edits_after_pause: the kept edits go straight to both
\* halves, and what the plug-in makes of them back to the controller.
ReconcileNative ==
    /\ At("paused") /\ Kept # {}
    /\ Flushed(Queued(engine, overrides))
    /\ SyncMirror(engine', overrides)
    /\ to_control' = <<>> /\ resync' = FALSE /\ overrides' = NoValues
    /\ IF control.why = "native" THEN Resumes ELSE UNCHANGED wants_pause /\ Goes("catch_up")
    /\ UNCHANGED <<late, obs, dsp, processed, to_dsp, shutdown>>

\* At the frontier the controller refuses an edit, or the flush fails: the helper
\* is given up.  What went to the plug-in before is left out: nothing is captured
\* after it.
FrontierFails ==
    /\ \/ At("paused") /\ Kept # {}
       \/ At("catch_up") /\ \E p \in Params : descriptor[p].pending # descriptor[p].applied
    /\ shutdown' = TRUE
    /\ wants_pause' = FALSE
    /\ control' = [control EXCEPT !.at = "resuming", !.native_failed = (control.why = "native")]
    /\ UNCHANGED <<late, obs, dsp, processed, descriptor, controllerVars, engine, ringVars, overrides, writes>>

\* The sliders, one parameter after the other: the generation is read before
\* the value ...
HostRead(p) ==
    /\ At("host") /\ p \in control.todo
    /\ control' = IF descriptor[p].pending = descriptor[p].applied
                  THEN [control EXCEPT !.todo = @ \ {p}]
                  ELSE [control EXCEPT !.todo = @ \ {p}, !.at = "apply", !.generation = descriptor[p].pending,
                                       !.read = [NoValues EXCEPT ![p] = 0]]
    /\ UNCHANGED <<controlOnly, descriptor, controllerVars, engine, ringVars, overrides, shutdown, writes>>

Reading(p) == control.read[p] # None

\* Mutant: the value is pushed whether there is room or not.
HostApplyBlind(p) ==
    /\ At("apply") /\ Reading(p)
    /\ LET v == descriptor[p].value
       IN /\ controller' = [controller EXCEPT ![p] = v] /\ refused' = refused \ {p}
          /\ to_dsp' = Append(to_dsp, [id |-> p, value |-> v])
          /\ control' = [control EXCEPT !.at = "show", !.read[p] = v]
    /\ UNCHANGED <<controlOnly, descriptor, engine, to_control, resync, overrides, shutdown, writes>>

\* ... which goes to the controller, and then to the worker ...
HostApply(p) ==
    /\ At("apply") /\ Reading(p) /\ Len(to_dsp) < RingCapacity
    /\ LET v == descriptor[p].value
       IN /\ controller' = [controller EXCEPT ![p] = v] /\ refused' = refused \ {p}
          /\ to_dsp' = Append(to_dsp, [id |-> p, value |-> v])
          /\ control' = [control EXCEPT !.at = "show", !.read[p] = v]
    /\ UNCHANGED <<controlOnly, descriptor, engine, to_control, resync, overrides, shutdown, writes>>

\* ... unless the controller refuses it or, the controller having taken it, the
\* ring is full: then it stays pending for the next pass ...
HostApplyLater(p) ==
    /\ At("apply") /\ Reading(p)
    /\ \/ UNCHANGED controllerVars
       \/ /\ Len(to_dsp) = RingCapacity
          /\ controller' = [controller EXCEPT ![p] = descriptor[p].value] /\ refused' = refused \ {p}
    /\ control' = [control EXCEPT !.at = "host", !.read = NoValues, !.generation = 0]
    /\ UNCHANGED <<controlOnly, descriptor, engine, ringVars, overrides, shutdown, writes>>

\* Mutant: the generation of now is acknowledged.
HostShowNewest(p) ==
    /\ At("show") /\ Reading(p)
    /\ descriptor' = [descriptor EXCEPT ![p].current = control.read[p], ![p].applied = descriptor[p].pending]
    /\ control' = [control EXCEPT !.at = "host", !.read = NoValues, !.generation = 0]
    /\ UNCHANGED <<controlOnly, controllerVars, engine, ringVars, overrides, shutdown, writes>>

\* ... and is shown and acknowledged when it is on its way.
HostShow(p) ==
    /\ At("show") /\ Reading(p)
    /\ descriptor' = [descriptor EXCEPT ![p].current = control.read[p], ![p].applied = control.generation]
    /\ control' = [control EXCEPT !.at = "host", !.read = NoValues, !.generation = 0]
    /\ UNCHANGED <<controlOnly, controllerVars, engine, ringVars, overrides, shutdown, writes>>

\* After the sliders OBS may have asked for the state; a kept edit that could
\* not be reconciled refuses it.
NoStateRequest ==
    /\ At("host") /\ control.todo = {}
    /\ control' = [control EXCEPT !.at = "tail", !.native_failed = FALSE]
    /\ UNCHANGED <<controlOnly, descriptor, controllerVars, engine, ringVars, overrides, shutdown, writes>>

StateRequest ==
    /\ At("host") /\ control.todo = {} /\ ~control.native_failed
    /\ wants_pause' = TRUE
    /\ control' = [control EXCEPT !.at = "pausing", !.why = "state"]
    /\ UNCHANGED <<late, obs, dsp, processed, descriptor, controllerVars, engine, ringVars, overrides, shutdown, writes>>

\* catch_up_pending_host_parameters_after_pause: what OBS wrote meanwhile goes
\* straight to both halves ...
CatchUp ==
    /\ At("catch_up")
    /\ LET behind == {p \in Params : descriptor[p].pending # descriptor[p].applied}
           values == [p \in Params |-> IF p \in behind THEN descriptor[p].value ELSE None]
       IN IF behind = {}
          THEN Goes("capture") /\ UNCHANGED <<engine, controllerVars, descriptor, writes>>
          ELSE /\ Flushed(Queued(engine, values))
               /\ SyncMirror(engine', values)
               /\ control' = [control EXCEPT !.at = "acknowledge", !.pass = @ + 1,
                                !.read = [p \in Params |-> IF p \in behind THEN descriptor[p].pending ELSE None]]
    /\ UNCHANGED <<controlOnly, ringVars, overrides, shutdown>>

\* ... and is acknowledged; after too many passes the request is refused.
CatchUpAcknowledge ==
    /\ At("acknowledge")
    /\ descriptor' = [p \in Params |-> [descriptor[p] EXCEPT !.applied = IF Reading(p) THEN control.read[p] ELSE @]]
    /\ LET settled == \A p \in Params : descriptor'[p].pending = descriptor'[p].applied
       IN IF settled \/ control.pass < CatchUpPasses
          THEN /\ UNCHANGED wants_pause
               /\ control' = [control EXCEPT !.at = IF settled THEN "capture" ELSE "catch_up", !.read = NoValues]
          ELSE Resumes
    /\ UNCHANGED <<late, obs, dsp, processed, controllerVars, engine, ringVars, overrides, shutdown, writes>>

\* handle_state_command reads both halves of the plug-in.
Capture ==
    /\ At("capture")
    /\ Resumes
    /\ UNCHANGED <<late, obs, dsp, processed, descriptor, controllerVars, engine, ringVars, overrides, shutdown, writes>>

TailDrain ==
    /\ At("tail")
    /\ DrainFeedback(Kept)
    /\ control' = Top
    /\ UNCHANGED <<controlOnly, engine, to_dsp, resync, overrides, shutdown, writes>>

Control ==
    \/ TopDrain
    \/ \E p \in Params : PerformEdit(p) \/ HostRead(p) \/ HostApply(p) \/ HostApplyLater(p) \/ HostShow(p)
    \/ PublishEdit \/ PumpDone \/ PauseGranted \/ PauseTimesOut \/ ResumeEnds
    \/ ReconcileFeedback \/ ReconcileNative \/ FrontierFails
    \/ NoStateRequest \/ StateRequest \/ CatchUp \/ CatchUpAcknowledge \/ Capture \/ TailDrain

Next ==
    \/ \E p \in Params : StoreValue(p)
    \/ AdvanceGeneration \/ Worker \/ Control

Spec == Init /\ [][Next]_vars

-----------------------------------------------------------------------------
(***************************************************************************)
(* Properties                                                               *)
(***************************************************************************)
\* Nothing is on its way any more.
Quiet ==
    /\ At("top") /\ ~shutdown /\ obs = None /\ dsp \in {"wait", "parked"}
    /\ to_dsp = <<>> /\ to_control = <<>> /\ ~resync /\ Kept = {}
    /\ engine.queued = NoValues /\ engine.updates = NoValues
    /\ \A p \in Params : descriptor[p].pending = descriptor[p].applied

\* The controller agrees with the processor but for the parameters it has
\* refused; what saves and shows them, the mirror, agrees for all.
BothHalves ==
    /\ engine.mirror = engine.processor
    /\ \A p \in Params \ refused : controller[p] = engine.processor[p]

\* However the slider, the vendor window and the plug-in interleave, and
\* whichever ring overflows, the four places hold one value of each parameter
\* once nothing is on its way, but for a controller that refused the last value
\* it was handed back; and the value is not older than the slider's, unless a
\* pause has timed out and left an older edit of the vendor window to be
\* reconciled after it.  A slider's value the controller refuses stays on its
\* way.  A captured state never has halves that disagree, with the same
\* exception, and unless a command is left on the ring, as by a pause granted
\* from the late answer to an earlier one.
ValuesSettle ==
    /\ Quiet => /\ BothHalves
                /\ \A p \in Params :
                     /\ descriptor[p].current = engine.processor[p]
                     /\ late \/ engine.processor[p] >= descriptor[p].value
    /\ At("capture") /\ to_dsp = <<>> => BothHalves
-----------------------------------------------------------------------------
(***************************************************************************)
(* The inductive invariant                                                  *)
(***************************************************************************)
\* The mirror is what the processor will hold after the queue, and an update
\* not yet sent repeats the mirror.
Coherent(e) ==
    \A p \in Params :
      /\ e.mirror[p] = IF e.queued[p] # None THEN e.queued[p] ELSE e.processor[p]
      /\ e.updates[p] # None => e.updates[p] = e.mirror[p]

EngineInv ==
    /\ Coherent(engine)
    /\ dsp = "confirm" => engine.updates = NoValues
    /\ dsp \in Settled => engine.queued = NoValues

\* A generation the control thread has read is one OBS has advanced to and
\* nobody has acknowledged.
GenerationInv ==
    /\ \A p \in Params :
         /\ descriptor[p].applied <= descriptor[p].pending
         /\ descriptor[p].pending <= writes /\ descriptor[p].value <= writes
         /\ obs = p => descriptor[p].pending < writes
         /\ control.at \in {"apply", "show"} /\ Reading(p) =>
              /\ descriptor[p].applied < control.generation
              /\ control.generation <= descriptor[p].pending
         /\ At("acknowledge") /\ Reading(p) =>
              descriptor[p].applied <= control.read[p] /\ control.read[p] <= descriptor[p].pending
    /\ control.at \in {"apply", "show"} =>
         \A p, q \in Params : Reading(p) /\ Reading(q) => p = q

\* What the control thread knows while it asks for a pause, and behind one.
PauseInv ==
    /\ wants_pause <=> control.at \in Pausing
    /\ control.at \in Granted => dsp = "parked"
    /\ control.at \in Frontier => to_control = <<>> /\ ~resync /\ Kept = {} /\ control.why = "state"
    /\ control.at \in {"pausing", "paused"} =>
         /\ control.why = "resync" => Kept = {}
         /\ control.why = "native" => Kept # {}
    /\ control.at \in {"pausing", "paused", "resuming"} => control.why # "none"
    /\ control.at \notin Frontier \cup {"resuming"} => control.pass = 0
    /\ At("catch_up") => control.pass < CatchUpPasses

Sent(p) == LastOf(to_dsp, {})[p]
Heard(p) == LastOf(to_control, {})[p]

\* An update of p the worker has yet to show and send.
Delivering(p) == engine.updates[p] # None /\ dsp # "parked"

\* Nothing about p is on its way between the halves, and no edit was given up.
Still(p) ==
    /\ Sent(p) = None /\ Heard(p) = None /\ ~Delivering(p) /\ ~resync
    /\ overrides[p] = None /\ ~(shutdown /\ Kept # {})

Acknowledged(p) == descriptor[p].pending = descriptor[p].applied

\* The last update on its way to the controller is the mirror's, unless a newer
\* one follows.
HeardMirror(p) == ~Delivering(p) /\ ~resync /\ Heard(p) # None => Heard(p) = engine.mirror[p]

\* What is still is the same everywhere.
StillAgrees(p) ==
    /\ Still(p) /\ Acknowledged(p) /\ p \notin refused => controller[p] = engine.mirror[p]
    /\ Still(p) => descriptor[p].current = engine.mirror[p]

\* A value yet to be shown is still on its way.
ShownOnTheWay(p) == control.at \in {"publish", "show"} /\ Reading(p) => ~Still(p)

FlowInv == \A p \in Params : HeardMirror(p) /\ StillAgrees(p) /\ ShownOnTheWay(p)

CaptureInv == At("acknowledge") \/ (At("capture") /\ to_dsp = <<>>) =>
                \A p \in Params \ refused : controller[p] = engine.mirror[p]

\* The value of p that the processor ends with, as far as the control thread
\* has sent it.
Newest(p) ==
    IF overrides[p] # None THEN overrides[p] ELSE IF Sent(p) # None THEN Sent(p) ELSE engine.mirror[p]

\* Where the two threads are together, as long as no pause times out.
HandshakeInv ==
    ~late /\ ~shutdown =>
      /\ Kept # {} => \/ control.at \in {"pump", "publish"}
                      \/ control.at \in {"pausing", "paused"} /\ control.why = "native"
      /\ dsp \in {"settled", "confirm"} => At("pausing")
      /\ dsp = "parked" => control.at \in Pausing \cup {"resuming"}
      /\ dsp \in Settled => to_dsp = <<>>

\* The slider's value is acknowledged, or will be by the step that follows.
Answered(p) ==
    \/ Acknowledged(p)
    \/ At("show") /\ Reading(p) /\ descriptor[p].pending = control.generation
    \/ At("acknowledge") /\ Reading(p) /\ descriptor[p].pending = control.read[p]

NewestInv ==
    ~late /\ ~shutdown => \A p \in Params : obs # p /\ Answered(p) => descriptor[p].value <= Newest(p)

ParameterInv ==
    /\ TypeOK /\ EngineInv /\ GenerationInv /\ PauseInv
    /\ FlowInv /\ CaptureInv /\ HandshakeInv /\ NewestInv
=============================================================================
