----------------------------- MODULE RackBridge -----------------------------
(***************************************************************************)
(* The Rack filter of OBS and its helper process: obs-plugin/rack_filter.cpp*)
(* owns a WinRackBridge (win_rack_bridge.cpp) whose shared region carries   *)
(* one audio block at a time to the helper, and whose events ask the helper *)
(* to save the session.  The helper (main_r3_4_persistent.cpp) answers with *)
(* a DSP thread and a command worker that share one plug-in through the     *)
(* edit ring and the capture gate of rack_hosted_plugin.hpp.                *)
(*                                                                          *)
(* Both gates are built alike: one side raises a flag with a release store  *)
(* and then reads a counter, the other counts itself in and reads the flag. *)
(* On x86 the store may wait in the store buffer of its thread while the    *)
(* counter is read, so each raised flag has a buffered and a visible value. *)
(*                                                                          *)
(* Audio and state are abstract: a block is its number, and the state of    *)
(* the plug-in is the number of the last edit that reached it.              *)
(***************************************************************************)
EXTENDS Integers, Sequences

CONSTANTS
    MaxBlocks,     \* audio callbacks in a behaviour
    MaxGeneration, \* LONG_MAX, where the request numbers wrap to 1
    MaxEdits,      \* edits made in the vendor window
    MaxSaves,      \* session saves OBS asks for
    EditCapacity,  \* kControllerEditQueueCapacity
    DrainAttempts  \* kDestroyDrainAttempts

ASSUME BoundsAssumption ==
    /\ MaxBlocks \in Nat /\ MaxEdits \in Nat /\ MaxSaves \in Nat
    /\ MaxGeneration \in Nat \ {0, 1} /\ EditCapacity \in Nat \ {0} /\ DrainAttempts \in Nat \ {0}

Torn == MaxBlocks + 1   \* a buffer being written
Samples == 0 .. Torn

VARIABLES
    bridge,       \* RackFilter::bridge: "none", "starting", "live" or "stopped"
    gate,         \* RackFilter::shutting_down: [stored, visible]
    audio_readers,\* RackFilter::audio_readers
    mutex,        \* who holds bridge_mutex: "free", "save" or "destroy"
    audio,        \* the OBS audio thread: [at, block, own, slipped]
    pending,      \* pending_request_generation_
    next_request, \* next_request_generation_
    heard,        \* whether every block delivered was the answer to the block sent
    destroyer,    \* the thread in rack_destroy: [at, attempts]
    saver,        \* the thread in rack_save: [at, told, wanted, saves]
    region,       \* RackSharedAudioRegion
    events,       \* the named events that are set
    process,      \* the helper process: "none", "running" or "exited"
    dsp,          \* dsp_loop: [at, request, value, drained, ok, slipped]
    worker,       \* the command worker: [at, ok]
    plugin,       \* RackHostedPlugin and its two halves
    stored        \* the session file: [controller, processor, failed]

obsVars == <<bridge, gate, audio_readers, mutex, audio, pending, next_request, heard, destroyer, saver>>
helperVars == <<process, dsp, worker, plugin, stored>>
vars == <<bridge, gate, audio_readers, mutex, audio, pending, next_request, heard, destroyer, saver,
          region, events, process, dsp, worker, plugin, stored>>

NoRegion == [status |-> "booting", shutdown |-> FALSE, request |-> 0, response |-> 0,
             result |-> "ok", save_result |-> "idle", input |-> 0, output |-> 0]

NewPlugin == [controller |-> 0, processor |-> 0, ring |-> <<>>, submitted |-> 0, applied |-> 0,
              resync |-> FALSE, failed |-> FALSE, calls |-> 0,
              capture |-> [stored |-> FALSE, visible |-> FALSE]]

NewDsp == [at |-> "wait", request |-> 0, value |-> 0, drained |-> 0, ok |-> TRUE, slipped |-> FALSE]

NewWorker == [at |-> "boot", ok |-> FALSE]

Init ==
    /\ bridge = "none"
    /\ gate = [stored |-> FALSE, visible |-> FALSE]
    /\ audio_readers = 0
    /\ mutex = "free"
    /\ audio = [at |-> "out", block |-> 0, own |-> 0, slipped |-> FALSE]
    /\ pending = 0
    /\ next_request = 1
    /\ heard = TRUE
    /\ destroyer = [at |-> "creating", attempts |-> 0]
    /\ saver = [at |-> "idle", told |-> "none", wanted |-> 0, saves |-> 0]
    /\ region = NoRegion
    /\ events = {}
    /\ process = "none"
    /\ dsp = NewDsp
    /\ worker = NewWorker
    /\ plugin = NewPlugin
    /\ stored = [controller |-> 0, processor |-> 0, failed |-> FALSE]

----------------------------------------------------------------------------
(* rack_create and the life of the process.                                *)

(* start maps the region, creates the events and launches the helper.      *)
Launch ==
    /\ destroyer.at = "creating" /\ bridge = "none"
    /\ bridge' = "starting"
    /\ process' = "running"
    /\ region' = NoRegion
    /\ UNCHANGED <<gate, audio_readers, mutex, audio, pending, next_request, heard, destroyer,
                   saver, events, dsp, worker, plugin, stored>>

(* No session path, no helper or a failed Win32 call: the filter exists     *)
(* without a bridge and stays dry.                                          *)
LaunchFails ==
    /\ destroyer.at = "creating" /\ bridge = "none"
    /\ destroyer' = [destroyer EXCEPT !.at = "idle"]
    /\ UNCHANGED <<bridge, gate, audio_readers, mutex, audio, pending, next_request, heard, saver,
                   region, events, helperVars>>

(* The threads and the memory of the helper end with its process.           *)
ProcessEnds ==
    /\ process' = "exited"
    /\ dsp' = NewDsp
    /\ worker' = NewWorker
    /\ plugin' = NewPlugin
    /\ UNCHANGED stored

(* The helper publishes Ready over an empty rack, or Error, and then sets   *)
(* the ready event; the saved rack is restored later.                       *)
Boot(status) ==
    /\ process = "running" /\ worker.at = "boot"
    /\ region' = [region EXCEPT !.status = status]
    /\ events' = events \cup {"ready"}
    /\ IF status = "ready"
         THEN worker' = [worker EXCEPT !.at = "poll"] /\ UNCHANGED <<process, dsp, plugin, stored>>
         ELSE ProcessEnds
    /\ UNCHANGED obsVars

Started ==
    /\ bridge = "starting" /\ "ready" \in events /\ region.status = "ready"
    /\ bridge' = "live"
    /\ destroyer' = [destroyer EXCEPT !.at = "idle"]
    /\ pending' = 0 /\ next_request' = 1
    /\ UNCHANGED <<gate, audio_readers, mutex, audio, heard, saver, region, events, helperVars>>

(* Startup timed out, the helper exited, or it reported an error: the       *)
(* process is ended and the bridge is dropped.                              *)
StartFails ==
    /\ bridge = "starting"
    /\ "ready" \in events => region.status # "ready"
    /\ bridge' = "none"
    /\ ProcessEnds
    /\ region' = NoRegion
    /\ events' = {}
    /\ destroyer' = [destroyer EXCEPT !.at = "idle"]
    /\ UNCHANGED <<gate, audio_readers, mutex, audio, pending, next_request, heard, saver>>

(* A crash of the helper, in a plug-in or by the system.                    *)
HelperDies ==
    /\ process = "running"
    /\ ProcessEnds
    /\ UNCHANGED <<obsVars, region, events>>

(* Both threads have left their loops and the process returns.              *)
HelperExits ==
    /\ process = "running" /\ dsp.at = "exited" /\ worker.at = "exited"
    /\ ProcessEnds
    /\ region' = [region EXCEPT !.status = "shutting_down"]
    /\ UNCHANGED <<obsVars, events>>

Running == bridge = "live" /\ process = "running" /\ region.status = "ready"

----------------------------------------------------------------------------
(* The OBS audio thread: rack_filter_audio and WinRackBridge::process.      *)

FilterExists == destroyer.at \notin {"creating", "unloaded"}

AudioEnters ==
    /\ FilterExists /\ audio.at = "out" /\ audio.block < MaxBlocks
    /\ audio_readers' = audio_readers + 1
    /\ audio' = [audio EXCEPT !.at = "counted", !.block = audio.block + 1]
    /\ UNCHANGED <<bridge, gate, mutex, pending, next_request, heard, destroyer, saver, region, events, helperVars>>

(* Mutant: a reader that meets the gate forgets to count itself out.        *)
AudioGateLeaks ==
    /\ audio.at = "counted"
    /\ audio' = [audio EXCEPT !.at = IF gate.visible THEN "out" ELSE "inside",
                              !.slipped = ~gate.visible /\ gate.stored]
    /\ UNCHANGED <<bridge, gate, audio_readers, mutex, pending, next_request, heard, destroyer, saver,
                   region, events, helperVars>>

(* The guard re-reads the flag after it has counted itself in.              *)
AudioGate ==
    /\ audio.at = "counted"
    /\ IF gate.visible
         THEN /\ audio_readers' = audio_readers - 1
              /\ audio' = [audio EXCEPT !.at = "out"]
         ELSE /\ audio' = [audio EXCEPT !.at = "inside", !.slipped = gate.stored]
              /\ UNCHANGED audio_readers
    /\ UNCHANGED <<bridge, gate, mutex, pending, next_request, heard, destroyer, saver, region, events, helperVars>>

Outside == [audio EXCEPT !.at = "out", !.own = 0, !.slipped = FALSE]

(* No bridge, a dead or unready helper, or the answer to an earlier block   *)
(* still missing: the block stays dry.                                      *)
AudioDry ==
    /\ audio.at = "inside"
    /\ ~Running \/ (pending # 0 /\ region.response # pending)
    /\ bridge # "stopped"
    /\ audio' = Outside
    /\ audio_readers' = audio_readers - 1
    /\ UNCHANGED <<bridge, gate, mutex, pending, next_request, heard, destroyer, saver, region, events, helperVars>>

NextRequest(g) == IF g >= MaxGeneration THEN 1 ELSE g + 1

(* The earlier request is retired and the block is copied into the region.  *)
AudioWrites ==
    /\ audio.at = "inside" /\ Running
    /\ pending # 0 => region.response = pending
    /\ pending' = 0
    /\ next_request' = NextRequest(next_request)
    /\ audio' = [audio EXCEPT !.at = "writing", !.own = next_request]
    /\ region' = [region EXCEPT !.input = Torn]
    /\ UNCHANGED <<bridge, gate, audio_readers, mutex, heard, destroyer, saver, events, helperVars>>

AudioRequests ==
    /\ audio.at = "writing" /\ bridge = "live"
    /\ pending' = audio.own
    /\ region' = [region EXCEPT !.input = audio.block, !.request = audio.own]
    /\ events' = events \cup {"request"}
    /\ audio' = [audio EXCEPT !.at = "waiting"]
    /\ UNCHANGED <<bridge, gate, audio_readers, mutex, next_request, heard, destroyer, saver, helperVars>>

(* The answer arrives within the deadline; its output replaces the block    *)
(* when the helper processed it.                                            *)
AudioDelivers ==
    /\ audio.at = "waiting" /\ bridge = "live"
    /\ region.response = audio.own
    /\ heard' = (heard /\ (region.result = "ok" => region.output = audio.block))
    /\ pending' = 0
    /\ audio' = Outside
    /\ audio_readers' = audio_readers - 1
    /\ UNCHANGED <<bridge, gate, mutex, next_request, destroyer, saver, region, events, helperVars>>

(* Mutant: a missed deadline forgets the request.                           *)
AudioMissesAndForgets ==
    /\ audio.at = "waiting" /\ bridge = "live"
    /\ audio' = Outside
    /\ audio_readers' = audio_readers - 1
    /\ pending' = 0
    /\ UNCHANGED <<bridge, gate, mutex, next_request, heard, destroyer, saver, region, events, helperVars>>

(* The deadline passes: the block stays dry and the request stays pending.  *)
AudioMisses ==
    /\ audio.at = "waiting" /\ bridge = "live"
    /\ audio' = Outside
    /\ audio_readers' = audio_readers - 1
    /\ UNCHANGED <<bridge, gate, mutex, pending, next_request, heard, destroyer, saver, region, events, helperVars>>

(* The region was unmapped under the audio thread.                          *)
AudioFaults ==
    /\ audio.at \in {"inside", "writing", "waiting"} /\ bridge = "stopped"
    /\ audio' = [audio EXCEPT !.at = "faulted"]
    /\ UNCHANGED <<bridge, gate, audio_readers, mutex, pending, next_request, heard, destroyer, saver,
                   region, events, helperVars>>

AudioStep ==
    \/ AudioEnters
    \/ AudioGate
    \/ AudioDry
    \/ AudioWrites
    \/ AudioRequests
    \/ AudioDelivers
    \/ AudioMisses
    \/ AudioFaults

----------------------------------------------------------------------------
(* rack_destroy and module_unload.                                          *)

DestroyBegins ==
    /\ destroyer.at = "idle"
    /\ gate' = [gate EXCEPT !.stored = TRUE]
    /\ destroyer' = [destroyer EXCEPT !.at = "drain"]
    /\ UNCHANGED <<bridge, audio_readers, mutex, audio, pending, next_request, heard, saver, region, events, helperVars>>

(* The processor writes the buffered flag to memory.                        *)
GateBecomesVisible ==
    /\ gate.stored /\ ~gate.visible
    /\ gate' = [gate EXCEPT !.visible = TRUE]
    /\ UNCHANGED <<bridge, audio_readers, mutex, audio, pending, next_request, heard, destroyer, saver,
                   region, events, helperVars>>

Drained ==
    /\ destroyer.at = "drain" /\ audio_readers = 0
    /\ destroyer' = [destroyer EXCEPT !.at = "lock"]
    /\ UNCHANGED <<bridge, gate, audio_readers, mutex, audio, pending, next_request, heard, saver,
                   region, events, helperVars>>

(* A reader is inside: sleep (which empties the store buffer) and look      *)
(* again; after the last attempt the live bridge is parked for the unload.  *)
DrainRetries ==
    /\ destroyer.at = "drain" /\ audio_readers # 0 /\ gate.visible
    /\ destroyer' = IF destroyer.attempts + 1 < DrainAttempts
                      THEN [destroyer EXCEPT !.attempts = @ + 1]
                      ELSE [destroyer EXCEPT !.at = "retired"]
    /\ UNCHANGED <<bridge, gate, audio_readers, mutex, audio, pending, next_request, heard, saver,
                   region, events, helperVars>>

(* stop: the shutdown flag and every event, under the bridge mutex, whose   *)
(* locked instruction empties the store buffer.                             *)
StopSignals ==
    /\ destroyer.at = "lock" /\ mutex = "free"
    /\ gate' = [gate EXCEPT !.visible = TRUE]
    /\ IF bridge = "live"
         THEN /\ mutex' = "destroy"
              /\ region' = [region EXCEPT !.shutdown = TRUE]
              /\ events' = events \cup {"request"}
              /\ destroyer' = [destroyer EXCEPT !.at = "stopping"]
         ELSE /\ destroyer' = [destroyer EXCEPT !.at = "retired"]
              /\ UNCHANGED <<mutex, region, events>>
    /\ UNCHANGED <<bridge, audio_readers, audio, pending, next_request, heard, saver, helperVars>>

Unmap ==
    /\ ProcessEnds
    /\ bridge' = "stopped"
    /\ pending' = 0
    /\ region' = NoRegion
    /\ events' = {}

(* The helper exits in time or is terminated; then the region is unmapped.  *)
StopEnds ==
    /\ destroyer.at = "stopping"
    /\ Unmap
    /\ mutex' = "free"
    /\ destroyer' = [destroyer EXCEPT !.at = "retired"]
    /\ UNCHANGED <<gate, audio_readers, audio, next_request, heard, saver>>

(* OBS unloads the module after the last callback has returned; a bridge    *)
(* that could not be drained is stopped by its destructor.                  *)
ModuleUnload ==
    /\ destroyer.at = "retired" /\ audio.at = "out" /\ saver.at = "idle"
    /\ destroyer' = [destroyer EXCEPT !.at = "unloaded"]
    /\ IF bridge = "live" THEN Unmap
                          ELSE UNCHANGED <<bridge, pending, region, events, helperVars>>
    /\ UNCHANGED <<gate, audio_readers, mutex, audio, next_request, heard, saver>>

DestroyStep ==
    \/ DestroyBegins
    \/ GateBecomesVisible
    \/ Drained
    \/ DrainRetries
    \/ StopSignals
    \/ StopEnds
    \/ ModuleUnload

----------------------------------------------------------------------------
(* rack_save and WinRackBridge::save_session.                               *)

SaveBegins ==
    /\ FilterExists /\ saver.at = "idle" /\ ~gate.visible /\ saver.saves < MaxSaves
    /\ saver' = [saver EXCEPT !.at = "lock", !.saves = @ + 1, !.told = "none", !.wanted = 0]
    /\ UNCHANGED <<bridge, gate, audio_readers, mutex, audio, pending, next_request, heard, destroyer,
                   region, events, helperVars>>

(* Mutant: the completion of an earlier request is left set.                *)
SaveRequestsOverOld ==
    /\ saver.at = "lock" /\ mutex = "free" /\ Running
    /\ mutex' = "save"
    /\ events' = events \cup {"save"}
    /\ saver' = [saver EXCEPT !.at = "wait", !.wanted = plugin.controller]
    /\ UNCHANGED <<bridge, gate, audio_readers, audio, pending, next_request, heard, destroyer, region, helperVars>>

(* The completion of an earlier request is forgotten before the new one is  *)
(* asked for.                                                               *)
SaveRequests ==
    /\ saver.at = "lock" /\ mutex = "free" /\ Running
    /\ mutex' = "save"
    /\ events' = (events \ {"saved"}) \cup {"save"}
    /\ saver' = [saver EXCEPT !.at = "wait", !.wanted = plugin.controller]
    /\ UNCHANGED <<bridge, gate, audio_readers, audio, pending, next_request, heard, destroyer, region, helperVars>>

SaveRefused ==
    /\ saver.at = "lock" /\ mutex = "free" /\ ~Running
    /\ saver' = [saver EXCEPT !.at = "idle"]
    /\ UNCHANGED <<bridge, gate, audio_readers, mutex, audio, pending, next_request, heard, destroyer,
                   region, events, helperVars>>

SaveAnswered ==
    /\ saver.at = "wait" /\ "saved" \in events
    /\ events' = events \ {"saved"}
    /\ saver' = [saver EXCEPT !.at = "idle", !.told = region.save_result,
                             !.wanted = IF region.save_result = "ok" THEN @ ELSE 0]
    /\ mutex' = "free"
    /\ UNCHANGED <<bridge, gate, audio_readers, audio, pending, next_request, heard, destroyer, region, helperVars>>

(* The second passes, or the helper is gone.                                *)
SaveGivesUp ==
    /\ saver.at = "wait"
    /\ saver' = [saver EXCEPT !.at = "idle", !.wanted = 0]
    /\ mutex' = "free"
    /\ UNCHANGED <<bridge, gate, audio_readers, audio, pending, next_request, heard, destroyer, region, events, helperVars>>

SaveStep ==
    \/ SaveBegins
    \/ SaveRequests
    \/ SaveRefused
    \/ SaveAnswered
    \/ SaveGivesUp

----------------------------------------------------------------------------
(* The DSP thread of the helper: dsp_loop over RackHostedPlugin::process.   *)

(* One wake is one request.                                                 *)
DspTakes ==
    /\ process = "running" /\ dsp.at = "wait" /\ worker.at # "boot"
    /\ "request" \in events /\ ~region.shutdown
    /\ events' = events \ {"request"}
    /\ dsp' = [dsp EXCEPT !.at = "count", !.request = region.request]
    /\ UNCHANGED <<obsVars, region, process, worker, plugin, stored>>

DspShutdown ==
    /\ process = "running" /\ dsp.at = "wait" /\ region.shutdown
    /\ dsp' = [dsp EXCEPT !.at = "exited"]
    /\ UNCHANGED <<obsVars, region, events, process, worker, plugin, stored>>

Refused == [dsp EXCEPT !.at = "output", !.ok = FALSE, !.drained = 0]

(* DspVendorCallGuard: look, count in, look again.                          *)
DspCounts ==
    /\ process = "running" /\ dsp.at = "count"
    /\ IF plugin.capture.visible
         THEN dsp' = Refused /\ UNCHANGED plugin
         ELSE /\ plugin' = [plugin EXCEPT !.calls = @ + 1]
              /\ dsp' = [dsp EXCEPT !.at = "recheck"]
    /\ UNCHANGED <<obsVars, region, events, process, worker, stored>>

(* Mutant: the flag is not read again after counting in.                    *)
DspGateTrusts ==
    /\ process = "running" /\ dsp.at = "recheck"
    /\ dsp' = [dsp EXCEPT !.at = "read"]
    /\ UNCHANGED <<obsVars, region, events, process, worker, plugin, stored>>

DspGate ==
    /\ process = "running" /\ dsp.at = "recheck"
    /\ IF plugin.capture.visible
         THEN dsp' = Refused /\ plugin' = [plugin EXCEPT !.calls = @ - 1]
         ELSE /\ dsp' = [dsp EXCEPT !.at = "read", !.slipped = plugin.capture.stored]
              /\ UNCHANGED plugin
    /\ UNCHANGED <<obsVars, region, events, process, worker, stored>>

(* The vendor call reads the block; the drained edits reach the processor   *)
(* when it succeeds.                                                        *)
DspReads(ok) ==
    /\ process = "running" /\ dsp.at = "read"
    /\ dsp' = [dsp EXCEPT !.at = "applied", !.value = region.input, !.ok = ok, !.drained = Len(plugin.ring)]
    /\ plugin' = [plugin EXCEPT !.ring = <<>>,
                                !.processor = IF ok /\ plugin.ring # <<>>
                                                THEN plugin.ring[Len(plugin.ring)] ELSE @]
    /\ UNCHANGED <<obsVars, region, events, process, worker, stored>>

(* finish_controller_delivery counts the edits as applied ...               *)
DspApplies ==
    /\ process = "running" /\ dsp.at = "applied"
    /\ plugin' = [plugin EXCEPT !.applied = @ + dsp.drained]
    /\ dsp' = [dsp EXCEPT !.at = "leave"]
    /\ UNCHANGED <<obsVars, region, events, process, worker, stored>>

(* ... and only then records that the delivery failed, for good: from then  *)
(* on every block of the plug-in is reported as failed.                     *)
DspLeaves ==
    /\ process = "running" /\ dsp.at = "leave"
    /\ plugin' = [plugin EXCEPT !.failed = @ \/ ~dsp.ok, !.calls = @ - 1]
    /\ dsp' = [dsp EXCEPT !.at = "output", !.ok = @ /\ ~plugin.failed, !.slipped = FALSE]
    /\ UNCHANGED <<obsVars, region, events, process, worker, stored>>

(* copy_current_output, or the dry input after an error.                    *)
DspOutputs ==
    /\ process = "running" /\ dsp.at = "output"
    /\ region' = [region EXCEPT !.output = IF dsp.ok THEN dsp.value ELSE region.input,
                                !.result = IF dsp.ok THEN "ok" ELSE "error"]
    /\ dsp' = [dsp EXCEPT !.at = "respond"]
    /\ UNCHANGED <<obsVars, events, process, worker, plugin, stored>>

DspResponds ==
    /\ process = "running" /\ dsp.at = "respond"
    /\ region' = [region EXCEPT !.response = dsp.request]
    /\ dsp' = NewDsp
    /\ UNCHANGED <<obsVars, events, process, worker, plugin, stored>>

DspStep ==
    \/ DspTakes
    \/ DspShutdown
    \/ DspCounts
    \/ DspGate
    \/ \E ok \in BOOLEAN : DspReads(ok)
    \/ DspApplies
    \/ DspLeaves
    \/ DspOutputs
    \/ DspResponds

----------------------------------------------------------------------------
(* The command worker of the helper: the vendor window, the commands and    *)
(* the capture of the session.                                              *)

(* performEdit: the edit enters the ring, or a full ring asks for a resync. *)
Edit ==
    /\ process = "running" /\ worker.at = "poll" /\ plugin.controller < MaxEdits
    /\ LET edited == [plugin EXCEPT !.controller = @ + 1]
       IN plugin' = IF Len(plugin.ring) < EditCapacity
                      THEN [edited EXCEPT !.ring = Append(@, edited.controller), !.submitted = @ + 1]
                      ELSE [edited EXCEPT !.resync = TRUE]
    /\ UNCHANGED <<obsVars, region, events, process, dsp, worker, stored>>

(* service_component_handler_callbacks: the resync copies the controller's  *)
(* value into the ring once there is room.                                  *)
Resync ==
    /\ process = "running" /\ worker.at \in {"poll", "sync"}
    /\ plugin.resync /\ Len(plugin.ring) < EditCapacity
    /\ plugin' = [plugin EXCEPT !.ring = Append(@, plugin.controller), !.submitted = @ + 1, !.resync = FALSE]
    /\ UNCHANGED <<obsVars, region, events, process, dsp, worker, stored>>

TakeSave ==
    /\ process = "running" /\ worker.at = "poll" /\ "save" \in events
    /\ events' = events \ {"save"}
    /\ worker' = [worker EXCEPT !.at = "sync"]
    /\ UNCHANGED <<obsVars, region, process, dsp, plugin, stored>>

(* The capture is over, for better or worse: OBS is answered.               *)
Captured(ok) == [at |-> "answer", ok |-> ok]

(* synchronize_component_handler_state reads the failure flag first ...     *)
SyncLooks ==
    /\ process = "running" /\ worker.at = "sync"
    /\ worker' = IF plugin.failed THEN Captured(FALSE) ELSE [worker EXCEPT !.at = "compare"]
    /\ UNCHANGED <<obsVars, region, events, process, dsp, plugin, stored>>

(* ... then compares the edits applied with the edits submitted; when all   *)
(* have been applied the capture raises its gate.                           *)
SyncCompares ==
    /\ process = "running" /\ worker.at = "compare"
    /\ IF ~plugin.resync /\ plugin.applied >= plugin.submitted
         THEN /\ plugin' = [plugin EXCEPT !.capture.stored = TRUE]
              /\ worker' = [worker EXCEPT !.at = "drain"]
         ELSE /\ worker' = [worker EXCEPT !.at = "sync"]
              /\ UNCHANGED plugin
    /\ UNCHANGED <<obsVars, region, events, process, dsp, stored>>

SyncTimesOut ==
    /\ process = "running" /\ worker.at = "sync"
    /\ plugin.resync \/ plugin.applied < plugin.submitted
    /\ worker' = Captured(FALSE)
    /\ UNCHANGED <<obsVars, region, events, process, dsp, plugin, stored>>

CaptureBecomesVisible ==
    /\ process = "running" /\ plugin.capture.stored /\ ~plugin.capture.visible
    /\ plugin' = [plugin EXCEPT !.capture.visible = TRUE]
    /\ UNCHANGED <<obsVars, region, events, process, dsp, worker, stored>>

CaptureDrained ==
    /\ process = "running" /\ worker.at = "drain" /\ plugin.calls = 0
    /\ worker' = [worker EXCEPT !.at = "capture"]
    /\ UNCHANGED <<obsVars, region, events, process, dsp, plugin, stored>>

NoCapture == [stored |-> FALSE, visible |-> FALSE]

DrainTimesOut ==
    /\ process = "running" /\ worker.at = "drain" /\ plugin.calls # 0
    /\ plugin' = [plugin EXCEPT !.capture = NoCapture]
    /\ worker' = Captured(FALSE)
    /\ UNCHANGED <<obsVars, region, events, process, dsp, stored>>

(* getState of both halves, and the write of the session file, which may    *)
(* fail and then keeps the old one.                                         *)
Capture(ok) ==
    /\ process = "running" /\ worker.at = "capture"
    /\ stored' = IF ok THEN [controller |-> plugin.controller, processor |-> plugin.processor,
                             failed |-> plugin.failed]
                       ELSE stored
    /\ plugin' = [plugin EXCEPT !.capture = NoCapture]
    /\ worker' = Captured(ok)
    /\ UNCHANGED <<obsVars, region, events, process, dsp>>

AnswerSave ==
    /\ process = "running" /\ worker.at = "answer"
    /\ region' = [region EXCEPT !.save_result = IF worker.ok THEN "ok" ELSE "failed"]
    /\ events' = events \cup {"saved"}
    /\ worker' = [worker EXCEPT !.at = "poll", !.ok = FALSE]
    /\ UNCHANGED <<obsVars, process, dsp, plugin, stored>>

WorkerShutdown ==
    /\ process = "running" /\ worker.at = "poll" /\ region.shutdown
    /\ worker' = [worker EXCEPT !.at = "exited"]
    /\ UNCHANGED <<obsVars, region, events, process, dsp, plugin, stored>>

WorkerStep ==
    \/ Edit
    \/ Resync
    \/ TakeSave
    \/ SyncLooks
    \/ SyncCompares
    \/ SyncTimesOut
    \/ CaptureBecomesVisible
    \/ CaptureDrained
    \/ DrainTimesOut
    \/ \E ok \in BOOLEAN : Capture(ok)
    \/ AnswerSave
    \/ WorkerShutdown

(* After a fault of the audio thread OBS is gone.                           *)
Next ==
  /\ audio.at # "faulted"
  /\ \/ Launch
     \/ LaunchFails
     \/ \E status \in {"ready", "error"} : Boot(status)
     \/ Started
     \/ StartFails
     \/ HelperDies
     \/ HelperExits
     \/ AudioStep
     \/ DestroyStep
     \/ SaveStep
     \/ DspStep
     \/ WorkerStep

Spec == Init /\ [][Next]_vars

----------------------------------------------------------------------------
(* Properties.                                                              *)

(* The state has the types of the code: the readers the audio thread counts *)
(* in are balanced, and the plug-in never counts more than one vendor call. *)
TypeOK ==
    /\ bridge \in {"none", "starting", "live", "stopped"}
    /\ audio_readers \in 0 .. 1
    /\ mutex \in {"free", "save", "destroy"}
    /\ audio \in [at : {"out", "counted", "inside", "writing", "waiting", "faulted"},
                  block : 0 .. MaxBlocks, own : 0 .. MaxGeneration, slipped : BOOLEAN]
    /\ pending \in 0 .. MaxGeneration /\ next_request \in 1 .. MaxGeneration
    /\ destroyer.at \in {"creating", "idle", "drain", "lock", "stopping", "retired", "unloaded"}
    /\ destroyer.attempts < DrainAttempts
    /\ saver.at \in {"idle", "lock", "wait"} /\ saver.told \in {"none", "ok", "failed"}
    /\ region.input \in Samples /\ region.output \in Samples
    /\ events \subseteq {"ready", "request", "save", "saved"}
    /\ process \in {"none", "running", "exited"}
    /\ Len(plugin.ring) <= EditCapacity /\ plugin.applied <= plugin.submitted
    /\ plugin.calls \in 0 .. 1

(* The one block of shared memory belongs to one side at a time, across     *)
(* missed deadlines: OBS never writes a block while the helper works on     *)
(* one, and what it plays is the answer to the very block it sent.          *)
BlockOwned ==
    /\ audio.at = "writing" => dsp.at \in {"wait", "exited"}
    /\ heard

(* Nobody is inside when a gate shuts: the bridge is unmapped under no      *)
(* audio callback, and the state of the plug-in is captured during no       *)
(* vendor call of the DSP thread - save for a thread that read the flag     *)
(* while the store that raises it was still in the other's store buffer.    *)
BridgeGate == bridge = "stopped" /\ audio.at \in {"inside", "writing", "waiting"} => audio.slipped
CaptureGate ==
    worker.at = "capture" /\ dsp.at \in {"read", "applied", "leave"} => dsp.slipped
GatesHold == BridgeGate /\ CaptureGate

(* A save OBS is told has succeeded holds every edit made before OBS asked, *)
(* in the processor as in the controller, also when the answer is that of   *)
(* an earlier request OBS had given up - save when the delivery of an edit  *)
(* failed after the capture had looked at the failure flag.                 *)
SavedIsWhole ==
    saver.told = "ok" =>
        /\ stored.controller >= saver.wanted
        /\ stored.processor = stored.controller \/ stored.failed

----------------------------------------------------------------------------
(* The inductive invariant: why the properties hold.                        *)

Requests == 0 .. MaxGeneration
Flag == [stored : BOOLEAN, visible : BOOLEAN]
AudioState == [at : {"out", "counted", "inside", "writing", "waiting", "faulted"},
               block : 0 .. MaxBlocks, own : Requests, slipped : BOOLEAN]
DestroyerState == [at : {"creating", "idle", "drain", "lock", "stopping", "retired", "unloaded"},
                   attempts : Nat]
SaverState == [at : {"idle", "lock", "wait"}, told : {"none", "ok", "failed"}, wanted : Nat, saves : Nat]
Region == [status : {"booting", "ready", "error", "shutting_down"}, shutdown : BOOLEAN,
           request : Requests, response : Requests, result : {"ok", "error"},
           save_result : {"idle", "ok", "failed"}, input : Samples, output : Samples]
DspState == [at : {"wait", "count", "recheck", "read", "applied", "leave", "output", "respond", "exited"},
             request : Requests, value : Samples, drained : Nat, ok : BOOLEAN, slipped : BOOLEAN]
WorkerState == [at : {"boot", "poll", "sync", "compare", "drain", "capture", "answer", "exited"},
                ok : BOOLEAN]
Plugin == [controller : Nat, processor : Nat, ring : Seq(Nat), submitted : Nat, applied : Nat,
           resync : BOOLEAN, failed : BOOLEAN, calls : Int, capture : Flag]
Stored == [controller : Nat, processor : Nat, failed : BOOLEAN]

ObsTypes ==
    /\ bridge \in {"none", "starting", "live", "stopped"}
    /\ gate \in Flag
    /\ audio_readers \in Int
    /\ mutex \in {"free", "save", "destroy"}
    /\ audio \in AudioState
    /\ pending \in Requests
    /\ next_request \in Requests \ {0}
    /\ heard \in BOOLEAN
    /\ destroyer \in DestroyerState
    /\ saver \in SaverState
    /\ region \in Region
    /\ events \subseteq {"ready", "request", "save", "saved"}

HelperTypes ==
    /\ process \in {"none", "running", "exited"}
    /\ dsp \in DspState
    /\ worker \in WorkerState
    /\ plugin \in Plugin
    /\ stored \in Stored

Types == ObsTypes /\ HelperTypes

(* An answer to a save is there before it is announced.                     *)
EventInv ==
    /\ "saved" \in events => region.save_result # "idle"
    /\ destroyer.at = "creating" /\ bridge = "none" => process = "none" /\ events = {}

(* The readers, the vendor calls and the edits on their way are counted as  *)
(* they are.                                                                *)
InVendorCall == dsp.at \in {"recheck", "read", "applied", "leave"}
InFlight == IF dsp.at = "applied" THEN dsp.drained ELSE 0
CountInv ==
    /\ audio_readers = IF audio.at = "out" THEN 0 ELSE 1
    /\ destroyer.attempts < DrainAttempts
    /\ plugin.calls = IF InVendorCall THEN 1 ELSE 0
    /\ plugin.submitted = plugin.applied + InFlight + Len(plugin.ring)
    /\ Len(plugin.ring) <= EditCapacity

(* A gate that has been found empty stays so, but for those who slip.       *)
AudioInside == audio.at \in {"inside", "writing", "waiting"}
GateInv ==
    /\ gate.visible => gate.stored
    /\ gate.stored <=> destroyer.at \notin {"creating", "idle"}
    /\ bridge = "starting" => destroyer.at = "creating"
    /\ bridge = "stopped" => destroyer.at \in {"retired", "unloaded"}
    /\ destroyer.at = "creating" => audio.at = "out"
    /\ destroyer.at \in {"lock", "stopping"} \/ bridge = "stopped" => (AudioInside => audio.slipped)

CaptureInv ==
    /\ plugin.capture.visible => plugin.capture.stored
    /\ plugin.capture.stored <=> worker.at \in {"drain", "capture"}
    /\ CaptureGate

(* A request is unanswered from the moment it is written until the helper   *)
(* responds, and its number is not the next one.                            *)
DspBusy == dsp.at \notin {"wait", "exited"}
Unanswered == pending # 0 /\ region.request = pending /\ region.response # pending
BlockInv ==
    /\ DspBusy => Unanswered /\ dsp.request = pending
    /\ "request" \in events /\ ~region.shutdown => Unanswered /\ ~DspBusy
    /\ pending # 0 => next_request = NextRequest(pending)
    /\ pending = 0 /\ audio.at \notin {"writing", "faulted"} => region.response # next_request
    /\ destroyer.at = "creating" => pending = 0 /\ region.response = 0
    /\ audio.at = "writing" =>
          /\ pending = 0
          /\ next_request = NextRequest(audio.own) /\ audio.own # 0 /\ region.response # audio.own
    /\ audio.at = "waiting" /\ bridge = "live" =>
          pending = audio.own /\ region.request = audio.own /\ region.input = audio.block

(* The output that answers a block was made from it.                        *)
OutputInv ==
    /\ dsp.at \in {"applied", "leave", "output"} /\ dsp.ok => dsp.value = region.input
    /\ dsp.at = "respond" /\ region.result = "ok" => region.output = region.input
    /\ audio.at = "waiting" /\ bridge = "live" /\ region.response = audio.own /\ region.result = "ok"
          => region.output = audio.block
    /\ heard

(* The last edit is in the ring, or with the processor, or was lost by a    *)
(* delivery that is about to be recorded as failed; and a capture has every *)
(* edit and is stored as it was taken.                                      *)
LosingEdit == dsp.at \in {"applied", "leave"} /\ ~dsp.ok /\ dsp.drained # 0
EditInv ==
    /\ ~plugin.resync /\ plugin.ring # <<>> => plugin.ring[Len(plugin.ring)] = plugin.controller
    /\ ~plugin.resync /\ plugin.ring = <<>> =>
          plugin.processor = plugin.controller \/ plugin.failed \/ LosingEdit
    /\ worker.at \in {"drain", "capture"} => ~plugin.resync /\ plugin.ring = <<>> /\ InFlight = 0
    /\ worker.at = "capture" => plugin.processor = plugin.controller \/ plugin.failed

StoreInv ==
    /\ stored.processor = stored.controller \/ stored.failed
    /\ destroyer.at = "creating" => saver.at = "idle"
    /\ process = "none" => stored.controller = 0
    /\ process = "running" => stored.controller <= plugin.controller
    /\ worker.at = "answer" /\ worker.ok => stored.controller = plugin.controller
    /\ saver.at = "wait" /\ process = "running" => saver.wanted <= plugin.controller
    /\ saver.at = "wait" /\ "saved" \in events /\ region.save_result = "ok" =>
          stored.controller >= saver.wanted
    /\ saver.at # "idle" => saver.told # "ok"
    /\ saver.told = "ok" => stored.controller >= saver.wanted

SafetyInv ==
    Types /\ EventInv /\ CountInv /\ GateInv /\ CaptureInv /\ BlockInv /\ OutputInv /\ EditInv /\ StoreInv
=============================================================================
