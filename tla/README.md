# Formal models of obs-vst3

TLA+ models of the concurrent and failure-prone parts of this repository, the TLC
configurations that check them on small instances, and TLAPS proofs of their most
important properties for every instance. All paths below are under `src/` of the
repository snapshot (so `src/host/main.cpp` is the helper's main program).

    tlc -workers 2 -config HostAudio.cfg MCHostAudio.tla      # one run
    tlapm HostAudio_proofs.tla                                # one module of proofs

## 1. The system

An OBS filter hosts a VST3 plug-in in a helper process of its own, so that a vendor
crash never takes OBS down. There are two products: the *Single Host* (one plug-in per
filter, `src/obs-plugin/plugin.cpp` and `src/host/`) and the *Rack* (a chain of plug-ins
in one helper, `src/obs-plugin/rack_filter.cpp` and `src/rack/`). OBS and a helper share
a memory region and a few auto-reset events. Each side has a realtime thread that may
never block for long.

| Component | State it keeps | Operations | Interacts with | What makes it correct | Module |
|---|---|---|---|---|---|
| Bridge publication and reclamation (`plugin.cpp`) | `active` pointer, hazard slots, owner, retired list | publish, retire, read guard, reaper scan | audio threads read, UI and recovery threads publish, detached reapers destroy | a bridge in use is never destroyed; each is destroyed exactly once and eventually | `BridgeReclaim` |
| Audio slots and DSP worker (`win_ipc.cpp`, `host/main.cpp`) | slot states, command ring, transition tokens | `process`, `DspWorker::run`, `pause`, `resume` | OBS audio thread, worker and control thread over shared memory | one thread in the engine; own output; blocks in order; commands reach the plug-in | `HostAudio` |
| Parameter flow (`host/main.cpp`, `win_ipc.cpp`) | pending and applied generations, overrides, two rings, catalog | push, reconcile, `performEdit`, resynchronise, catch up | OBS control, vendor window, worker | the newest value wins in all four places | `HostParameters` |
| Engine and restart transactions (`hosted_plugin.cpp`, `common/*_transaction.cpp`) | the VST3 objects, their mode, restart flags | open, component, I/O, latency and parameter restarts, restore, close | paused worker, recovery | a failed step never leaves a half-restarted plug-in running; no request is lost | `EngineLifecycle` |
| Filter recovery and state mailbox (`plugin.cpp`, `recovery_policy.hpp`, `state_store.cpp`, `state_ipc.cpp`) | health, back-off, state file, dirty generation, request and response | update, save, tick, checkpoint, restart, restore | OBS threads, helper | what counts as saved survives a crash; a selected plug-in gets a helper | `FilterRecovery` |
| Rack chain (`rack/main*.cpp`) | two published generations, reader counts | add, move, remove, bypass, replace, load | rack DSP thread, command worker | no plug-in closed under the DSP; one generation per block | `RackChain` |
| Rack control plane and editor (`rack/main_r3_*.cpp`, `rack_ui_contract.hpp`, ...) | slots and identities, queues, placeholders, presets, catalog, vendor windows, the editor's models | clicks, commands, answers, snapshots, scans, restore | editor thread, command worker, scanner thread | a command hits what the user saw; the editor catches up; identities are unique | `RackTopology` |
| Rack files (`rack_session_snapshot.cpp`, `rack_preset_library.cpp`, ...) | current, previous and two temporary files of a session and of each preset | save, load, delete, list, restore | file system, helpers of other Racks | a crash loses at most the newest save | `RackFiles` |
| Rack filter, bridge and hosted plug-in (`rack_filter.cpp`, `win_rack_bridge.cpp`, `rack_hosted_plugin.hpp`) | one-block region, reader count, edit ring, capture gate, save handshake | create, audio, save, destroy, unload; process, edit, capture | OBS audio, save and destroy threads; helper's DSP thread and worker | memory stays mapped under audio; no vendor call during a capture; a save is whole | `RackBridge` |

Hard behaviours: the hand-over between threads without locks (hazard pointers, slot
states, transition tokens, gates), deadlines that pass at any moment and answers that come
afterwards, auto-reset events that swallow signals, addresses and slots that are reused,
vendor failures in the middle of a step, requests that arrive while an earlier one is
served, and crashes between two file operations. `PROJECT.json` lists each hazard at its
line, with the properties that cover it.

## 2. Modules

| Module | Models | Role |
|---|---|---|
| `BridgeReclaim` | `plugin.cpp` 66-330, 714-825, 1263-1290 | replacement of a bridge under running audio threads |
| `EngineLock` | - | abstract: a lock of the engine, taken when free and given back |
| `HostAudio` | `win_ipc.cpp` 458-548, `host/main.cpp` 205-260, 720-930 and the control loop's use of them | realtime path of the Single Host; implements `EngineLock` |
| `HostParameters` | `host/main.cpp` 56-99, 169-281, 443-612, 716-902, 1515-1672, `hosted_plugin.cpp` 953-1213, `win_ipc.cpp` 387-434 | values on their way between OBS, controller, processor and plug-in |
| `PluginPair` | - | abstract: the order of calls a VST3 component and controller may rely on |
| `EngineLifecycle` | `hosted_plugin.cpp` 146-275, 331-943, `host/main.cpp` 942-1247, 1300-1510, 1588-1685, `common/*_transaction.cpp`, `lifecycle_restart_policy.cpp`, `native_editor.cpp` | a plug-in from opening to closing; implements `PluginPair` |
| `FilterRecovery` | `plugin.cpp` 659-967, 1040-1184, `recovery_policy.hpp`, `state_store.cpp`, `state_ipc.cpp`, `win_ipc.cpp` 101-346, `host/main.cpp` 1345-1424 | the life of a filter with its helper and its state file |
| `AtomicChain` | - | abstract: each block is processed by one committed chain, whose plug-ins stay open |
| `RackChain` | `rack/main.cpp` 192-202, 333-343, 411-445, 551-636, `main_r3_2.cpp` 143-206, 320-518, `main_r3_4.cpp` 361-469, `main_r3_4_persistent.cpp` 12-77, 206-332 | edits of the Rack's chain under running audio; implements `AtomicChain` |
| `RackTopology` | `main_r3_2.cpp`, `main_r3_4.cpp`, `main_r3_4_persistent.cpp`, `rack_ui_contract.hpp`, `rack_preset_ui_contract.hpp`, `rack_editor_window.cpp` (its clicks), `rack_vendor_editor_manager.cpp`, `rack_plugin_catalog.cpp` | the Rack's control plane and its editor |
| `AtomicSave` | - | abstract: a register that a save replaces in one step or not at all |
| `RackFiles` | `rack_session_snapshot.cpp`, `rack_session_runtime.hpp`, `rack_preset_library.cpp`, `rack_preset_management.cpp`, the commands that call them | what the Rack keeps on disk; implements `AtomicSave` |
| `RackBridge` | `rack_filter.cpp`, `win_rack_bridge.cpp`, `rack_hosted_plugin.hpp`, `rack/main.cpp` 245-284, 538-636, `main_r3_4_persistent.cpp` 89-333 | the Rack filter against its helper |
| `MC...` | - | modules TLC is run on, with the setups of `RackFiles` and `RackTopology` |
| `BridgeReclaim_proofs`, `HostAudio_proofs`, `HostParameters_proofs`, `EngineLifecycle_proofs`, `FilterRecovery_proofs`, `RackFiles_proofs`, `RackBridge_proofs` | - | theorems |
| `Rack_proofs` | - | theorems about `RackTopology` and `RackChain`, which share no variable |

How they fit together: `BridgeReclaim` owns the bridge that `FilterRecovery` starts and
replaces; behind a bridge, `HostAudio` carries the blocks and grants the pauses under
which `EngineLifecycle` restarts the plug-in and `HostParameters` reconciles values; both
take from it what its properties promise (a granted pause means a parked worker, and a
pause may time out). On the Rack's side `RackBridge` brings blocks and save requests to
the helper, `RackChain` runs a block through the chain, `RackTopology` decides what the
chain is, and `RackFiles` writes what `RackTopology` commits.

`PROJECT.json` maps every definition to its lines. Definitions whose comment starts with
"Mutant" are deliberate errors: replacing the definition named in `PROJECT.json` by one of
them makes TLC refute the property it is listed with. They are part of no specification.

### BridgeReclaim

*State.* `active`, `owner`, `hazard` slots (`in_use` and pointer) and `retired` are the
members of `Filter` (66-113). A bridge is an address; `Addresses` is finite, so a freed
address comes back for a new bridge, of the same or another filter, as the allocator may
do. `reader`, `control` and `reaper` are program counters of an audio thread, of the
thread that publishes, and of a reaper.

*Actions.* One action per atomic access. `ClaimSlot` is one turn of the slot loop of
`AudioBridgeRead`, `LoadActive`, `StoreHazard` and `RecheckActive` its load, store and
re-check, with the code's bounded number of attempts (`Attempts`). `SwapOwner` and
`StoreActive` are `publish_bridge_locked`, `RetireBridge` puts the old one on the list.
`BeginReap`, `InspectSlot`, `EndScan`, `DestroyBridge` are `reap_retired_bridges`; the
slots are inspected one at a time, so a scan is not a snapshot. The atomics are the
code's sequentially consistent ones.

*Properties.* `NoUseAfterDestroy`: a thread inside `process()` uses a bridge that still
exists. `OneOwner`: an existing bridge is owned by exactly one of candidate, owner,
retired list and reaper. `RetiredIsDestroyed`: every retired bridge is destroyed in the
end, although readers come back for ever; it needs that a thread that has begun a read
or a scan goes on (weak fairness per thread), and no more. `filter_destroy` publishes a
null pointer and is the same sequence of actions.

*Run.* One filter, two audio threads, two hazard slots, one reaper, two addresses: the
smallest instance in which a restart must reuse the address a slow reader still holds.
The branch of `ClaimSlot` that finds all slots taken is not met with as many slots as
threads; the proof covers every number of each.

### HostAudio

*State.* Per slot its state, the block in `input`, the block `output` was computed from
and `result`; a block is its number, modulo `SequenceModulus` (2^32 in the code), and
`NoBlock` marks data no longer of use. The command ring is known by the counters
`pushed`, `popped` and `applied` (pushed, popped and given to the plug-in's queue, handed
over by a `process` call). `requested`, `acknowledged`, `generation` are the transition
tokens, with the pause request in the lowest bit as in the code. `dsp`, `control` and
`caller` are the program counters of `DspWorker::run`, of the control thread and of
`WinObsBridge::process`. `late` is a history variable: a pause or resume has timed out
since the last one that ended properly.

*Actions.* `ReadTransition` ... `DrainCommands` follow the outer loop of
`DspWorker::run` from one shared access to the next: the token is read once, the drain of
a pause (`Settle`) is followed by a second look (`ConfirmPause`) and a separate
acknowledgement, the paused loop has its own reads. `AcquireSlot` is one turn of
`acquire_slot`; `MissDeadline` the failed or successful `Ready -> Free` exchange at the
deadline. `RequestTransition` is shared by pause, withdrawn pause and resume.
`RequestShutdown` covers OBS stopping the bridge and a restart transaction that fails
with the worker still parked.

*Abstractions.* A store and the `SetEvent` after it are one step; every wait has a
timeout and re-reads what it waits for, so a late signal only causes an empty wake-up.
For the same reason `transition_event` is left out. The `WAIT_FAILED` exits, heartbeats and
the feedback ring are left out. OBS calls the filter's audio callback from one thread at
a time, so there is one caller and `slot->sequence == seq` always holds for it.
Interlocked operations are sequentially consistent.

*Properties.* `EngineExclusive` and its refinement form `EngineIsLocked` (the tokens
implement the lock of `EngineLock`), `WetIsOwnBlock`, `ProcessesNewest`, `SlotLeft`,
`FrontierUnlessLate`, and the liveness properties `PauseEnds` and `CommandsReachPlugin`.
`FrontierUnlessLate` excepts the pause that meets the late answer to an earlier one: the
paused loop acknowledges it without draining the ring again (`main.cpp:828`), so commands
pushed in between are still queued when it is granted. `CommandsReachPlugin` holds as long
as the plug-in processes audio again and again; once the audio has stopped, the run
`HostAudioQuiet` refutes the document's promise.

*Fairness.* Each of the three threads goes on running, because all of its waits have
timeouts (100 ms parked, 250 ms idle, the pause and resume timeouts, the block
deadline). Nothing is assumed of `BeginBlock` (OBS may deliver no audio), of commands, of
pauses or of a shutdown.

*Bounds.* Two slots are the fewest for which a late block and the next one differ (the
assumption `SlotCount > 1` is needed by `SlotLeft`); two block numbers make every number
repeat at the second block; a one-place ring drained one command per wake-up makes both
limits bite with two commands; `MaxGeneration = 5` allows four tokens, which is a pause
that times out and is withdrawn followed by one that succeeds and its resume.

### RackChain

*State.* `slots`, `bypassed` and `retired` are `DynamicRackState` and the list of
`RetiredDynamicPlugin`, reduced to the plug-ins in them; a plug-in is the address of its
`HostedPlugin`, which is free for a later one once it is closed. `generations`, `readers`
and `published_index` are `GenerationStore`. `draft` is the edit between its first side
effect (a plug-in opened) and its publication; the code keeps it in locals of
`execute_dynamic_command`, `load_preset_into_rack` and `restore_working_rack_session`.
`worker` and `dsp` are program counters.

*Actions.* Each edit (`AddSlot` ... `ReplaceSlot`, `LoadPreset`, `RestoreSession`) opens
its plug-ins and says what it leaves; all of them share the reservation
(`ReserveCommit`, `ReserveTimeout`), `ClearGeneration` and `BuildGeneration` (the
assignment of an empty generation and the loop that fills it) and `PublishGeneration`.
`ReapEntry` is one turn of `reap_retired_plugins`, before every command and after a
removal, a replacement or a preset. The reader takes one action per atomic access of
`acquire_published_generation` and one per slot; `process` may fail at any slot.
`CloseState` comes after both threads have been joined.

*Abstractions.* The order of the slots, their identifiers, slots without a plug-in, the
queues and the replay guards are left out (see `RackTopology`). The fields of `state` are read
by the worker alone, so they change at the publication in one step. The store of
`published_index` is a release, but `publish_dynamic_projection` ends with a
`MemoryBarrier` before the reaping, and the reader's `fetch_add` is a full barrier on
x86, so the accesses are sequentially consistent. An `AddSlot` that fails because the
64-bit counter of identifiers is spent is left out. The parent terminates a helper that
does not end in time; the model shows that it ends by itself.

*Properties.* `ChainIsAtomic`: `AtomicChain` is implemented, that is, a block sees one
committed generation as a whole, the numbers of the generations never go back, and no
plug-in of the published generation or of the one a block has is closed. `OneOwner`: an
existing plug-in is in exactly one of the state, the retired list and the edit at hand,
so a failed reservation leaks nothing and nothing is closed twice. `ExitClosesAll`: a
stop at any moment ends the helper with every plug-in closed.

*Fairness.* Weak fairness of each thread once it has begun a command or a block: the
waits of the worker are bounded (1000 turns of 1 ms), a read is 8 attempts, and a plug-in
returns from `process`. Commands, presets and blocks themselves are not fair.

*Bounds.* Two addresses (one in use and the one that replaces it), two attempts instead
of eight (success at the second, or none), numbers up to four, which is three edits and
rewrites both generations. Deadlock is not checked, because the helper is meant to stop;
`ExitClosesAll` says in which state.

### HostParameters

*State.* A value is the number of the write that made it, whoever wrote it, so "newer" can
be said. `descriptor` is the part of a `ParameterDescriptor` that the flow uses,
`controller` and `engine` the two halves of the plug-in with the engine's mirror, its
queue for the next `process` call and the updates that call left behind. `to_dsp`,
`to_control`, `resync` and `overrides` are the rings, the resynchronisation flag and
`NativeOverrideBuffer`. `control` and `dsp` are program counters.

*Actions.* `StoreValue` and `AdvanceGeneration` are the two stores of `set_parameter`. The
worker: a block (`DspBlock`), its feedback one parameter at a time (`Feedback`), the drain
of commands with its zero-sample flush, and the settling before a pause. The control
thread follows the order of the loop in `wmain`: `TopDrain`, the edits of the vendor
window (`PerformEdit`, `PublishEdit`), the pause for kept edits (`ReconcileNative`), the
sliders one at a time (`HostRead`, `HostApply`, `HostShow`), a state request with its
reconciliation and catch-up, `TailDrain`. A pause and a resume may each time out, and the
plug-in may change a parameter in any `process` call, also in a flush. The controller may
refuse any value (`set_controller_parameter` fails): one handed back to it (`HandBack`, in
`DrainFeedback` and `SyncMirror`) is shown to OBS all the same (`main.cpp:243`, `:258`,
`:267`), a slider's stays pending, as it does when the ring is full (`HostApplyLater`,
`main.cpp:1578`-`1586`), and an edit at a reconciled frontier ends the helper
(`FrontierFails`). `refused` is a history: the parameters whose last value handed back was
refused.

*Abstractions.* The 32 commands per wake-up are left to `HostAudio`; the catalog stays the
same, so the generation that `set_parameter` and a republication both claim is left out.

*Properties.* `ValuesSettle` is the purpose of the code: whatever was written where and
whichever ring overflowed, once nothing is on its way the controller, the processor, the
mirror and the value shown are one, and no older than the slider's; and a state is
captured from halves that agree. Its three exceptions are real: a controller that refused
the last value handed back to it stays as it was, and nothing tries again (`main.cpp:382`
calls this best effort); after a pause that timed out, a kept vendor edit is reconciled
after newer slider values (`late`); and behind a pause granted from the late answer to an
earlier one, which `FrontierUnlessLate` of `HostAudio` excepts, the halves may differ.
Processor, mirror and the value shown agree in all three once nothing is on its way.

*Run.* Two parameters and three writes through rings of one place and an override buffer
of one place: each overflow happens with the second write, and the third is the newer
value that a late reconciliation must not undo.

### EngineLifecycle

*State.* The component and controller with their connection and handler, the mode of the
plug-in (set up, active, processing), the main buses' arrangement as the plug-in has it
and as the engine last read it, prepared buffers for it and committed it. `flags` and
`plan` are the restart requests not yet taken and being served; `stale` what the plug-in
has changed and the engine not read again, `unserved` what was requested and not yet
published. `task` and `control` say which transaction is at which step.

*Actions.* Opening step by step, each of which may fail and leads to the common close; the
control loop, which takes the flags and coordinates a transaction (`Pause`, `Reconcile`,
the transaction's own steps, `Publish`, `Resume`); state capture and restore; the reload,
which absorbs what is requested meanwhile and needs a fixed point; closing. The plug-in
may ask for any restart whenever it holds the handler.

*Properties.* `BlocksOnWholePlugin`: the worker never runs a block on a plug-in that is not
processing or whose buffers are for other buses. `NoRequestLost` and `RestartsServed`: a
request is neither lost between flag, plan and the transaction that absorbs it nor left
for ever, unless the helper is given up. `PairKept` is the refinement of `PluginPair`.
The exceptions in the properties are decisions of the code: a plug-in that a failed
restore could not start again keeps the worker running (`process` then fails and recovery
takes over), and buses the plug-in has announced to change.

*Run.* Two arrangements and two requests, so one arrives while the other is served, and
one command of OBS. The control thread is fair, because every wait of it has a timeout.

### FilterRecovery

*State.* The filter's identity, shutdown flag, mutex, observed and saved generations and
stable ticks; the back-off of `RecoveryPolicy`; one state file per identity; and the
helper: alive, stalled, what it hosts, the edits it has (a state is the number of its
last edit) and its state mailbox. `thread` has a program counter for the thread OBS calls
the filter on and one for the recovery thread; both run the same procedures, capture and
restart, under `restart_mutex`.

*Actions.* `Update`, `Switch`, `Save`, `Destroy` from OBS; the tick in its parts
(`TickHealthy`, `TickUnhealthy`, `TickDirty`); a capture as request, answer or time-out
and the write of the file; a restart as capture of the old, start, load, restore,
rejection with a clean second start, parameter fallback and publication. The helper
edits, crashes, stalls, fails to start, and answers a request that OBS has given up.

*Properties.* `SavedMeansRestorable`: when the filter thinks it has saved, a crash would
lose nothing and restores the right plug-in. It excepts what the code gives away: an edit
between the end of a restore and the moment its generation is marked as saved, and a
rejected file that could not be deleted (`loose`). `Recovers`: once faults stop, the
selected plug-in has a helper that answers, in spite of back-off and of updates.

*Fairness.* Both threads run. The mutex is not fair, so the thread of OBS is assumed to
get it sooner or later (strong fairness): the recovery thread holds it for one tick and
sleeps a second between two holds. Nothing is assumed of the helper, of OBS's calls or of
edits; faults are bounded.

*Run.* Two plug-ins to switch between, two faults (one helper lost, and one more while it
is replaced), one edit and one call of OBS. The back-off numbers are scaled down so that
the cap and the reset by a stable period are both reached. Larger instances, two edits or
two calls of OBS, were checked once (1.7 million states each).

### RackTopology

*State.* The slots with identity, plug-in, bypass, health and *unit* (a number for each
occupant a slot ever had, a history), the counter of identities, the saved states of
placeholders, the generation, the vendor windows, the catalog with its scan, the preset
library, both command queues, the worker, what the editor's two models hold, and the
*frame*: the copies that `render_ui` has drawn from and the user clicks on.

*Actions.* `DrawFrame` copies Rack, catalog and presets; `DrawCatalog` the catalog alone,
which is copied after the Rack and under another lock, and which the plug-in browser shows
afresh while it keeps the slot it was opened for. Answers and publications may come
between a frame and the click on it. A click for each command the editor offers takes its
slot, plug-in or preset from the frame, finds both pending flags clear, and is checked by
`request_*` on the model as it is then. The flags are sampled after the copies
(`rack_editor_window.cpp:688`-`692`) but need no step of their own: only the window's own
thread sets one, so a flag found clear is clear when the click is sent. Then the execution
of each command by the worker, with its failures; then the answers and publications to the
editor as steps of their own (`ApplyAck`, `ApplyPresetAck`, `PublishPresets`,
`PublishSnapshot`) between which the user may click again; the scanner; the restore of the
session, and the stop.

*Properties.* `EditHitsSeenSlot`: a command changes the occupant that the frame showed in
the slot that was clicked. `EditorShowsRack`: when nothing is under way the editor shows
rack, presets and catalog as they are. `RackCoherent`: vendor windows belong to the
plug-ins in the slots, and every placeholder has the state it came with. `PendingClears`:
a disabled control is enabled again. `TopologyTypeOK` says besides the types that one
command at most is queued and that no publication is ahead of its publisher. Exceptions
were met: a click on a frame that is behind the Rack at that slot (`outdated`): a
replacement or a preset load has put another occupant under that identity since it was
drawn, or a preset load is between its two publications, the first of which enables the
controls (nothing in `request_*` or in the worker compares occupants, and TLC finds the
command hitting the unseen one as soon as either part of the exception is dropped); a
restored session of generation 1, which the editor ignores until the next change, since
the empty Rack was published with the same number; and a Rack in which an identity is used
twice. The run `RackTopologyIds` shows how the code gets there. From then on the editor
refuses every snapshot, the command stays pending, the controls stay disabled until the
helper is restarted, and every save is refused (`rack_session_snapshot.cpp:306`); a
placeholder whose identity a live slot has taken may lose its kept state to the next
`prune`. `PlaceholdersKept`, `EditorShowsRack` and `PendingClears` therefore speak of a
Rack with distinct identities or say what happens in the other, and `Locked` (section 4)
proves that no command is taken there.

*Runs.* Four setups in one run: edits of a restored Rack with a slot that is missing for
sure, a catalog that changes while it is used, presets that reuse the identities on
display, and a session with a gap, whose second added plug-in takes the identity of a
placeholder; three slots and four clicks. `RackTopologyIds` starts from three slots of
which the second was removed.

*Limits.* What a session or a preset holds is any list of at most `MaxSlots` slots with
distinct identities, as the decoder admits; a file that does not decode is in `RackFiles`.
Every plug-in has a vendor window.

### RackFiles

*State.* Per file (the session, each preset) the contents of its four paths and who has
one open, per helper the step of the save or deletion at hand, its Rack and the presets it
knows. `superseded` and `alive` are histories for the properties.

*Actions.* One per file call: the removal of left-over temporaries, the rotation of the
current file into `.previous` by a temporary and a rename, the creation, filling, check
and rename of the new one, the reading back. Each may fail, which ends the save as the
code does, and a helper may die anywhere. A file half written is `Torn` and does not
decode. Loading prefers the current file and falls back to the previous one.

*Properties.* `SessionIsAtomic`: the session refines `AtomicSave`. `FallbackIsRecent`: the
copy is never more than one save old, and exists once there was something to copy.
`PresetNotLost`: two helpers that share a preset's temporary names do not lose a saved
preset, with at most one death; a second death in the same save can lose it, and so can
one death among three helpers, which is why the property is checked and not proved.

*Limits.* A read that fails at start leaves the register as it is but the Rack empty, and
the first save rotates the good file out: that is the code's choice
(`main_r3_4_persistent.cpp:27`), and one save later the good file is gone. A rename is
atomic and a completed write stays (no loss of power that reorders writes).

### RackBridge

*State.* The filter's bridge, gate, readers and mutex; the bridge's request numbers, which
wrap; the region with one block; the events; the helper's DSP thread and command worker;
one plug-in with its edit ring, counters, capture gate and two halves; the session file.

*Actions.* Creation with its failures, an audio callback step by step with deadlines that
pass at any time, `rack_destroy` with its bounded drain, `module_unload`, `rack_save` with
its wait; in the helper the DSP loop through the guard of the plug-in, edits from the
vendor window and the capture with its drain, resynchronisation and answer.

*Memory model.* Both gates raise a flag with a release store and then read a counter,
while the other side counts itself in and reads the flag. On x86 the store may still be
in the store buffer when the counter is read, so each flag has a stored and a visible
value, and locked operations and sleeps empty the buffer. `GatesHold` therefore excepts a
thread that read the flag in that window; without the exception TLC refutes it. The
comment at `rack_filter.cpp:206` takes for granted that late callbacks "observe this
flag". The hazard slots of `plugin.cpp` are sequentially consistent atomics and the
single host's words are changed by interlocked calls, so no other module needs this.

*Properties.* `BlockOwned`: across missed deadlines the one block belongs to one side and
what is played answers what was sent. `GatesHold`. `SavedIsWhole`: a save reported as done
holds every edit made before OBS asked, in both halves, also when the answer is that to an
earlier request; excepted is a delivery that fails after the capture looked.

*Run.* Two blocks, two edits, two saves, a ring of one place, request numbers that wrap at
two, two drain attempts.

*Limits.* The plug-in is in the chain. In a bypassed slot edits of the vendor window are
never delivered, since nothing calls `flush_component_handler_edits`
(`rack_hosted_plugin.hpp:234`), and every save then fails; no property says that a save
succeeds. `open_editor` and the status shown in the properties are left out.

## 3. Runs

| Run | Kind | Shows |
|---|---|---|
| `BridgeReclaim` | pass | hazard pointers protect, and every bridge is destroyed once |
| `HostAudio` | pass | one owner of the engine, blocks in order with their own output, pauses that end, commands that arrive |
| `HostParameters` | pass | the four places of a value agree once nothing is on its way, but for what the controller refused |
| `EngineLifecycle` | pass | order of calls, no lost restart request, no block on half a plug-in |
| `FilterRecovery` | pass | what counts as saved can be restored, and a filter recovers |
| `RackChain` | pass | edits under running blocks: one generation per block, one owner per plug-in, an orderly stop |
| `RackTopology` | pass | commands hit what was seen, the editor catches up, windows and placeholders stay true |
| `RackFiles` | pass | the session is an atomic register with a recent fall-back; a saved preset stays |
| `RackBridge` | pass | the block, the gates and the saves of the Rack filter |
| `HostAudioQuiet` | violation | `docs/P1_ARCHITECTURE.md:55` says that edits are flushed when blocks are inactive. A command drained in the wake-up that processed the last block is not flushed (`main.cpp:891`, `!processed_any`); later wake-ups find the ring empty, so it waits in the engine's queue for a block that does not come |
| `RackTopologyIds` | violation | ADR-0002 says that every slot has a stable identity. In a restored Rack with a gap the second added plug-in gets an identity in use (`main_r3_4.cpp:345`); the editor then refuses every snapshot, its controls stay disabled, and every save is refused |

Deadlock is checked in `BridgeReclaim` and the two `HostAudio` runs. The other systems
are meant to stop: a helper that exits, a filter that is destroyed, a Rack whose user has
no click left; what must happen before is a liveness property where there is one.

Fairness is assumed only of threads whose waits are bounded, each stated in its module;
never of OBS, of the user, of the plug-in's requests, of faults or of messages.

## 4. Proofs

All theorems are proved from the constants' assumptions alone: finite bounds such as
`MaxGeneration` or `MaxEdits` are arbitrary naturals, sets such as `Addresses`, `Threads`
or `Plugins` arbitrary. Each proof module has one inductive invariant, a conjunction of
named parts, a lemma per part with one step per action, and the theorems that follow
from it.
Each invariant was checked by TLC with its run's constants before it was proved. The type
invariant of each of the nine systems is a theorem (`BridgeTypes`, `HostTypes`,
`HostParameterTypes`, `LifecycleTypes`, `RecoveryTypes`, `RackTypes`, `TopologyTyped`,
`RackFilesTypes`, `RackBridgeTypes`).

`BridgeReclaim_proofs`: `BridgeSafety` proves the inductive invariant; it says where a
bridge may be in its life, that a reader past its re-check has its address in a hazard
slot since before the bridge was retired, and that a reaper that has passed a slot has
either seen that address or the slot was claimed after `active` had moved on. From it
follow `BridgeNoUseAfterDestroy`, `BridgeOneOwner` and `BridgeUsesOwn` (a bridge in use
is one its filter published and still holds, which is what address reuse endangers).

`HostAudio_proofs`: `HostSafety` proves `SafetyInv`, seven parts each with its own lemma.
`TokenInv` orders the tokens, `ParkInv` says that the lowest bit of the last acknowledged
token tells whether the worker is parked, `ControlInv` that a control thread with a pause
has had exactly that token acknowledged; the three give `HostEngineExclusive` and
`HostEngineIsLocked`. `SlotInv` and `ClaimInv` say who owns a slot and what is in it, and
give `HostWetIsOwnBlock`, `HostProcessesNewest` and `HostSlotLeft`; `FrontierInv` gives
`HostFrontierUnlessLate`. `EngineExclusive` alone is not inductive: a worker about to
acknowledge a stale token looks harmless without the order of the tokens.

`EngineLifecycle_proofs`: `LifecycleSafety` proves `LifecycleInv`. `TaskInv` says which
transaction is at which step of the control thread, and `PlanInv` that it is the first of
what is left of the plan. `ObjectsInv` and `ModeInv` say what exists of the pair and how
far it runs at each step; they make every step of the detailed system a step of
`PluginPair` or a stutter (`LifecyclePairKept`). `DspInv` and `BusInv` say when the worker
is parked and which buses have been read, committed and prepared for, which gives
`LifecycleBlocksOnWholePlugin`. `ReadInv` is what `LifecycleNoRequestLost` needs: what a
transaction has read already and is stale again has been asked for again.

`FilterRecovery_proofs`: `RecoverySafety` proves `RecoveryInv`. `MutexInv` and `BridgeInv`
say who holds `restart_mutex` and that the bridge is the selection's unless OBS is about
to replace it: the recovery thread may publish a helper for the old selection, but then
the thread of OBS stands before a restart of its own. `MailboxInv` keeps a restore from
outliving its restart, although its answer may come late; `DirtyInv` says that a
generation read earlier is not ahead of the helper's; `RestartInv` relates file and helper
at each step of a restart. `CheckpointInv` is then inductive: an answer to a capture is
what the plug-in has, or the plug-in is dirty again. `RecoverySavedMeansRestorable` alone
is not: before the file is written, nothing in it speaks of the answer in the mailbox.

`HostParameters_proofs`: `ParameterSafety` proves `ParameterInv`, eight parts, each kept by
every step of OBS, the worker and the control thread. `FlowInv` follows a parameter: it is
`Still` when neither ring, no update yet to be sent and no kept edit speaks of it, and what
is still agrees in the mirror, in the value shown and, once acknowledged and unless it has
refused the last value handed back, in the controller;
the last update on its way to the controller repeats the mirror (`HeardMirror`), and a
value about to be shown is still on its way (`ShownOnTheWay`). `EngineInv` ties the mirror
to the processor and its queue, `GenerationInv` orders the generations applied, read and
pending, `PauseInv` and `HandshakeInv` say what holds behind a pause, `CaptureInv` what a
frontier has reconciled. `NewestInv` compares the slider not with the processor but with
`Newest`, the value it will end with after the override buffer and the ring. From these
follow `HostParametersSettle` and `HostParameterTypes`. `ValuesSettle` alone says nothing
of a state in which anything is on its way. The capacities are arbitrary positive numbers,
so that either ring and the buffer may overflow at any write; what a ring leaves of a
parameter is found by the lemmas `LastMention` and `LastAppend` for rings of any length.

`Rack_proofs`, control plane: `TopologySafety` proves `TopologyInv` for any number of
slots, presets, names and clicks and for any admissible content of the disk. `Control`
relates the worker and the editor's two models: `QueueInv` says that what is queued is
what its model waits for and is alone, `AnswerInv` that an answer is to the pending
command and names the generation the model will be shown next, `PresetsShown` and
`RackShown` that what is on display is what the worker has unless it is still telling,
`Locked` that no command is taken once an identity is used twice, and `Seen` that the
occupant a queued command is about is the one in the frame that was clicked, unless that
frame was behind. A frame itself needs no invariant but its types: what it showed is
compared with the model at the click, which is where `outdated` is set. `CatalogInv` orders
the catalog, what the scanner will publish and what is shown; `LibraryInv` says that a
listed preset is in the library. The step lemmas do not go through the thirty actions one
by one: every action is one of the kinds in `TopologyStep` (a click, a refusal, an edit,
an opened window, a load, ...), and the five edits are `IsEdit`, that is, they keep the
occupants of all slots but at most one and add no placeholder (`AddIsEdit` to
`ReplaceIsEdit`, from the lemmas on `InsertAt`, `RemoveAt` and `SelectInSeq` over
sequences of any length). `EditorShown`, `EditsHitSeenSlots`, `RackStaysCoherent` and
`TopologyTyped` follow. None of the four is inductive alone: `EditorShowsRack` speaks of
quiet states only, and `EditHitsSeenSlot` needs the model's promise to have at most one
command under way, which needs every answer to reach the model that waits for it. The
second exceptions of `PlaceholdersKept` and `EditorShowsRack` were found when `RackShown`
turned out to fail in a Rack with a repeated identity.

`Rack_proofs`, chain: `RackSafety` proves `SafetyInv`, five parts. All seven edits are an
instance of `EditWith` (`EditIsPrepare`), so each part treats them once. `ReadersInv`
says that the counts are those of the one block there is; `DraftInv` what an edit on its
way to publication may contain; `HoldInv` that the published generation's plug-ins are
in the state, and that a plug-in of the generation a block has is in the state or retired
*with that generation's index*, which is what keeps the reaper off it; and that a block
never has the generation being rebuilt. `RackOneOwner` and `RackChainIsAtomic` follow.
`OneOwner` alone does not protect a block: a plug-in may be retired with one index and
read under the other, if not for `HoldInv`.

`RackFiles_proofs`: `SessionSafety` proves `SessionInv`. `OwnerInv` says that only the
owner of a session saves it and that nobody deletes it; `FileInv` that the two paths a
load looks at hold whole sessions, that the copy is made before the file it is a copy of is
replaced, and that what is renamed is what has been written. From it follow
`RackFilesFallbackIsRecent` and, step by step, the refinement `RackSessionIsAtomic`: the
rename of the new file is the register's write, and every other file call, failure, death
and start is a stutter. The presets need types only.

`RackBridge_proofs`: `BridgeStateSafety` proves `SafetyInv`, nine parts. `CountInv` says
that readers, vendor calls and edits on their way are counted as they are; `GateInv` and
`CaptureInv` that a gate found empty stays so but for those who slipped through the store
buffer, which is `RackBridgeGatesHold`. `EventInv`, `BlockInv` and `OutputInv` follow the
one block across missed deadlines by its request number (`RackBridgeBlockOwned`);
`EditInv` and `StoreInv` follow the last edit through ring, processor, capture and file
(`RackBridgeSavedIsWhole`).

Model-checked only: the liveness properties `RetiredIsDestroyed`, `PauseEnds`,
`CommandsReachPlugin`, `RestartsServed`, `ExitClosesAll`, `Recovers` and `PendingClears`
(the prover has no ENABLED), and `PresetNotLost`, which is false for three helpers.
Every other property of a passing run is a theorem.
No module declares a RECURSIVE operator.

## 5. Not modelled

- The VST3 SDK calls themselves: vendor code, whose results are nondeterministic outcomes.
- The plug-in scanner: a short-lived program that writes an index file.
- The OBS registration and property widgets, windows, skins, meters and master controls:
  drawing, formatting and arithmetic on samples.
- The editor mailbox of the Single Host (`host/main.cpp:1341`): a command stored between
  the helper's two stores is lost although it counts as applied; it costs a click.
- The catalog generation that OBS and the helper both claim (`host/main.cpp:293`).
- The Rack's recovery breadcrumb and policy: called by tests only.
- The system calls of process creation; encodings and checksums of files.

## 6. Plan

1. The catalog generation, with `HostParameters`.
2. A bypassed slot in `RackBridge`, with the saves it blocks.
