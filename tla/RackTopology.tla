---------------------------- MODULE RackTopology ----------------------------
(***************************************************************************)
(* The control plane of the Rack helper (src/rack/) and its editor:         *)
(*   - the command worker, which owns the Rack: main_r3_2.cpp (slots),       *)
(*     main_r3_4.cpp (presets), main_r3_4_persistent.cpp (the loop, and the   *)
(*     session it restores before it takes commands);                       *)
(*   - the editor's models, RackEditorModel and RackPresetEditorModel, which *)
(*     the window's thread asks for commands and the worker feeds;           *)
(*   - the plug-in catalog and the thread that scans for it;                *)
(*   - the vendor windows of the slots, rack_vendor_editor_manager.cpp.      *)
(*                                                                          *)
(* A call of the editor holds its model's mutex and is one step, so is the   *)
(* execution of a command: nobody else touches the Rack.  What the worker    *)
(* tells the editor after a command are steps of their own, between which    *)
(* the window may draw and the user may click.                              *)
(*                                                                          *)
(* RackChain has what a commit does to the audio thread, RackFiles what the  *)
(* saves that follow a change do to the disk; neither touches these          *)
(* variables.  A commit that cannot reserve a generation and a plug-in that  *)
(* cannot be opened both fail the command.                                  *)
(***************************************************************************)
EXTENDS Naturals, SequencesExt

CONSTANTS
    Plugs,       \* the VST3 classes; the catalog names one by a hash of its path and class
    Presets,     \* bound: the identifiers CoCreateGuid will give
    Names,       \* bound: what the user may call a preset
    None,        \* no session, no preset, no command
    Setups,      \* bound: what is on disk when the helper starts, and what the user will do
    MaxSlots,    \* bound: kRackMaxSlots
    MaxCommands  \* bound: the clicks of the user

ASSUME TopologyBounds == MaxSlots \in Nat \ {0} /\ MaxCommands \in Nat

(* validate_rack_ui_snapshot, encode_rack_session_snapshot and its decoding: *)
(* no identity twice.                                                       *)
DistinctIds(slots) == \A i, j \in DOMAIN slots : slots[i].id = slots[j].id => i = j

(* What is read from a disk: slots as decode_rack_session_snapshot admits    *)
(* them, with the healths that persisted_health_for gives them (no slot of   *)
(* the Rack loads, recovers or needs attention), and a preset as             *)
(* decode_rack_preset admits it.                                            *)
Healths == {"ready", "missing", "quarantined"}
SavedSlot == [id : Nat \ {0}, plug : Plugs, bypass : BOOLEAN, health : Healths]
SavedSlots == {slots \in Seq(SavedSlot) : Len(slots) <= MaxSlots /\ DistinctIds(slots)}
Preset == [name : Names, slots : SavedSlots]

(* What the editor asks for.  Histories: seen is the occupant in the frame    *)
(* that was clicked, outdated whether the frame was behind the Rack there.   *)
RackCommands == {"Add", "Replace", "Remove", "Move", "Bypass", "OpenEditor", "Refresh"}
PresetCommands == {"SaveAs", "Load", "Rename", "Delete", "Update"}

RackRequest == [id : Nat, type : RackCommands, slot : Nat, index : Nat, plug : Plugs \cup {None},
                catalog : Nat, seen : Nat, outdated : BOOLEAN]
PresetRequest ==
    {c \in [id : Nat, type : PresetCommands, preset : Presets \cup {None}, name : Names \cup {None}] :
        c.type \in {"SaveAs", "Rename"} => c.name \in Names}
Listing == [id : Presets, name : Names]

ASSUME NoneAssumption == None \notin RackRequest \cup PresetRequest \cup Listing \cup Preset
ASSUME SetupAssumption ==
    \A s \in Setups :
        /\ s.session # None => s.session.generation \in Nat \ {0} /\ s.session.slots \in SavedSlots
        /\ s.installed \subseteq Plugs
        /\ s.library \in [Presets -> Preset \cup {None}]
        /\ s.clicks \subseteq RackCommands \cup PresetCommands

VARIABLES
    setup,           \* one of the Setups; it stays
    rack,            \* DynamicRackState::slots
    next_slot_id,    \* DynamicRackState::next_slot_id, less kDynamicSlotIdBase
    missing_states,  \* MissingPresetStateStore: the saved slots that could not be opened
    generation,      \* the published chain generation
    units,           \* history: the occupants that slots have had
    windows,         \* RackVendorEditorManager: the slot of each window and its occupant
    catalog,         \* CatalogRuntime
    scanner,         \* the thread that runs the scanner, and the catalog it will publish
    library,         \* the preset files
    presets,         \* PresetRuntime
    queue,           \* DynamicCommandQueue
    preset_queue,    \* PresetCommandQueue
    command_worker,  \* where the command worker is, and the answer it is giving
    editor,          \* RackEditorModel
    preset_editor,   \* RackPresetEditorModel
    shown_catalog,   \* RackEditorWindow::Impl::catalog
    frame,           \* the copies that render_ui draws from and the user clicks on
    issued,          \* next_command_id_, of both models
    stopping         \* the queues have been stopped

rackVars == <<rack, next_slot_id, missing_states, generation, units, windows>>
catalogVars == <<catalog, scanner, shown_catalog>>
presetVars == <<library, presets>>
topologyVars == <<setup, rackVars, catalogVars, presetVars, queue, preset_queue, command_worker, editor,
                 preset_editor, frame, issued, stopping>>

EmptyCatalog == [generation |-> 1, entries |-> {}, scanning |-> FALSE]
PresetView(p) == [entries |-> p.entries, active |-> p.active]
NoFrame == [view |-> <<>>, entries |-> {}, scanning |-> TRUE,
            presets |-> [entries |-> {}, active |-> None]]
Model(view) == [generation |-> 1, view |-> view, pending |-> None, from |-> 0, accepted |-> 0]
NoAnswer ==
    [pc |-> "idle", kind |-> "none", id |-> 0, result |-> "none", generation |-> 0, changed |-> FALSE]

(* run_r3_4_persistent_product: an empty Rack is published before Ready.    *)
TopologyInit ==
    /\ setup \in Setups
    /\ rack = <<>> /\ next_slot_id = 1 /\ missing_states = {} /\ generation = 1
    /\ units = 0 /\ windows = {}
    /\ catalog = [EmptyCatalog EXCEPT !.entries = setup.installed]
    /\ scanner = [pc |-> "none", publish |-> EmptyCatalog]
    /\ shown_catalog = catalog
    /\ library = setup.library
    /\ presets = [generation |-> 1, active |-> None,
                  entries |-> {[id |-> p, name |-> library[p].name] :
                                    p \in {q \in Presets : library[q] # None}}]
    /\ queue = <<>> /\ preset_queue = <<>>
    /\ command_worker = [NoAnswer EXCEPT !.pc = "restore"]
    /\ editor = Model(<<>>)
    /\ preset_editor = Model(PresetView(presets))
    /\ frame = NoFrame
    /\ issued = 0
    /\ stopping = FALSE

-----------------------------------------------------------------------------
(* The contract of both editor models.                                      *)

Cleared(m) == [m EXCEPT !.pending = None, !.from = 0, !.accepted = 0]

(* publish_snapshot of a valid snapshot: an older one is ignored, and one    *)
(* that reaches the accepted generation ends the wait.                      *)
AfterPublish(m, number, view) ==
    IF number <= m.generation
    THEN m
    ELSE LET shown == [m EXCEPT !.generation = number, !.view = view]
         IN  IF m.accepted # 0 /\ number >= m.accepted THEN Cleared(shown) ELSE shown

(* Mutant: only the refresh is taken for transient.                         *)
TransientRefresh == {"Refresh"}

Transient == {"Refresh", "OpenEditor"}

(* Mutant: an accepted command is over before its snapshot is there.         *)
AckClears(m, answer) ==
    IF m.pending = None \/ m.pending.id # answer.id THEN m ELSE Cleared(m)

(* apply_ack of the answer to the pending command.                          *)
AfterAck(m, answer) ==
    IF m.pending = None \/ m.pending.id # answer.id
    THEN m
    ELSE CASE answer.result # "accepted" -> Cleared(m)
           [] answer.result = "accepted" /\ m.pending.type \in Transient -> Cleared(m)
           [] OTHER -> IF answer.generation <= m.from
                       THEN m
                       ELSE IF m.generation >= answer.generation
                            THEN Cleared(m)
                            ELSE [m EXCEPT !.accepted = answer.generation]

Begin(m, command) == [m EXCEPT !.pending = command, !.from = m.generation, !.accepted = 0]

-----------------------------------------------------------------------------
(* The user, in the editor window.                                          *)

(* render_ui copies the Rack, the catalog and the presets, each under a lock  *)
(* of its own, and draws them.                                              *)
DrawFrame ==
    /\ issued < MaxCommands /\ ~stopping
    /\ frame' = [view |-> editor.view, entries |-> shown_catalog.entries,
                 scanning |-> shown_catalog.scanning, presets |-> preset_editor.view]
    /\ UNCHANGED <<setup, rackVars, catalogVars, presetVars, queue, preset_queue, command_worker,
                   editor, preset_editor, issued, stopping>>

(* The catalog is copied after the Rack, and the browser keeps the place it   *)
(* was opened for over later frames.  Nothing else that is clicked on needs   *)
(* two copies, but for a drag: see ClickMove.                               *)
DrawCatalog ==
    /\ issued < MaxCommands /\ ~stopping
    /\ frame' = [frame EXCEPT !.entries = shown_catalog.entries, !.scanning = shown_catalog.scanning]
    /\ UNCHANGED <<setup, rackVars, catalogVars, presetVars, queue, preset_queue, command_worker,
                   editor, preset_editor, issued, stopping>>

(* Mutant: only the Rack's own command disables the controls.                *)
MayClickBesidePreset(type) ==
    /\ type \in setup.clicks
    /\ issued < MaxCommands
    /\ editor.pending = None
    /\ (type \in PresetCommands => preset_editor.pending = None)
    /\ ~stopping

(* render_ui disables every control while either model has a command, as it   *)
(* finds after its copies.  Only the window's own thread sets one, so what it *)
(* found idle is idle when the click is sent, and may have been found just    *)
(* before: the sampling needs no step of its own.                           *)
MayClick(type) ==
    /\ type \in setup.clicks
    /\ issued < MaxCommands
    /\ editor.pending = None /\ preset_editor.pending = None
    /\ ~stopping

(* find_dynamic_slot, and the same of the editor: the first slot of that      *)
(* identity, 0 when there is none.                                          *)
FindIn(slots, id) == SelectInSeq(slots, LAMBDA s : s.id = id)
Find(id) == FindIn(rack, id)
Shown(id) == FindIn(editor.view, id)
Occupant(slots, id) == IF FindIn(slots, id) = 0 THEN 0 ELSE slots[FindIn(slots, id)].unit

(* begin_command and dispatch; the click was on this frame.  A frame is       *)
(* behind the Rack for a slot that has another occupant in the model by now,  *)
(* or may have one that the worker has yet to publish.                      *)
RackCommand(type, slot, index, plug) ==
    LET seen == Occupant(frame.view, slot)
        command == [id |-> issued + 1, type |-> type, slot |-> slot, index |-> index, plug |-> plug,
                    catalog |-> shown_catalog.generation, seen |-> seen,
                    outdated |-> \/ command_worker.pc = "snapshot"
                                 \/ Occupant(editor.view, slot) # seen]
    IN  /\ issued' = issued + 1
        /\ editor' = Begin(editor, command)
        /\ queue' = Append(queue, command)
        /\ frame' = NoFrame
        /\ UNCHANGED <<setup, rackVars, catalogVars, presetVars, preset_queue, command_worker,
                       preset_editor, stopping>>

PresetCommand(type, preset, name) ==
    LET command == [id |-> issued + 1, type |-> type, preset |-> preset, name |-> name]
    IN  /\ issued' = issued + 1
        /\ preset_editor' = Begin(preset_editor, command)
        /\ preset_queue' = Append(preset_queue, command)
        /\ frame' = NoFrame
        /\ UNCHANGED <<setup, rackVars, catalogVars, presetVars, queue, command_worker, editor,
                       stopping>>

ShownHealth(slot) == IF slot.bypass THEN "bypassed" ELSE slot.health
CanBypass(health) == health \in {"ready", "bypassed"}

(* What is clicked is in the frame; request_* checks it again on the model.   *)
ClickAdd ==
    /\ MayClick("Add")
    /\ Len(frame.view) < MaxSlots /\ Len(editor.view) < MaxSlots
    /\ \E e \in frame.entries, i \in 0 .. Len(frame.view) :
        i <= Len(editor.view) /\ RackCommand("Add", 0, i, e)

ClickReplace ==
    /\ MayClick("Replace")
    /\ \E e \in frame.entries, i \in DOMAIN frame.view :
        Shown(frame.view[i].id) # 0 /\ RackCommand("Replace", frame.view[i].id, 0, e)

ClickRemove ==
    /\ MayClick("Remove")
    /\ \E i \in DOMAIN frame.view :
        Shown(frame.view[i].id) # 0 /\ RackCommand("Remove", frame.view[i].id, 0, None)

(* Moved by one from a card's menu, or dragged, in this frame or an older     *)
(* one, on a card of any frame up to now.                                   *)
ClickMove ==
    /\ MayClick("Move")
    /\ \E i \in DOMAIN frame.view, j \in DOMAIN editor.view :
        Shown(frame.view[i].id) \notin {0, j} /\ RackCommand("Move", frame.view[i].id, j - 1, None)

ClickBypass ==
    /\ MayClick("Bypass")
    /\ \E i \in DOMAIN frame.view :
        LET slot == frame.view[i]
            shown == Shown(slot.id)
        IN  /\ CanBypass(ShownHealth(slot))
            /\ shown # 0
            /\ CanBypass(ShownHealth(editor.view[shown]))
            /\ editor.view[shown].bypass = slot.bypass
            /\ RackCommand("Bypass", slot.id, IF slot.bypass THEN 0 ELSE 1, None)

ClickOpenEditor ==
    /\ MayClick("OpenEditor")
    /\ \E i \in DOMAIN frame.view :
        LET slot == frame.view[i]
            shown == Shown(slot.id)
        IN  /\ slot.live
            /\ shown # 0 /\ editor.view[shown].live
            /\ RackCommand("OpenEditor", slot.id, 0, None)

ClickRefresh ==
    /\ MayClick("Refresh")
    /\ ~frame.scanning
    /\ RackCommand("Refresh", 0, 0, None)

CanTarget(preset) == \E e \in preset_editor.view.entries : e.id = preset

ClickSaveAs == MayClick("SaveAs") /\ \E n \in Names : PresetCommand("SaveAs", None, n)

ClickLoad ==
    /\ MayClick("Load")
    /\ \E e \in frame.presets.entries : CanTarget(e.id) /\ PresetCommand("Load", e.id, None)

(* Rename, Delete and Update are offered for the active preset only.        *)
ClickActive ==
    /\ frame.presets.active # None
    /\ LET active == frame.presets.active.id
       IN  /\ CanTarget(active)
           /\ \/ MayClick("Rename") /\ \E n \in Names : PresetCommand("Rename", active, n)
              \/ MayClick("Delete") /\ PresetCommand("Delete", active, None)
              \/ MayClick("Update") /\ PresetCommand("Update", active, None)

-----------------------------------------------------------------------------
(* Slots.                                                                   *)

Opened(id, plug, bypass, unit) ==
    [id |-> id, plug |-> plug, bypass |-> bypass, health |-> "ready", live |-> TRUE, unit |-> unit]

(* Mutant: the window is left open on the plug-in that goes.                 *)
WindowLeft(id) == windows

WithoutWindow(id) == {w \in windows : w.slot # id}

(* assign_next_dynamic_slot_id: the first identity the slots leave free.     *)
FirstFree(slots) == Min({n \in 1 .. Len(slots) + 1 : \A i \in DOMAIN slots : slots[i].id # n})

(* capture_rack_session_slot of a plug-in; a slot without one is saved as    *)
(* it was loaded.                                                           *)
Kept(slot) == {m \in missing_states : m.id = slot.id}
CanCapture == \A i \in DOMAIN rack : rack[i].live \/ Kept(rack[i]) # {}
Captured ==
    [i \in DOMAIN rack |->
        LET slot == rack[i]
        IN  [id |-> slot.id, bypass |-> slot.bypass, health |-> slot.health,
             plug |-> IF slot.live THEN slot.plug ELSE (CHOOSE m \in Kept(slot) : TRUE).plug]]

(* materialize_preset_candidate: a slot that is quarantined is not opened,   *)
(* one that cannot be opened or restored is kept as a placeholder.           *)
Openable(saved) == {i \in DOMAIN saved : saved[i].health # "quarantined"}
Materialize(saved, opened) ==
    [i \in DOMAIN saved |->
        [id |-> saved[i].id, plug |-> saved[i].plug, bypass |-> saved[i].bypass,
         health |-> IF i \in opened THEN "ready"
                    ELSE IF i \in Openable(saved) THEN "missing" ELSE "quarantined",
         live |-> i \in opened, unit |-> units + i]]

Adopt(saved, number) ==
    \E opened \in SUBSET Openable(saved) :
        /\ rack' = Materialize(saved, opened)
        /\ missing_states' = {saved[i] : i \in DOMAIN saved \ opened}
        /\ next_slot_id' = FirstFree(saved)
        /\ units' = units + Len(saved)
        /\ windows' = {}
        /\ generation' = number

-----------------------------------------------------------------------------
(* The worker: the session, then one command at a time, presets first.      *)

restUnchanged ==
    <<setup, library, presets, catalogVars, editor, preset_editor, frame, issued, stopping>>

(* restore_working_rack_session, before the first command.                  *)
Restore ==
    /\ command_worker.pc = "restore"
    /\ \/ command_worker' = NoAnswer /\ UNCHANGED rackVars
       \/ /\ setup.session # None
          /\ Adopt(setup.session.slots, setup.session.generation)
          /\ command_worker' = [NoAnswer EXCEPT !.pc = "snapshot", !.kind = "restore"]
    /\ UNCHANGED <<restUnchanged, queue, preset_queue>>

Ready == command_worker.pc = "idle" /\ ~stopping

Take(type) ==
    /\ Ready /\ preset_queue = <<>>
    /\ queue # <<>> /\ Head(queue).type = type
    /\ queue' = Tail(queue)
    /\ UNCHANGED preset_queue
Command == Head(queue)

Answer(result, number, changed) ==
    command_worker' = [pc |-> "ack", kind |-> "rack", id |-> Command.id, result |-> result,
                       generation |-> number, changed |-> changed]
Refuse(result) == Answer(result, generation, FALSE) /\ UNCHANGED rackVars

(* publish_dynamic_generation, and the answer that names the new generation. *)
Commit == generation' = generation + 1 /\ Answer("accepted", generation + 1, TRUE)

(* resolve_catalog_record: only of the catalog the user was shown.          *)
Resolves == Command.catalog = catalog.generation /\ Command.plug \in catalog.entries

MayAdd == Len(rack) < MaxSlots /\ Command.index <= Len(rack) /\ Resolves

ExecuteAdd ==
    /\ Take("Add")
    /\ \/ ~MayAdd /\ Refuse("rejected")
       \/ MayAdd /\ Refuse("failed")
       \/ /\ MayAdd
          /\ rack' = InsertAt(rack, Command.index + 1,
                              Opened(next_slot_id, Command.plug, FALSE, units + 1))
          /\ next_slot_id' = next_slot_id + 1
          /\ units' = units + 1
          /\ Commit
          /\ UNCHANGED <<missing_states, windows>>
    /\ UNCHANGED restUnchanged

ExecuteMove ==
    LET source == Find(Command.slot)
        may == source # 0 /\ Command.index < Len(rack) /\ source # Command.index + 1
    IN  /\ Take("Move")
        /\ \/ ~may /\ Refuse("rejected")
           \/ may /\ Refuse("failed")
           \/ /\ may
              /\ rack' = InsertAt(RemoveAt(rack, source), Command.index + 1, rack[source])
              /\ Commit
              /\ UNCHANGED <<next_slot_id, missing_states, units, windows>>
        /\ UNCHANGED restUnchanged

ExecuteBypass ==
    LET i == Find(Command.slot)
        may == i # 0 /\ rack[i].bypass # (Command.index = 1) /\ CanBypass(rack[i].health)
    IN  /\ Take("Bypass")
        /\ \/ ~may /\ Refuse("rejected")
           \/ may /\ Refuse("failed")
           \/ /\ may
              /\ rack' = [rack EXCEPT ![i].bypass = (Command.index = 1)]
              /\ Commit
              /\ UNCHANGED <<next_slot_id, missing_states, units, windows>>
        /\ UNCHANGED restUnchanged

ExecuteRemove ==
    LET i == Find(Command.slot)
    IN  /\ Take("Remove")
        /\ \/ i = 0 /\ Refuse("rejected")
           \/ i # 0 /\ Refuse("failed")
           \/ /\ i # 0
              /\ windows' = WithoutWindow(Command.slot)
              /\ rack' = RemoveAt(rack, i)
              /\ Commit
              /\ UNCHANGED <<next_slot_id, missing_states, units>>
        /\ UNCHANGED restUnchanged

ExecuteReplace ==
    LET i == Find(Command.slot)
        may == i # 0 /\ Resolves
    IN  /\ Take("Replace")
        /\ \/ ~may /\ Refuse("rejected")
           \/ may /\ Refuse("failed")
           \/ /\ may
              /\ windows' = WithoutWindow(Command.slot)
              /\ rack' = [rack EXCEPT ![i] = Opened(Command.slot, Command.plug, rack[i].bypass, units + 1)]
              /\ units' = units + 1
              /\ Commit
              /\ UNCHANGED <<next_slot_id, missing_states>>
        /\ UNCHANGED restUnchanged

(* The window of a slot is opened, or shown again on the slot's plug-in.     *)
ExecuteOpenEditor ==
    LET i == Find(Command.slot)
        may == i # 0 /\ rack[i].live
    IN  /\ Take("OpenEditor")
        /\ \/ ~may /\ Refuse("rejected")
           \/ may /\ Refuse("failed")
           \/ /\ may
              /\ windows' = WithoutWindow(Command.slot)
                               \cup {[slot |-> Command.slot, unit |-> rack[i].unit]}
              /\ Answer("accepted", generation, FALSE)
              /\ UNCHANGED <<rack, next_slot_id, missing_states, generation, units>>
        /\ UNCHANGED restUnchanged

(* start_catalog_refresh; a scanner thread that has ended is joined first,   *)
(* and what it has yet to publish is older than what is published here.      *)
StartRefresh ==
    /\ Take("Refresh")
    /\ ~catalog.scanning
    /\ catalog' = [catalog EXCEPT !.scanning = TRUE, !.generation = @ + 1]
    /\ shown_catalog' = catalog'
    /\ scanner' = [scanner EXCEPT !.pc = "scanning"]
    /\ Answer("accepted", generation, FALSE)
    /\ UNCHANGED <<setup, rackVars, presetVars, editor, preset_editor, frame, issued, stopping>>

(* Asked for on a frame from before the scan.                               *)
RefuseRefresh ==
    /\ Take("Refresh")
    /\ catalog.scanning
    /\ Refuse("rejected")
    /\ UNCHANGED restUnchanged

ExecuteRefresh == StartRefresh \/ RefuseRefresh

-----------------------------------------------------------------------------
(* Preset commands; every one may fail for its file, and is rejected for a   *)
(* preset that is not listed, which the editor's model does not let through. *)

TakePreset(type) ==
    /\ Ready
    /\ preset_queue # <<>> /\ Head(preset_queue).type = type
    /\ preset_queue' = Tail(preset_queue)
    /\ UNCHANGED <<setup, queue, catalogVars, editor, preset_editor, frame, issued, stopping>>
Asked == Head(preset_queue)
Listed == \E e \in presets.entries : e.id = Asked.preset

(* The answer of execute_preset_command, and PresetRuntime after it.         *)
Accept(entries, active, changed) ==
    /\ presets' = [generation |-> presets.generation + 1, entries |-> entries, active |-> active]
    /\ command_worker' = [pc |-> "ack", kind |-> "preset", id |-> Asked.id, result |-> "accepted",
                          generation |-> presets.generation + 1, changed |-> changed]

PresetFails ==
    /\ \E type \in PresetCommands : TakePreset(type)
    /\ command_worker' = [pc |-> "ack", kind |-> "preset", id |-> Asked.id, result |-> "failed",
                          generation |-> presets.generation, changed |-> FALSE]
    /\ UNCHANGED <<rackVars, presetVars>>

Entry(p, name) == [id |-> p, name |-> name]
Others(p) == {e \in presets.entries : e.id # p}
NameOf(p) == (CHOOSE e \in presets.entries : e.id = p).name
(* write_rack_preset_atomic encodes the Rack first.                          *)
WriteRack(p, name) ==
    /\ CanCapture /\ DistinctIds(rack)
    /\ library' = [library EXCEPT ![p] = [name |-> name, slots |-> Captured]]

ExecuteSaveAs ==
    /\ TakePreset("SaveAs")
    /\ \E p \in {q \in Presets : library[q] = None} :
        /\ WriteRack(p, Asked.name)
        /\ Accept(presets.entries \cup {Entry(p, Asked.name)}, Entry(p, Asked.name), FALSE)
    /\ UNCHANGED rackVars

ExecuteUpdate ==
    /\ TakePreset("Update") /\ Listed
    /\ WriteRack(Asked.preset, NameOf(Asked.preset))
    /\ Accept(presets.entries, Entry(Asked.preset, NameOf(Asked.preset)), FALSE)
    /\ UNCHANGED rackVars

(* Mutant: a load is answered like the commands that leave the Rack alone.   *)
LoadUnshown ==
    /\ TakePreset("Load") /\ Listed
    /\ Adopt(library[Asked.preset].slots, generation + 1)
    /\ Accept(presets.entries, Entry(Asked.preset, library[Asked.preset].name), FALSE)
    /\ UNCHANGED library

(* load_preset_into_rack: the whole Rack is built aside, then swapped in.    *)
ExecuteLoad ==
    /\ TakePreset("Load") /\ Listed
    /\ Adopt(library[Asked.preset].slots, generation + 1)
    /\ Accept(presets.entries, Entry(Asked.preset, library[Asked.preset].name), TRUE)
    /\ UNCHANGED library

ExecuteRename ==
    LET renamed == Entry(Asked.preset, Asked.name)
    IN  /\ TakePreset("Rename") /\ Listed
        /\ library' = [library EXCEPT ![Asked.preset].name = Asked.name]
        /\ Accept(Others(Asked.preset) \cup {renamed},
                  IF presets.active.id = Asked.preset THEN renamed ELSE presets.active, FALSE)
        /\ UNCHANGED rackVars

ExecuteDelete ==
    /\ TakePreset("Delete") /\ Listed
    /\ library' = [library EXCEPT ![Asked.preset] = None]
    /\ Accept(Others(Asked.preset),
              IF presets.active.id = Asked.preset THEN None ELSE presets.active, FALSE)
    /\ UNCHANGED rackVars

-----------------------------------------------------------------------------
(* What the worker tells the editor after a command.                        *)

tellUnchanged == <<setup, rack, next_slot_id, generation, units, windows, catalogVars, presetVars,
                   queue, preset_queue, frame, issued, stopping>>

ApplyAck ==
    /\ command_worker.pc = "ack" /\ command_worker.kind = "rack"
    /\ editor' = AfterAck(editor, command_worker)
    /\ command_worker' = IF command_worker.changed
                         THEN [command_worker EXCEPT !.pc = "snapshot"] ELSE NoAnswer
    /\ UNCHANGED <<tellUnchanged, missing_states, preset_editor>>

ApplyPresetAck ==
    /\ command_worker.pc = "ack" /\ command_worker.kind = "preset"
    /\ preset_editor' = AfterAck(preset_editor, command_worker)
    /\ command_worker' = IF command_worker.result = "accepted"
                         THEN [command_worker EXCEPT !.pc = "presets"] ELSE NoAnswer
    /\ UNCHANGED <<tellUnchanged, missing_states, editor>>

PublishPresets ==
    /\ command_worker.pc = "presets"
    /\ preset_editor' = AfterPublish(preset_editor, presets.generation, PresetView(presets))
    /\ command_worker' = IF command_worker.changed
                         THEN [command_worker EXCEPT !.pc = "snapshot"] ELSE NoAnswer
    /\ UNCHANGED <<tellUnchanged, missing_states, editor>>

(* MissingPresetStateStore::prune: what no placeholder needs any more.       *)
Pruned == {m \in missing_states : Find(m.id) # 0 /\ ~rack[Find(m.id)].live}

PublishSnapshot ==
    /\ command_worker.pc = "snapshot"
    /\ missing_states' = IF command_worker.kind = "rack" THEN Pruned ELSE missing_states
    /\ editor' = IF DistinctIds(rack) THEN AfterPublish(editor, generation, rack) ELSE editor
    /\ command_worker' = NoAnswer
    /\ UNCHANGED <<tellUnchanged, preset_editor>>

(* The loop ends and the vendor windows are closed, before the plug-ins.     *)
WorkerStops ==
    /\ stopping /\ command_worker.pc = "idle"
    /\ command_worker' = [command_worker EXCEPT !.pc = "stopped"]
    /\ windows' = {}
    /\ UNCHANGED <<setup, rack, next_slot_id, missing_states, generation, units, catalogVars,
                   presetVars, queue, preset_queue, editor, preset_editor, frame, issued, stopping>>

-----------------------------------------------------------------------------
(* The scanner thread: the cache is loaded when the scan has succeeded.      *)

scanUnchanged == <<setup, rackVars, presetVars, queue, preset_queue, command_worker, editor,
                   preset_editor, frame, issued, stopping>>

ScanEnds ==
    /\ scanner.pc = "scanning"
    /\ \/ catalog' = [catalog EXCEPT !.scanning = FALSE, !.generation = @ + 1]
       \/ \E found \in {setup.installed, Plugs} :
            catalog' = [generation |-> catalog.generation + 2, entries |-> found, scanning |-> FALSE]
    /\ scanner' = [pc |-> "publishing", publish |-> catalog']
    /\ UNCHANGED <<shown_catalog, scanUnchanged>>

(* RackEditorWindow::publish_catalog refuses what is not newer.              *)
PublishCatalog ==
    /\ scanner.pc = "publishing"
    /\ scanner' = [scanner EXCEPT !.pc = "none"]
    /\ shown_catalog' = IF scanner.publish.generation > shown_catalog.generation
                        THEN scanner.publish ELSE shown_catalog
    /\ UNCHANGED <<catalog, scanUnchanged>>

(* The audio loop of the helper has ended and stops the queues.              *)
Stop ==
    /\ ~stopping /\ stopping' = TRUE
    /\ UNCHANGED <<setup, rackVars, catalogVars, presetVars, queue, preset_queue, command_worker, editor,
                   preset_editor, frame, issued>>

-----------------------------------------------------------------------------
User ==
    \/ DrawFrame \/ DrawCatalog
    \/ ClickAdd \/ ClickReplace \/ ClickRemove \/ ClickMove \/ ClickBypass
    \/ ClickOpenEditor \/ ClickRefresh \/ ClickSaveAs \/ ClickLoad \/ ClickActive

Worker ==
    \/ Restore
    \/ ExecuteAdd \/ ExecuteMove \/ ExecuteBypass \/ ExecuteRemove \/ ExecuteReplace
    \/ ExecuteOpenEditor \/ ExecuteRefresh
    \/ PresetFails \/ ExecuteSaveAs \/ ExecuteUpdate \/ ExecuteLoad \/ ExecuteRename \/ ExecuteDelete
    \/ ApplyAck \/ ApplyPresetAck \/ PublishPresets \/ PublishSnapshot
    \/ WorkerStops

Scanner == ScanEnds \/ PublishCatalog

TopologyNext == User \/ Worker \/ Scanner \/ Stop

(* The worker and the scanner are threads that wait for nobody in the model: *)
(* a plug-in that never returns is outside it.                              *)
TopologySpec ==
    /\ TopologyInit /\ [][TopologyNext]_topologyVars
    /\ WF_topologyVars(Worker) /\ WF_topologyVars(Scanner)

-----------------------------------------------------------------------------
Slot == [id : Nat \ {0}, plug : Plugs, bypass : BOOLEAN, health : Healths,
         live : BOOLEAN, unit : Nat]
Racks == {slots \in Seq(Slot) :
            /\ Len(slots) <= MaxSlots
            /\ \A i \in DOMAIN slots : slots[i].live <=> slots[i].health = "ready"}
PluginCatalog == [generation : Nat \ {0}, entries : SUBSET Plugs, scanning : BOOLEAN]
PresetList == [entries : SUBSET Listing, active : Listing \cup {None}]
Answers == [pc : {"restore", "idle", "ack", "presets", "snapshot", "stopped"},
            kind : {"none", "rack", "preset", "restore"}, id : Nat,
            result : {"none", "accepted", "rejected", "failed"}, generation : Nat, changed : BOOLEAN]
Frames ==
    [view : Racks, entries : SUBSET Plugs, scanning : BOOLEAN, presets : PresetList]
Models(views, requests) ==
    [generation : Nat \ {0}, view : views, pending : requests \cup {None}, from : Nat, accepted : Nat]

TopologyTypes ==
    /\ setup \in Setups
    /\ rack \in Racks /\ next_slot_id \in Nat \ {0} /\ generation \in Nat \ {0} /\ units \in Nat
    /\ missing_states \in SUBSET SavedSlot
    /\ windows \in SUBSET [slot : Nat, unit : Nat]
    /\ catalog \in PluginCatalog /\ shown_catalog \in PluginCatalog
    /\ scanner \in [pc : {"none", "scanning", "publishing"}, publish : PluginCatalog]
    /\ library \in [Presets -> Preset \cup {None}]
    /\ presets \in [generation : Nat \ {0}, entries : SUBSET Listing, active : Listing \cup {None}]
    /\ queue \in Seq(RackRequest) /\ preset_queue \in Seq(PresetRequest)
    /\ command_worker \in Answers
    /\ editor \in Models(Racks, RackRequest) /\ preset_editor \in Models(PresetList, PresetRequest)
    /\ frame \in Frames
    /\ issued \in Nat /\ stopping \in BOOLEAN

(* The Rack never has more slots than kRackMaxSlots, a slot has an open       *)
(* plug-in exactly when it is ready, no publication is of a number the        *)
(* publisher has not reached, and at most one command of either kind is      *)
(* queued (the queues' capacity of 16 is never needed).                     *)
TopologyTypeOK ==
    /\ TopologyTypes
    /\ Len(queue) + Len(preset_queue) <= 1
    /\ catalog.generation >= shown_catalog.generation
    /\ editor.generation <= generation /\ preset_editor.generation <= presets.generation

(* A slot that has no plug-in still has the state it was saved with, so that *)
(* capture_current_rack never fails for it and saves what was loaded.  Once   *)
(* an identity is used twice (see UniqueIds) every save fails.              *)
PlaceholdersKept ==
    DistinctIds(rack) =>
        \A i \in DOMAIN rack :
            ~rack[i].live => \E m \in missing_states : m.id = rack[i].id /\ m.plug = rack[i].plug

(* A vendor window is that of the plug-in its slot holds now: the manager     *)
(* keeps a raw pointer to the plug-in and calls it in pump_messages.         *)
WindowsOnLivePlugins ==
    \A w \in windows :
        \E i \in DOMAIN rack : rack[i].live /\ rack[i].id = w.slot /\ rack[i].unit = w.unit

(* What the helper keeps beside the slots stays true to them through edits,   *)
(* preset loads and the restored session.                                   *)
RackCoherent == PlaceholdersKept /\ WindowsOnLivePlugins

(* A command acts on the occupant the user saw in that slot when clicking,    *)
(* although presets reuse the slot identities: no preset load comes between   *)
(* the click and its execution, and what the editor's model has at the click  *)
(* is what the slot holds.  Excepted is a click on a frame that is behind the *)
(* Rack at that slot: a replacement or a preset load has put another occupant *)
(* there since it was drawn, or a preset load is between its two              *)
(* publications, the first of which enables the controls before the editor   *)
(* has the loaded Rack.                                                     *)
HitsSeenSlot ==
    LET slot == Find(Command.slot)
    IN  queue # <<>> /\ queue' = <<>> /\ command_worker'.result = "accepted"
        /\ ~Command.outdated /\ Command.slot # 0
        => slot # 0 /\ rack[slot].unit = Command.seen
EditHitsSeenSlot == [][HitsSeenSlot]_topologyVars

Quiet == command_worker.pc = "idle" /\ queue = <<>> /\ preset_queue = <<>> /\ scanner.pc = "none"

(* With nothing under way the editor shows the Rack, the presets and the      *)
(* catalog as they are.  Excepted is a restored session of generation 1:     *)
(* the empty Rack was published with that number and the editor refuses the  *)
(* restored one until the next change.  A Rack with an identity twice is     *)
(* refused as well, and the command that led to it stays pending.            *)
EditorShowsRack ==
    Quiet =>
        /\ DistinctIds(rack) => generation = 1 \/ (editor.view = rack /\ editor.generation = generation)
        /\ ~DistinctIds(rack) => editor.pending # None
        /\ preset_editor.view = PresetView(presets)
        /\ shown_catalog = catalog

(* The controls that a command disables are enabled again, unless it has led  *)
(* to a Rack that the editor refuses.                                       *)
Waiting == ~stopping /\ (editor.pending # None \/ preset_editor.pending # None)
PendingClears == Waiting ~> ~Waiting \/ ~DistinctIds(rack)

(* ADR-0002: every slot has a stable identity, and the slot id is it.         *)
UniqueIds == DistinctIds(rack)
=============================================================================
