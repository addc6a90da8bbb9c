----------------------------- MODULE RackFiles -----------------------------
(***************************************************************************)
(* What the Rack helpers keep on disk (src/rack/):                          *)
(*   - the session of a Rack, written by the helper of that Rack alone:      *)
(*     rack_session_snapshot.cpp, rack_session_runtime.hpp and               *)
(*     main_r3_4_persistent.cpp;                                            *)
(*   - the preset library, one file per preset, which the helpers of every   *)
(*     Rack share: rack_preset_library.cpp, rack_preset_management.cpp and   *)
(*     the preset commands of main_r3_4.cpp.                                *)
(* The save handshake with OBS is in RackBridge.                             *)
(*                                                                          *)
(* A save writes a temporary file and renames it over the current one, after *)
(* it has done the same with a copy of the current one for `.previous'.      *)
(* Each helper is a process: it may die at any point, and the steps of two   *)
(* helpers interleave.  A Rack is a number, given by the last change made to *)
(* it; 0 is the empty Rack.                                                 *)
(***************************************************************************)
EXTENDS Naturals, Sequences, FiniteSets

CONSTANTS
    Helpers,
    Setups,        \* bound: helpers at work, the one whose session is followed, changes
    Session,       \* the session file
    Presets,       \* bound: the identifiers CoCreateGuid will give
    Missing, Torn, \* a file that does not exist, one that does not decode
    Nobody,
    MaxEdits,      \* bound: changes made to a Rack
    MaxCrashes     \* bound: helpers that die

ASSUME SetupAssumption ==
    /\ Nobody \notin Helpers
    /\ Setups \subseteq [helpers : SUBSET Helpers, owner : Helpers \cup {Nobody}, edits : 0 .. MaxEdits]
ASSUME SessionAssumption == Session \notin Presets
ASSUME EditsAssumption == MaxEdits \in Nat /\ MaxCrashes \in Nat
ASSUME RackAssumption ==
    /\ Missing # Torn
    /\ {Missing, Torn} \cap (0 .. MaxEdits) = {}

VARIABLES
    setup,         \* one of the Setups; it stays
    disk,          \* per file its four paths and what they hold
    writing,       \* per path the helper that has it open, exclusively
    step,          \* per helper, what its command worker does next
    job,           \* per helper, the save or the deletion at hand
    rack,          \* per helper, its working Rack
    known,         \* per helper, PresetRuntime::entries
    used,          \* the preset identifiers given
    edits,         \* changes made so far
    crashes,       \* helpers that have died
    superseded,    \* history: the session that the current one has replaced
    alive          \* history: the files whose last save succeeded, less deleted

diskVars == <<disk, writing>>
workVars == <<step, job>>
vars == <<setup, diskVars, workVars, rack, known, used, edits, crashes, superseded, alive>>

Files == Presets \cup {Session}
Suffixes == {"current", "previous", "tmp", "previous.tmp"}
Racks == 0 .. MaxEdits
Contents == Racks \cup {Missing, Torn}
NoJob == [file |-> Session, value |-> 0, old |-> Missing, after |-> "none"]

Init ==
    /\ setup \in Setups
    /\ disk = [f \in Files |-> [s \in Suffixes |-> Missing]]
    /\ writing = [f \in Files |-> [s \in Suffixes |-> Nobody]]
    /\ step = [h \in Helpers |-> "down"]
    /\ job = [h \in Helpers |-> NoJob]
    /\ rack = [h \in Helpers |-> 0]
    /\ known = [h \in Helpers |-> {}]
    /\ used = {}
    /\ edits = 0
    /\ crashes = 0
    /\ superseded = Missing
    /\ alive = {}

-----------------------------------------------------------------------------
(* Files.                                                                   *)

(* decode_rack_session_snapshot refuses what is not a whole file, by its     *)
(* checksum.                                                                *)
Decodes(content) == content \in Racks

(* decode_rack_preset: the session inside it has a checksum too.             *)
DecodesPreset(content) == Decodes(content)

DecodesAt(f, suffix) ==
    IF f = Session THEN Decodes(disk[f][suffix]) ELSE DecodesPreset(disk[f][suffix])

(* read_and_decode; a path among the unreadable gives an error.              *)
Reads(f, suffix, unreadable) == suffix \notin unreadable /\ DecodesAt(f, suffix)

(* load_rack_session_snapshot_lkg.                                          *)
Load(f, unreadable) ==
    IF Reads(f, "current", unreadable) THEN disk[f]["current"]
    ELSE IF Reads(f, "previous", unreadable) THEN disk[f]["previous"]
    ELSE Missing

Loaded(f) == Load(f, {})

(* load_rack_preset_lkg.                                                    *)
LoadPreset(p, unreadable) == Load(p, unreadable)

Erased(paths, f, names, h) ==
    [paths EXCEPT ![f] = [s \in Suffixes |->
        IF s \in names /\ writing[f][s] \in {Nobody, h} THEN Missing ELSE @[s]]]

(* The first half of write_bytes_flushed: CREATE_ALWAYS, shared with nobody. *)
Create(h, s, next) ==
    LET f == job[h].file IN
    /\ writing[f][s] = Nobody
    /\ disk' = [disk EXCEPT ![f][s] = Torn]
    /\ writing' = [writing EXCEPT ![f][s] = h]
    /\ step' = [step EXCEPT ![h] = next]

(* The second half: the bytes are in the file and flushed.                   *)
Fill(h, s, value, next) ==
    LET f == job[h].file IN
    /\ disk' = [disk EXCEPT ![f][s] = value]
    /\ writing' = [writing EXCEPT ![f][s] = Nobody]
    /\ step' = [step EXCEPT ![h] = next]

(* atomic_replace: a file that somebody has open cannot be renamed.          *)
Rename(h, from, to, next) ==
    LET f == job[h].file IN
    /\ disk[f][from] # Missing
    /\ writing[f][from] = Nobody
    /\ disk' = [disk EXCEPT ![f] = [@ EXCEPT ![to] = disk[f][from], ![from] = Missing]]
    /\ writing' = writing
    /\ step' = [step EXCEPT ![h] = next]

Others == <<rack, known, used, edits, crashes, superseded>>

-----------------------------------------------------------------------------
(* A save: write_rack_session_snapshot_atomic and, the same for a preset,    *)
(* write_rack_preset_atomic.  Every system call may fail.                    *)

EndSave(h) ==
    /\ job' = [job EXCEPT ![h] = NoJob]
    /\ step' = [step EXCEPT ![h] = "idle"]

FailSave(h) ==
    /\ EndSave(h)
    /\ UNCHANGED <<writing, rack, known, used, edits, crashes, superseded, alive>>

(* encode_rack_session_snapshot refuses a Rack beyond its bounds.            *)
RefuseSave(h) == EndSave(h)

(* capture_current_rack may fail as well.                                   *)
BeginSave(h, f, value, after) ==
    \/ /\ job' = [job EXCEPT ![h] = [file |-> f, value |-> value, old |-> Missing, after |-> after]]
       /\ step' = [step EXCEPT ![h] = "clean"]
    \/ RefuseSave(h)

(* encode_rack_preset: the session of the Rack, in the preset.               *)
BeginPreset(h, p, value, after) == p \in Presets /\ BeginSave(h, p, value, after)

(* persist_working_rack_session: only with a session file.                   *)
Persist(h, value) ==
    IF h = setup.owner THEN BeginSave(h, Session, value, "none")
    ELSE EndSave(h)

(* What the last run left.                                                  *)
CleanUp(h) ==
    /\ step[h] = "clean"
    /\ disk' = Erased(disk, job[h].file, {"tmp", "previous.tmp"}, h)
    /\ step' = [step EXCEPT ![h] = "rotate"]
    /\ UNCHANGED <<writing, job, Others, alive>>

(* The current file is kept as it is, decoded or not.                        *)
KeepAnyCurrent(h) ==
    LET current == disk[job[h].file]["current"] IN
    /\ step[h] = "rotate"
    /\ step' = [step EXCEPT ![h] = IF current # Missing THEN "create previous" ELSE "create"]
    /\ job' = [job EXCEPT ![h].old = current]
    /\ UNCHANGED <<diskVars, Others, alive>>

(* The current file is not kept.                                            *)
KeepNoCurrent(h) ==
    /\ step[h] = "rotate"
    /\ step' = [step EXCEPT ![h] = "create"]
    /\ UNCHANGED <<diskVars, job, Others, alive>>

(* A current file that does not decode is not kept, one that cannot be read  *)
(* stops the save.                                                          *)
Rotate(h) ==
    LET current == disk[job[h].file]["current"] IN
    /\ step[h] = "rotate"
    /\ step' = [step EXCEPT ![h] = IF DecodesAt(job[h].file, "current") THEN "create previous" ELSE "create"]
    /\ job' = [job EXCEPT ![h].old = IF DecodesAt(job[h].file, "current") THEN current ELSE Missing]
    /\ UNCHANGED <<diskVars, Others, alive>>

CreatePrevious(h) ==
    /\ step[h] = "create previous"
    /\ Create(h, "previous.tmp", "fill previous")
    /\ UNCHANGED <<job, Others, alive>>

FillPrevious(h) ==
    /\ step[h] = "fill previous"
    /\ Fill(h, "previous.tmp", job[h].old, "replace previous")
    /\ UNCHANGED <<job, Others, alive>>

(* The rename of the copy is left out.                                      *)
LeavePrevious(h) ==
    /\ step[h] = "replace previous"
    /\ step' = [step EXCEPT ![h] = "create"]
    /\ UNCHANGED <<diskVars, job, Others, alive>>

ReplacePrevious(h) ==
    /\ step[h] = "replace previous"
    /\ Rename(h, "previous.tmp", "previous", "create")
    /\ UNCHANGED <<job, Others, alive>>

CreateTemp(h) ==
    /\ step[h] = "create"
    /\ Create(h, "tmp", "fill")
    /\ UNCHANGED <<job, Others, alive>>

FillTemp(h) ==
    /\ step[h] = "fill"
    /\ Fill(h, "tmp", job[h].value, "check")
    /\ UNCHANGED <<job, Others, alive>>

CheckTemp(h) ==
    /\ step[h] = "check"
    /\ disk[job[h].file]["tmp"] = job[h].value
    /\ writing[job[h].file]["tmp"] = Nobody
    /\ step' = [step EXCEPT ![h] = "replace"]
    /\ UNCHANGED <<diskVars, job, Others, alive>>

ReplaceCurrent(h) ==
    /\ step[h] = "replace"
    /\ Rename(h, "tmp", "current", "read back")
    /\ superseded' = IF job[h].file = Session THEN disk[Session]["current"] ELSE superseded
    /\ UNCHANGED <<job, rack, known, used, edits, crashes, alive>>

(* A new preset enters the list.                                            *)
ReadBack(h) ==
    LET f == job[h].file IN
    /\ step[h] = "read back"
    /\ disk[f]["current"] = job[h].value
    /\ EndSave(h)
    /\ alive' = alive \cup {f}
    /\ known' = [known EXCEPT ![h] = IF job[h].after = "list" THEN @ \cup {f} ELSE @]
    /\ UNCHANGED <<diskVars, rack, used, edits, crashes, superseded>>

(* A file that does not read back is deleted.                                *)
DeleteUnread(h) ==
    /\ step[h] \in {"rotate", "create previous", "create", "read back"}
    /\ disk' = IF step[h] = "read back" THEN Erased(disk, job[h].file, {"current"}, h) ELSE disk
    /\ FailSave(h)

(* A call that fails ends the save, and takes the temporary file it was      *)
(* about away.                                                              *)
FailBefore(h) ==
    /\ step[h] \in {"rotate", "create previous", "create", "read back"}
    /\ disk' = disk
    /\ FailSave(h)

FailPrevious(h) ==
    /\ step[h] = "replace previous"
    /\ disk' = Erased(disk, job[h].file, {"previous.tmp"}, h)
    /\ FailSave(h)

FailTemp(h) ==
    /\ step[h] \in {"check", "replace"}
    /\ disk' = Erased(disk, job[h].file, {"tmp"}, h)
    /\ FailSave(h)

FailFill(h) ==
    LET f == job[h].file
        s == IF step[h] = "fill" THEN "tmp" ELSE "previous.tmp"
    IN
    /\ step[h] \in {"fill", "fill previous"}
    /\ disk' = [disk EXCEPT ![f][s] = Missing]
    /\ writing' = [writing EXCEPT ![f][s] = Nobody]
    /\ EndSave(h)
    /\ UNCHANGED <<Others, alive>>

SaveStep(h) ==
    \/ CleanUp(h)
    \/ Rotate(h)
    \/ CreatePrevious(h)
    \/ FillPrevious(h)
    \/ ReplacePrevious(h)
    \/ CreateTemp(h)
    \/ FillTemp(h)
    \/ CheckTemp(h)
    \/ ReplaceCurrent(h)
    \/ ReadBack(h)
    \/ FailBefore(h)
    \/ FailPrevious(h)
    \/ FailTemp(h)
    \/ FailFill(h)

(* write_rack_session_snapshot_atomic, write_rack_preset_atomic.             *)
SessionStep(h) == job[h].file = Session /\ SaveStep(h)
PresetStep(h) == job[h].file \in Presets /\ SaveStep(h)

-----------------------------------------------------------------------------
(* The command worker, between two commands.                                *)

(* An accepted topology command.                                            *)
EditRack(h) ==
    /\ step[h] = "idle"
    /\ edits < setup.edits
    /\ edits' = edits + 1
    /\ rack' = [rack EXCEPT ![h] = edits + 1]
    /\ Persist(h, edits + 1)
    /\ UNCHANGED <<diskVars, known, used, crashes, superseded, alive>>

(* The user turns a knob of a plug-in: nothing is saved.                     *)
Tune(h) ==
    /\ h = setup.owner
    /\ step[h] \notin {"down", "restore"}
    /\ edits < setup.edits
    /\ edits' = edits + 1
    /\ rack' = [rack EXCEPT ![h] = edits + 1]
    /\ UNCHANGED <<diskVars, workVars, known, used, crashes, superseded, alive>>

(* OBS saves its scene collection and asks for the session.                  *)
ServeSave(h) ==
    /\ h = setup.owner
    /\ step[h] = "idle"
    /\ Persist(h, rack[h])
    /\ UNCHANGED <<diskVars, Others, alive>>

SaveAs(h) ==
    /\ step[h] = "idle"
    /\ \E p \in Presets \ used :
          /\ used' = used \cup {p}
          /\ BeginPreset(h, p, rack[h], "list")
    /\ UNCHANGED <<diskVars, rack, known, edits, crashes, superseded, alive>>

UpdatePreset(h) ==
    /\ step[h] = "idle"
    /\ \E p \in known[h] : BeginPreset(h, p, rack[h], "none")
    /\ UNCHANGED <<diskVars, Others, alive>>

(* load_preset_into_rack; the session then follows.                          *)
ApplyPreset(h) ==
    /\ step[h] = "idle"
    /\ \E p \in known[h], unreadable \in SUBSET {"current", "previous"} :
          LET preset == LoadPreset(p, unreadable) IN
          /\ preset # Missing
          /\ rack' = [rack EXCEPT ![h] = preset]
          /\ Persist(h, preset)
    /\ UNCHANGED <<diskVars, known, used, edits, crashes, superseded, alive>>

(* rename_rack_preset_atomic writes what it has loaded, under the new name.  *)
RenamePreset(h) ==
    /\ step[h] = "idle"
    /\ \E p \in known[h], unreadable \in SUBSET {"current", "previous"} :
          /\ LoadPreset(p, unreadable) # Missing
          /\ BeginPreset(h, p, LoadPreset(p, unreadable), "none")
    /\ UNCHANGED <<diskVars, Others, alive>>

(* delete_rack_preset removes the four paths in this order and stops at the  *)
(* first that cannot be.                                                    *)
DeletePreset(h) ==
    /\ step[h] = "idle"
    /\ \E p \in known[h] : job' = [job EXCEPT ![h] = [NoJob EXCEPT !.file = p]]
    /\ step' = [step EXCEPT ![h] = "delete current"]
    /\ UNCHANGED <<diskVars, Others, alive>>

Deleting(suffix) ==
    CASE suffix = "current" -> "delete current"
      [] suffix = "previous" -> "delete previous"
      [] suffix = "tmp" -> "delete tmp"
      [] suffix = "previous.tmp" -> "delete previous.tmp"

AfterDelete(suffix) ==
    CASE suffix = "current" -> "delete previous"
      [] suffix = "previous" -> "delete tmp"
      [] suffix = "tmp" -> "delete previous.tmp"
      [] suffix = "previous.tmp" -> "idle"

DeletePath(h, suffix) ==
    LET f == job[h].file
        next == AfterDelete(suffix)
    IN
    /\ step[h] = Deleting(suffix)
    /\ writing[f][suffix] = Nobody
    /\ disk' = Erased(disk, f, {suffix}, h)
    /\ alive' = alive \ {f}
    /\ step' = [step EXCEPT ![h] = next]
    /\ job' = IF next = "idle" THEN [job EXCEPT ![h] = NoJob] ELSE job
    /\ known' = [known EXCEPT ![h] = IF next = "idle" THEN @ \ {f} ELSE @]
    /\ UNCHANGED <<writing, rack, used, edits, crashes, superseded>>

FailDelete(h) ==
    /\ \E s \in Suffixes : step[h] = Deleting(s)
    /\ disk' = disk
    /\ FailSave(h)

Work(h) ==
    \/ EditRack(h)
    \/ Tune(h)
    \/ ServeSave(h)
    \/ SaveAs(h)
    \/ UpdatePreset(h)
    \/ ApplyPreset(h)
    \/ RenamePreset(h)
    \/ DeletePreset(h)
    \/ \E s \in Suffixes : DeletePath(h, s)
    \/ FailDelete(h)

-----------------------------------------------------------------------------
(* Processes.                                                               *)

(* list_rack_presets: a preset is listed when its current path exists and it *)
(* loads, which may fail.                                                   *)
Listed(failed) ==
    {p \in Presets \ failed : disk[p]["current"] # Missing /\ LoadPreset(p, {}) # Missing}

Launch(h) ==
    /\ step[h] = "down"
    /\ step' = [step EXCEPT ![h] = "restore"]
    /\ \E failed \in SUBSET Presets :
          known' = [known EXCEPT ![h] = Listed(failed)]
    /\ UNCHANGED <<diskVars, job, rack, used, edits, crashes, superseded, alive>>

(* restore_working_rack_session looks for the current path first; an error,  *)
(* or a generation that stays busy, leaves the Rack empty.                   *)
Restore(h) ==
    /\ step[h] = "restore"
    /\ step' = [step EXCEPT ![h] = "idle"]
    /\ \/ rack' = rack
       \/ \E unreadable \in SUBSET {"current", "previous"} :
             LET session == Load(Session, unreadable) IN
             /\ h = setup.owner
             /\ disk[Session]["current"] # Missing
             /\ session # Missing
             /\ rack' = [rack EXCEPT ![h] = session]
    /\ UNCHANGED <<diskVars, job, known, used, edits, crashes, superseded, alive>>

(* WinRackBridge::stop kills a helper that is not gone in 250 ms; OBS, the   *)
(* helper and its plug-ins may fail.  What it was writing stays as it is.    *)
Die(h) ==
    /\ step[h] # "down"
    /\ crashes < MaxCrashes
    /\ crashes' = crashes + 1
    /\ step' = [step EXCEPT ![h] = "down"]
    /\ job' = [job EXCEPT ![h] = NoJob]
    /\ rack' = [rack EXCEPT ![h] = 0]
    /\ known' = [known EXCEPT ![h] = {}]
    /\ writing' = [f \in Files |-> [s \in Suffixes |->
                      IF writing[f][s] = h THEN Nobody ELSE writing[f][s]]]
    /\ UNCHANGED <<disk, used, edits, superseded, alive>>

-----------------------------------------------------------------------------
Next ==
    /\ \E h \in setup.helpers : SessionStep(h) \/ PresetStep(h) \/ Work(h) \/ Launch(h) \/ Restore(h) \/ Die(h)
    /\ setup' = setup

Spec == Init /\ [][Next]_vars

-----------------------------------------------------------------------------
(* Properties.                                                              *)

Steps ==
    {"down", "restore", "idle", "clean", "rotate", "create previous", "fill previous",
     "replace previous", "create", "fill", "check", "replace", "read back"}
        \cup {Deleting(s) : s \in Suffixes}

Jobs == [file : Files, value : Racks, old : Racks \cup {Missing}, after : {"none", "list"}]

(* The variables stay in range.                                             *)
TypeOK ==
    /\ setup \in Setups
    /\ disk \in [Files -> [Suffixes -> Contents]]
    /\ writing \in [Files -> [Suffixes -> Helpers \cup {Nobody}]]
    /\ step \in [Helpers -> Steps]
    /\ job \in [Helpers -> Jobs]
    /\ rack \in [Helpers -> Racks]
    /\ known \in [Helpers -> SUBSET Presets]
    /\ used \subseteq Presets
    /\ edits \in Racks /\ crashes \in 0 .. MaxCrashes
    /\ superseded \in Racks \cup {Missing}
    /\ alive \subseteq Files

(* A preset whose last save has succeeded, and that nobody has deleted, can  *)
(* be loaded, whatever two helpers do to it at once and wherever one of them *)
(* dies.  It can be lost if two die inside one save of a third, or if one of *)
(* three dies: both temporary names are shared, and somebody else renames    *)
(* what the dead helper has left half-written.                              *)
PresetNotLost ==
    crashes <= 1 => \A p \in alive \cap Presets : LoadPreset(p, {}) # Missing

(* The copy that a load falls back to is never older than one save: it is    *)
(* the session of the last save, or the one that it replaced, and once a     *)
(* save has replaced one there is a copy.  Failed saves and dead helpers in  *)
(* between do not wear it out.                                              *)
FallbackIsRecent ==
    LET session == disk[Session] IN
    /\ session["previous"] \in {Missing, session["current"], superseded}
    /\ superseded # Missing => session["previous"] # Missing

(* The session file is an atomic register with one owner: what a load gives  *)
(* is replaced in one step by the Rack being saved, or stays, wherever the   *)
(* helper dies and whatever call fails.                                      *)
Saving == {"clean", "rotate", "create previous", "fill previous", "replace previous", "create", "fill",
           "check", "replace"}
Offered ==
    {job[h].value : h \in {g \in Helpers :
        job[g].file = Session /\ step[g] \in Saving}}

Register == INSTANCE AtomicSave WITH
    Values <- Racks, Nothing <- Missing, saved <- Loaded(Session), offered <- Offered

SessionIsAtomic == Register!Spec

-----------------------------------------------------------------------------
(* The inductive invariant of the session file.                             *)

(* Only the owner saves the session, and nobody deletes it.                  *)
Rests == {"down", "restore", "idle"}
SessionJob(h) == job[h].file = Session /\ step[h] \notin Rests
OwnerInv ==
    \A h \in Helpers :
        /\ SessionJob(h) => h = setup.owner /\ step[h] \in Saving \cup {"read back"}
        /\ job[h].after = "list" => job[h].file \in Presets

(* The two paths a load looks at hold whole sessions, the newer one first;   *)
(* the copy is made before the file it is a copy of is replaced, and what is *)
(* renamed is what has been written.                                        *)
FileInv ==
    LET session == disk[Session] IN
    /\ session["current"] \in Racks \cup {Missing}
    /\ session["previous"] \in Racks \cup {Missing}
    /\ session["current"] = Missing => session["previous"] = Missing
    /\ FallbackIsRecent
    /\ \A h \in Helpers : SessionJob(h) =>
          /\ step[h] \in {"create previous", "fill previous", "replace previous"} =>
                job[h].old = session["current"] /\ job[h].old # Missing
          /\ step[h] = "replace previous" => session["previous.tmp"] = job[h].old
          /\ step[h] \in {"create", "fill", "check", "replace"} => session["previous"] = session["current"]
          /\ step[h] = "replace" => session["tmp"] = job[h].value

SessionInv == TypeOK /\ OwnerInv /\ FileInv

=============================================================================
