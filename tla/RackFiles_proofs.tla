-------------------------- MODULE RackFiles_proofs --------------------------
(***************************************************************************)
(* Theorems about RackFiles: the session of a Rack is an atomic register     *)
(* whatever the helpers of the other Racks do, for any number of helpers,    *)
(* presets, changes and deaths.                                             *)
(*                                                                         *)
(* Of every action only its outline matters to the session: what it does to  *)
(* the step and the job of its helper (Begins, Ends, Continues, Deletes,     *)
(* Same) and whether it touches the session file (SessionKept).              *)
(***************************************************************************)
EXTENDS RackFiles, TLAPS

USE SetupAssumption, SessionAssumption, EditsAssumption, RackAssumption

(* What the paths hold, and who has them open. *)
DiskType == [Files -> [Suffixes -> Contents]]
WritingType == [Files -> [Suffixes -> Helpers \cup {Nobody}]]

(* One path is written. *)
LEMMA SetPath ==
  ASSUME NEW d \in DiskType, NEW f \in Files, NEW s \in Suffixes, NEW c \in Contents
  PROVE  /\ [d EXCEPT ![f][s] = c] \in DiskType
         /\ \A g \in Files, t \in Suffixes :
               [d EXCEPT ![f][s] = c][g][t] = IF g = f /\ t = s THEN c ELSE d[g][t]
BY DEF DiskType

(* One path is opened or closed. *)
LEMMA SetWriter ==
  ASSUME NEW f \in Files, NEW s \in Suffixes, NEW h \in Helpers \cup {Nobody}, writing \in WritingType
  PROVE  [writing EXCEPT ![f][s] = h] \in WritingType
BY DEF WritingType

(* The removal of paths of one file leaves every other path alone. *)
LEMMA ErasedPaths ==
  ASSUME disk \in DiskType, NEW f \in Files, NEW names \in SUBSET Suffixes, NEW h
  PROVE  /\ Erased(disk, f, names, h) \in DiskType
         /\ \A g \in Files, t \in Suffixes :
               g # f \/ t \notin names => Erased(disk, f, names, h)[g][t] = disk[g][t]
<1>1. Missing \in Contents
  BY DEF Contents
<1>2. ASSUME NEW p \in [Suffixes -> Contents]
      PROVE  [s \in Suffixes |-> IF s \in names /\ writing[f][s] \in {Nobody, h} THEN Missing ELSE p[s]]
                \in [Suffixes -> Contents]
  BY <1>1
<1> QED BY <1>2 DEF Erased, DiskType

(* A rename moves the content of one path to another path of the file. *)
LEMMA RenamedPath ==
  ASSUME disk \in DiskType, NEW f \in Files, NEW from \in Suffixes, NEW to \in Suffixes, from # to
  PROVE  LET new == [disk EXCEPT ![f] = [@ EXCEPT ![to] = disk[f][from], ![from] = Missing]]
         IN  /\ new \in DiskType
             /\ \A g \in Files, t \in Suffixes :
                   new[g][t] = IF g # f \/ t \notin {from, to} THEN disk[g][t]
                               ELSE IF t = to THEN disk[f][from] ELSE Missing
<1>1. Missing \in Contents
  BY DEF Contents
<1>2. disk[f] \in [Suffixes -> Contents] /\ disk[f][from] \in Contents
  BY DEF DiskType
<1>3. [disk[f] EXCEPT ![to] = disk[f][from], ![from] = Missing] \in [Suffixes -> Contents]
  BY <1>1, <1>2
<1> QED BY <1>1, <1>2, <1>3 DEF DiskType

(* The parts of TypeOK that the steps use. *)
LEMMA TypesSplit ==
  ASSUME TypeOK
  PROVE  /\ setup \in [helpers : SUBSET Helpers, owner : Helpers \cup {Nobody}, edits : 0 .. MaxEdits]
         /\ disk \in DiskType /\ writing \in WritingType
         /\ \A h \in Helpers : /\ job[h] \in Jobs /\ job[h].file \in Files /\ job[h].value \in Racks
                               /\ job[h].old \in Racks \cup {Missing}
                               /\ rack[h] \in Racks /\ known[h] \in SUBSET Presets
BY DEF TypeOK, DiskType, WritingType, Jobs

(* The named sets, and which constants are in them. *)
LEMMA Types ==
  /\ NoJob \in Jobs /\ Session \in Files /\ Presets \subseteq Files
  /\ Racks \subseteq Contents /\ Missing \in Contents /\ Torn \in Contents /\ 0 \in Racks
  /\ Missing \notin Racks /\ Torn \notin Racks
  /\ {"current", "previous", "tmp", "previous.tmp"} = Suffixes
  /\ Rests \cup Saving \cup {"read back"} \subseteq Steps
  /\ \A s \in Suffixes : Deleting(s) \in Steps /\ AfterDelete(s) \in Steps
<1>1. Racks \subseteq Contents /\ Missing \in Contents /\ Torn \in Contents /\ 0 \in Racks
  BY DEF Racks, Contents
<1>2. Missing \notin Racks /\ Torn \notin Racks
  BY DEF Racks
<1>3. Session \in Files /\ Presets \subseteq Files
  BY DEF Files
<1>4. NoJob \in Jobs
  BY <1>1, <1>3 DEF NoJob, Jobs
<1>5. Rests \cup Saving \cup {"read back"} \subseteq Steps
  BY DEF Rests, Saving, Steps
<1>6. \A s \in Suffixes : Deleting(s) \in Steps
  BY DEF Steps
<1>7. \A s \in Suffixes : AfterDelete(s) \in Steps
  <2>1. \A s \in Suffixes : AfterDelete(s) \in {"idle", Deleting("previous"), Deleting("tmp"), Deleting("previous.tmp")}
    BY DEF AfterDelete, Deleting, Suffixes
  <2>2. {"previous", "tmp", "previous.tmp"} \subseteq Suffixes
    BY DEF Suffixes
  <2>3. "idle" \in Steps
    BY DEF Steps
  <2> QED BY <1>6, <2>1, <2>2, <2>3
<1> QED BY <1>1, <1>2, <1>3, <1>4, <1>5, <1>6, <1>7 DEF Suffixes

(* A job from its fields. *)
LEMMA JobTyped ==
  ASSUME NEW f \in Files, NEW v \in Racks, NEW o \in Racks \cup {Missing}, NEW a \in {"none", "list"}
  PROVE  [file |-> f, value |-> v, old |-> o, after |-> a] \in Jobs
BY DEF Jobs

(* A load gives a whole Rack or nothing. *)
LEMMA LoadTyped ==
  ASSUME NEW f \in Files, NEW unreadable
  PROVE  Load(f, unreadable) \in Racks \cup {Missing}
BY DEF Load, Reads, DecodesAt, DecodesPreset, Decodes

(* What a command does to its helper's step and job when it ends in a save. *)
WorkTyped == step' \in [Helpers -> Steps] /\ job' \in [Helpers -> Jobs]
(* A save that ends leaves no job. *)
LEMMA EndSaveTyped ==
  ASSUME TypeOK, NEW h \in Helpers, EndSave(h)
  PROVE  WorkTyped
<1>1. NoJob \in Jobs /\ "idle" \in Steps
  BY Types DEF Rests
<1> QED BY <1>1 DEF EndSave, TypeOK, WorkTyped

(* A save that begins has a typed job. *)
LEMMA BeginSaveTyped ==
  ASSUME TypeOK, NEW h \in Helpers, NEW f \in Files, NEW v \in Racks, NEW a \in {"none", "list"},
         BeginSave(h, f, v, a)
  PROVE  WorkTyped
<1>1. [file |-> f, value |-> v, old |-> Missing, after |-> a] \in Jobs
  BY JobTyped
<1>2. "clean" \in Steps
  BY Types DEF Saving
<1>3. CASE EndSave(h)
  BY <1>3, EndSaveTyped
<1>4. CASE ~EndSave(h)
  <2>1. /\ job' = [job EXCEPT ![h] = [file |-> f, value |-> v, old |-> Missing, after |-> a]]
        /\ step' = [step EXCEPT ![h] = "clean"]
    BY <1>4 DEF BeginSave, RefuseSave
  <2>2. job \in [Helpers -> Jobs] /\ step \in [Helpers -> Steps]
    BY DEF TypeOK
  <2> QED BY <1>1, <1>2, <2>1, <2>2 DEF WorkTyped
<1> QED BY <1>3, <1>4

(* So has one of the session. *)
LEMMA PersistTyped ==
  ASSUME TypeOK, NEW h \in Helpers, NEW v \in Racks, Persist(h, v)
  PROVE  WorkTyped
BY BeginSaveTyped, EndSaveTyped, Types DEF Persist

(* Both halves of write_bytes_flushed keep the paths in range. *)
LEMMA OpenTyped ==
  ASSUME disk \in DiskType, writing \in WritingType, NEW h \in Helpers, job[h].file \in Files,
         NEW s \in Suffixes, NEW c \in Contents, NEW next, Create(h, s, next) \/ Fill(h, s, c, next)
  PROVE  disk' \in DiskType /\ writing' \in WritingType
<1>1. \A v \in Contents : [disk EXCEPT ![job[h].file][s] = v] \in DiskType
  BY SetPath
<1>2. \A g \in Helpers \cup {Nobody} : [writing EXCEPT ![job[h].file][s] = g] \in WritingType
  BY SetWriter
<1>3. CASE Create(h, s, next)
  BY <1>1, <1>2, <1>3, Types DEF Create
<1>4. CASE Fill(h, s, c, next)
  BY <1>1, <1>2, <1>4 DEF Fill
<1> QED BY <1>3, <1>4

(* Every call of a save keeps the types. *)
LEMMA SaveStepTypes ==
  ASSUME TypeOK, OwnerInv, FileInv, NEW h \in Helpers, SaveStep(h), setup' = setup
  PROVE  TypeOK'
<1> DEFINE f == job[h].file
<1>1. f \in Files /\ job[h].value \in Contents /\ job[h].old \in Contents /\ disk \in DiskType /\ writing \in WritingType
  BY TypesSplit, Types
<1>2. {"tmp", "previous.tmp", "current", "previous"} \subseteq Suffixes
  BY Types
<1>3. \A s \in {"idle", "clean", "rotate", "create previous", "fill previous", "replace previous",
                "create", "fill", "check", "replace", "read back"} : [step EXCEPT ![h] = s] \in [Helpers -> Steps]
  BY Types DEF Rests, Saving, TypeOK
<1>4. ASSUME disk' \in DiskType, writing' \in WritingType, step' \in [Helpers -> Steps], job' \in [Helpers -> Jobs],
             UNCHANGED <<rack, used, edits, crashes>>, superseded' \in Racks \cup {Missing},
             known' \in [Helpers -> SUBSET Presets], alive' \subseteq Files
      PROVE  TypeOK'
  BY <1>4 DEF TypeOK, DiskType, WritingType
<1>5. superseded \in Racks \cup {Missing} /\ job \in [Helpers -> Jobs] /\ known \in [Helpers -> SUBSET Presets] /\ alive \subseteq Files
  BY DEF TypeOK
<1>6. CASE CleanUp(h)
  <2>1. disk' \in DiskType
    BY <1>1, <1>2, <1>6, ErasedPaths DEF CleanUp
  <2> QED BY <1>1, <1>3, <1>4, <1>5, <1>6, <2>1 DEF CleanUp, Others
<1>7. CASE Rotate(h)
  <2>1. disk[f]["current"] \in Racks \/ ~DecodesAt(f, "current")
    BY DEF DecodesAt, DecodesPreset, Decodes
  <2>2. job' \in [Helpers -> Jobs]
    BY <1>5, <1>7, <2>1 DEF Rotate, Jobs
  <2> QED BY <1>1, <1>3, <1>4, <1>5, <1>7, <2>2 DEF Rotate, Others, diskVars
<1>8. CASE CreatePrevious(h) \/ CreateTemp(h)
  <2>1. disk' \in DiskType /\ writing' \in WritingType
    BY <1>1, <1>2, <1>8, OpenTyped DEF CreatePrevious, CreateTemp
  <2> QED BY <1>1, <1>3, <1>4, <1>5, <1>8, <2>1 DEF CreatePrevious, CreateTemp, Create, Others
<1>9. CASE FillPrevious(h) \/ FillTemp(h)
  <2>1. disk' \in DiskType /\ writing' \in WritingType
    BY <1>1, <1>2, <1>9, OpenTyped DEF FillPrevious, FillTemp
  <2> QED BY <1>1, <1>3, <1>4, <1>5, <1>9, <2>1 DEF FillPrevious, FillTemp, Fill, Others
<1>10. CASE ReplacePrevious(h)
  <2>1. disk' \in DiskType
    BY <1>1, <1>2, <1>10, RenamedPath DEF ReplacePrevious, Rename
  <2> QED BY <1>1, <1>3, <1>4, <1>5, <1>10, <2>1 DEF ReplacePrevious, Rename, Others
<1>11. CASE CheckTemp(h)
  BY <1>1, <1>3, <1>4, <1>5, <1>11 DEF CheckTemp, Others, diskVars
<1>12. CASE ReplaceCurrent(h)
  <2>1. disk' \in DiskType
    BY <1>1, <1>2, <1>12, RenamedPath DEF ReplaceCurrent, Rename
  <2>2. superseded' \in Racks \cup {Missing}
    BY <1>5, <1>12 DEF ReplaceCurrent, FileInv
  <2> QED BY <1>1, <1>3, <1>4, <1>5, <1>12, <2>1, <2>2 DEF ReplaceCurrent, Rename
<1>13. CASE ReadBack(h)
  <2>1. known' \in [Helpers -> SUBSET Presets]
    <3>1. job[h].after = "list" => f \in Presets
      BY DEF OwnerInv
    <3>2. known' = [known EXCEPT ![h] = IF job[h].after = "list" THEN known[h] \cup {f} ELSE known[h]]
      BY <1>13 DEF ReadBack
    <3> QED BY <1>5, <3>1, <3>2
  <2> QED BY <1>1, <1>3, <1>4, <1>5, <1>13, <2>1, EndSaveTyped DEF ReadBack, diskVars, WorkTyped
<1>14. CASE FailBefore(h) \/ FailPrevious(h) \/ FailTemp(h)
  <2>1. disk' \in DiskType
    <3>1. \A names \in SUBSET Suffixes : Erased(disk, f, names, h) \in DiskType
      BY <1>1, ErasedPaths
    <3>2. disk' = disk \/ \E s \in {"tmp", "previous.tmp"} : disk' = Erased(disk, f, {s}, h)
      BY <1>14 DEF FailBefore, FailPrevious, FailTemp
    <3> QED BY <1>1, <1>2, <3>1, <3>2
  <2> QED BY <1>1, <1>4, <1>5, <1>14, <2>1, EndSaveTyped DEF FailBefore, FailPrevious, FailTemp, FailSave, WorkTyped
<1>15. CASE FailFill(h)
  <2>1. disk' \in DiskType /\ writing' \in WritingType
    BY <1>1, <1>2, <1>15, SetPath, SetWriter, Types DEF FailFill
  <2> QED BY <1>4, <1>5, <1>15, <2>1, EndSaveTyped DEF FailFill, Others, WorkTyped
<1> QED BY <1>6, <1>7, <1>8, <1>9, <1>10, <1>11, <1>12, <1>13, <1>14, <1>15 DEF SaveStep

(* Every command keeps the types. *)
LEMMA WorkTypes ==
  ASSUME TypeOK, NEW h \in Helpers, Work(h), setup' = setup
  PROVE  TypeOK'
<1>1. ASSUME WorkTyped, disk' \in DiskType, writing' \in WritingType, rack' \in [Helpers -> Racks],
             known' \in [Helpers -> SUBSET Presets], used' \subseteq Presets, edits' \in Racks,
             UNCHANGED <<crashes, superseded>>, alive' \subseteq Files
      PROVE  TypeOK'
  BY <1>1 DEF TypeOK, DiskType, WritingType, WorkTyped
<1>2. /\ disk \in DiskType /\ writing \in WritingType /\ rack \in [Helpers -> Racks]
      /\ known \in [Helpers -> SUBSET Presets] /\ used \subseteq Presets /\ edits \in Racks /\ alive \subseteq Files
      /\ job \in [Helpers -> Jobs] /\ step \in [Helpers -> Steps]
  BY DEF TypeOK, DiskType, WritingType
<1>3. edits < setup.edits => edits + 1 \in Racks
  <2>1. setup.edits \in 0 .. MaxEdits
    BY TypesSplit
  <2> QED BY <1>2, <2>1 DEF Racks
<1>4. \A v \in Racks : [rack EXCEPT ![h] = v] \in [Helpers -> Racks]
  BY <1>2
<1>5. CASE EditRack(h)
  BY <1>1, <1>2, <1>3, <1>4, <1>5, PersistTyped DEF EditRack, diskVars
<1>6. CASE Tune(h)
  BY <1>1, <1>2, <1>3, <1>4, <1>6 DEF Tune, diskVars, workVars, WorkTyped
<1>7. CASE ServeSave(h)
  BY <1>1, <1>2, <1>7, PersistTyped DEF ServeSave, diskVars, Others
<1>8. CASE SaveAs(h)
  <2>1. PICK p \in Presets \ used : used' = used \cup {p} /\ BeginSave(h, p, rack[h], "list")
    BY <1>8 DEF SaveAs, BeginPreset
  <2> QED BY <1>1, <1>2, <1>8, <2>1, BeginSaveTyped, Types DEF SaveAs, diskVars
<1>9. CASE UpdatePreset(h)
  <2>1. PICK p \in Presets : BeginSave(h, p, rack[h], "none")
    BY <1>9 DEF UpdatePreset, BeginPreset
  <2> QED BY <1>1, <1>2, <1>9, <2>1, BeginSaveTyped, Types DEF UpdatePreset, diskVars, Others
<1>10. CASE ApplyPreset(h)
  <2>1. PICK p \in known[h], unreadable \in SUBSET {"current", "previous"} :
          /\ LoadPreset(p, unreadable) # Missing
          /\ rack' = [rack EXCEPT ![h] = LoadPreset(p, unreadable)]
          /\ Persist(h, LoadPreset(p, unreadable))
    BY <1>10 DEF ApplyPreset
  <2>2. p \in Files
    BY <1>2, Types
  <2>3. LoadPreset(p, unreadable) \in Racks
    BY <2>1, <2>2, LoadTyped DEF LoadPreset
  <2> QED BY <1>1, <1>2, <1>4, <1>10, <2>1, <2>3, PersistTyped DEF ApplyPreset, diskVars
<1>11. CASE RenamePreset(h)
  <2>1. PICK p \in known[h], unreadable \in SUBSET {"current", "previous"} :
          /\ LoadPreset(p, unreadable) # Missing
          /\ BeginPreset(h, p, LoadPreset(p, unreadable), "none")
    BY <1>11 DEF RenamePreset
  <2>2. p \in Files
    BY <1>2, Types
  <2>3. LoadPreset(p, unreadable) \in Racks
    BY <2>1, <2>2, LoadTyped DEF LoadPreset
  <2> QED BY <1>1, <1>2, <1>11, <2>1, <2>2, <2>3, BeginSaveTyped DEF RenamePreset, BeginPreset, diskVars, Others
<1>12. CASE DeletePreset(h)
  <2>1. PICK p \in known[h] : job' = [job EXCEPT ![h] = [NoJob EXCEPT !.file = p]]
    BY <1>12 DEF DeletePreset
  <2>2. [NoJob EXCEPT !.file = p] = [file |-> p, value |-> 0, old |-> Missing, after |-> "none"]
    BY DEF NoJob
  <2>3. p \in Files /\ 0 \in Racks
    BY <1>2, Types
  <2>4. job' \in [Helpers -> Jobs]
    <3>1. [file |-> p, value |-> 0, old |-> Missing, after |-> "none"] \in Jobs
      BY <2>3, JobTyped
    <3>2. job' = [job EXCEPT ![h] = [file |-> p, value |-> 0, old |-> Missing, after |-> "none"]]
      BY <2>1, <2>2
    <3> QED BY <1>2, <3>1, <3>2
  <2>5. Deleting("current") = "delete current" /\ "current" \in Suffixes
    BY Types DEF Deleting
  <2>6. step' \in [Helpers -> Steps]
    BY <1>2, <1>12, <2>5, Types DEF DeletePreset
  <2> QED BY <1>1, <1>2, <1>12, <2>4, <2>6 DEF DeletePreset, diskVars, Others, WorkTyped
<1>13. ASSUME NEW s \in Suffixes, DeletePath(h, s) PROVE TypeOK'
  <2>1. job[h].file \in Files /\ NoJob \in Jobs /\ AfterDelete(s) \in Steps
    BY TypesSplit, Types
  <2>2. disk' \in DiskType /\ alive' \subseteq Files
    BY <1>2, <1>13, <2>1, ErasedPaths DEF DeletePath
  <2>3. known' \in [Helpers -> SUBSET Presets]
    BY <1>2, <1>13 DEF DeletePath
  <2>4. WorkTyped
    BY <1>2, <1>13, <2>1 DEF DeletePath, WorkTyped
  <2> QED BY <1>1, <1>2, <1>13, <2>2, <2>3, <2>4 DEF DeletePath
<1>14. CASE FailDelete(h)
  BY <1>1, <1>2, <1>14, EndSaveTyped DEF FailDelete, FailSave
<1> QED BY <1>5, <1>6, <1>7, <1>8, <1>9, <1>10, <1>11, <1>12, <1>13, <1>14 DEF Work

(* The start, the restore and the death of a helper keep the types. *)
LEMMA ProcessTypes ==
  ASSUME TypeOK, NEW h \in Helpers, Launch(h) \/ Restore(h) \/ Die(h), setup' = setup
  PROVE  TypeOK'
<1>1. /\ disk \in DiskType /\ writing \in WritingType /\ rack \in [Helpers -> Racks]
      /\ known \in [Helpers -> SUBSET Presets] /\ job \in [Helpers -> Jobs] /\ step \in [Helpers -> Steps]
      /\ NoJob \in Jobs /\ {"down", "restore", "idle"} \subseteq Steps /\ 0 \in Racks /\ Session \in Files
  BY Types DEF TypeOK, DiskType, WritingType, Rests
<1>2. CASE Launch(h)
  <2>1. known' \in [Helpers -> SUBSET Presets]
    BY <1>1, <1>2 DEF Launch, Listed
  <2>2. step' \in [Helpers -> Steps]
    BY <1>1, <1>2 DEF Launch
  <2> QED BY <1>1, <1>2, <2>1, <2>2 DEF Launch, diskVars, TypeOK
<1>3. CASE Restore(h)
  <2>1. \A v \in Racks : [rack EXCEPT ![h] = v] \in [Helpers -> Racks]
    BY <1>1
  <2>2. \A u \in SUBSET {"current", "previous"} : Load(Session, u) \in Racks \cup {Missing}
    BY <1>1, LoadTyped
  <2>3. rack' \in [Helpers -> Racks]
    BY <1>1, <1>3, <2>1, <2>2 DEF Restore
  <2>4. step' \in [Helpers -> Steps]
    BY <1>1, <1>3 DEF Restore
  <2> QED BY <1>1, <1>3, <2>3, <2>4 DEF Restore, diskVars, TypeOK
<1>4. CASE Die(h)
  <2>1. writing' \in WritingType
    <3>1. \A g \in Files, s \in Suffixes :
             (IF writing[g][s] = h THEN Nobody ELSE writing[g][s]) \in Helpers \cup {Nobody}
      BY <1>1 DEF WritingType
    <3> QED BY <1>4, <3>1 DEF Die, WritingType
  <2>2. crashes' \in 0 .. MaxCrashes
    BY <1>4 DEF Die, TypeOK
  <2>3. /\ step' \in [Helpers -> Steps] /\ job' \in [Helpers -> Jobs] /\ rack' \in [Helpers -> Racks]
        /\ known' \in [Helpers -> SUBSET Presets]
    BY <1>1, <1>4 DEF Die
  <2> QED BY <1>4, <2>1, <2>2, <2>3 DEF Die, TypeOK, WritingType
<1> QED BY <1>2, <1>3, <1>4

(* The types are kept; that a listed file is a preset comes from OwnerInv. *)
LEMMA TypeStep ==
  ASSUME TypeOK, OwnerInv, FileInv, [Next]_vars
  PROVE  TypeOK'
<1>1. CASE Next
  <2>1. PICK h \in setup.helpers :
          SessionStep(h) \/ PresetStep(h) \/ Work(h) \/ Launch(h) \/ Restore(h) \/ Die(h)
    BY <1>1 DEF Next
  <2>2. h \in Helpers /\ setup' = setup
    BY <1>1, TypesSplit DEF Next
  <2> QED BY <2>1, <2>2, SaveStepTypes, WorkTypes, ProcessTypes DEF SessionStep, PresetStep
<1>2. CASE UNCHANGED vars
  BY <1>2 DEF vars, diskVars, workVars, TypeOK
<1> QED BY <1>1, <1>2

-----------------------------------------------------------------------------
(* The outlines of what an action does to the step and the job of a helper. *)
Same(g) == step'[g] = step[g] /\ job'[g] = job[g]
Ends(h) == step'[h] \in Rests /\ job'[h] \in {NoJob, job[h]}
Begins(h) ==
  /\ step[h] = "idle" /\ step'[h] = "clean"
  /\ job'[h].value \in Racks
  /\ \/ job'[h].file = Session /\ job'[h].after = "none" /\ h = setup.owner
     \/ job'[h].file \in Presets
Continues(h) ==
  /\ step[h] \in Saving /\ step'[h] \in Saving \cup {"read back"}
  /\ job'[h].file = job[h].file /\ job'[h].value = job[h].value /\ job'[h].after = job[h].after
Deletes(h) ==
  /\ step[h] \notin Saving \cup {"read back"} /\ step'[h] \notin Saving \cup {"read back"}
  /\ job'[h].file \in Presets /\ job'[h].after \in {"none", job[h].after}
SessionKept == disk'[Session] = disk[Session] /\ superseded' = superseded

(* The job of a helper without one. *)
LEMMA NoJobFields == NoJob.file = Session /\ NoJob.after = "none" /\ NoJob.value = 0 /\ NoJob.old = Missing
BY DEF NoJob

(* An action that sets the step and the job of one helper. *)
LEMMA SetJob ==
  ASSUME TypeOK, NEW h \in Helpers, NEW s, NEW j,
         step' = [step EXCEPT ![h] = s], job' = [job EXCEPT ![h] = j]
  PROVE  step'[h] = s /\ job'[h] = j /\ \A g \in Helpers \ {h} : Same(g)
BY DEF TypeOK, Same

(* An action that sets the step of one helper. *)
LEMMA SetStep ==
  ASSUME TypeOK, NEW h \in Helpers, NEW s, step' = [step EXCEPT ![h] = s], job' = job
  PROVE  step'[h] = s /\ job'[h] = job[h] /\ \A g \in Helpers \ {h} : Same(g)
BY DEF TypeOK, Same

(* A save that ends, in outline. *)
LEMMA EndSaveShape ==
  ASSUME TypeOK, NEW h \in Helpers, EndSave(h)
  PROVE  Ends(h) /\ \A g \in Helpers \ {h} : Same(g)
BY SetJob DEF EndSave, Ends, Rests

(* A save that begins, in outline. *)
LEMMA BeginSaveShape ==
  ASSUME TypeOK, NEW h \in Helpers, NEW f, NEW v \in Racks, NEW a, step[h] = "idle",
         f \in Presets \/ (f = Session /\ a = "none" /\ h = setup.owner), BeginSave(h, f, v, a)
  PROVE  (Begins(h) \/ Ends(h)) /\ \A g \in Helpers \ {h} : Same(g)
<1>1. CASE EndSave(h)
  BY <1>1, EndSaveShape
<1>2. CASE ~EndSave(h)
  <2> DEFINE j == [file |-> f, value |-> v, old |-> Missing, after |-> a]
  <2>1. job' = [job EXCEPT ![h] = j] /\ step' = [step EXCEPT ![h] = "clean"]
    BY <1>2 DEF BeginSave, RefuseSave
  <2>2. j.file = f /\ j.value = v /\ j.after = a
    OBVIOUS
  <2> HIDE DEF j
  <2>3. step'[h] = "clean" /\ job'[h] = j /\ \A g \in Helpers \ {h} : Same(g)
    BY <2>1, SetJob
  <2> QED BY <2>2, <2>3 DEF Begins
<1> QED BY <1>1, <1>2

(* A save of the session, in outline. *)
LEMMA PersistShape ==
  ASSUME TypeOK, NEW h \in Helpers, NEW v \in Racks, step[h] = "idle", Persist(h, v)
  PROVE  (Begins(h) \/ Ends(h)) /\ \A g \in Helpers \ {h} : Same(g)
BY BeginSaveShape, EndSaveShape DEF Persist

(* No command touches the session file, and only the owner begins to save it. *)
LEMMA WorkShape ==
  ASSUME TypeOK, OwnerInv, NEW h \in Helpers, Work(h)
  PROVE  /\ SessionKept
         /\ \A g \in Helpers \ {h} : Same(g)
         /\ Begins(h) \/ Ends(h) \/ Same(h) \/ Deletes(h)
<1>1. known[h] \subseteq Presets /\ rack[h] \in Racks /\ disk \in DiskType
  BY TypesSplit
<1>2. CASE EditRack(h)
  <2>1. edits + 1 \in Racks
    BY <1>2, TypesSplit DEF EditRack, Racks, TypeOK
  <2> QED BY <1>2, <2>1, PersistShape DEF EditRack, diskVars, SessionKept
<1>3. CASE Tune(h)
  BY <1>3 DEF Tune, diskVars, workVars, SessionKept, Same
<1>4. CASE ServeSave(h)
  BY <1>1, <1>4, PersistShape DEF ServeSave, diskVars, Others, SessionKept
<1>5. CASE SaveAs(h)
  BY <1>1, <1>5, BeginSaveShape DEF SaveAs, BeginPreset, diskVars, SessionKept
<1>6. CASE UpdatePreset(h)
  BY <1>1, <1>6, BeginSaveShape DEF UpdatePreset, BeginPreset, diskVars, Others, SessionKept
<1>7. CASE ApplyPreset(h)
  <2>1. PICK p \in known[h], unreadable \in SUBSET {"current", "previous"} :
          LoadPreset(p, unreadable) # Missing /\ Persist(h, LoadPreset(p, unreadable))
    BY <1>7 DEF ApplyPreset
  <2>2. LoadPreset(p, unreadable) \in Racks
    BY <1>1, <2>1, LoadTyped, Types DEF LoadPreset
  <2> QED BY <1>7, <2>1, <2>2, PersistShape DEF ApplyPreset, diskVars, SessionKept
<1>8. CASE RenamePreset(h)
  <2>1. PICK p \in known[h], unreadable \in SUBSET {"current", "previous"} :
          LoadPreset(p, unreadable) # Missing /\ BeginPreset(h, p, LoadPreset(p, unreadable), "none")
    BY <1>8 DEF RenamePreset
  <2>2. LoadPreset(p, unreadable) \in Racks
    BY <1>1, <2>1, LoadTyped, Types DEF LoadPreset
  <2> QED BY <1>1, <1>8, <2>1, <2>2, BeginSaveShape DEF RenamePreset, BeginPreset, diskVars, Others, SessionKept
<1>9. CASE DeletePreset(h)
  <2>1. PICK p \in known[h] : job' = [job EXCEPT ![h] = [NoJob EXCEPT !.file = p]]
    BY <1>9 DEF DeletePreset
  <2> DEFINE j == [NoJob EXCEPT !.file = p]
  <2>2. j.file = p /\ j.after = "none"
    BY DEF NoJob
  <2> HIDE DEF j
  <2>3. step' = [step EXCEPT ![h] = "delete current"] /\ job' = [job EXCEPT ![h] = j] /\ step[h] = "idle"
    BY <1>9, <2>1 DEF DeletePreset, j
  <2>4. step'[h] = "delete current" /\ job'[h] = j /\ \A g \in Helpers \ {h} : Same(g)
    BY <2>3, SetJob
  <2>5. Deletes(h)
    BY <1>1, <2>2, <2>3, <2>4 DEF Deletes, Saving
  <2>6. SessionKept
    BY <1>9 DEF DeletePreset, diskVars, Others, SessionKept
  <2> QED BY <2>4, <2>5, <2>6
<1>10. ASSUME NEW s \in Suffixes, DeletePath(h, s)
       PROVE  SessionKept /\ (\A g \in Helpers \ {h} : Same(g)) /\ (Ends(h) \/ Deletes(h))
  <2>1. step[h] = Deleting(s) /\ Deleting(s) \notin Rests \cup Saving \cup {"read back"}
    BY <1>10 DEF DeletePath, Deleting, Rests, Saving, Suffixes
  <2>2. job[h].file \in Presets
    BY <2>1, TypesSplit DEF OwnerInv, SessionJob, Files
  <2>3. SessionKept
    <3>1. Session # job[h].file /\ {s} \in SUBSET Suffixes /\ Session \in Files /\ "current" \in Suffixes
      BY <2>2, Types
    <3>2. disk' = Erased(disk, job[h].file, {s}, h) /\ superseded' = superseded
      BY <1>10 DEF DeletePath
    <3>3. disk'[Session] = disk[Session]
      BY <1>1, <3>1, <3>2 DEF Erased, DiskType
    <3> QED BY <3>2, <3>3 DEF SessionKept
  <2>4. CASE AfterDelete(s) = "idle"
    <3>1. step' = [step EXCEPT ![h] = "idle"] /\ job' = [job EXCEPT ![h] = NoJob]
      BY <1>10, <2>4 DEF DeletePath
    <3> QED BY <2>3, <3>1, SetJob DEF Ends, Rests
  <2>5. CASE AfterDelete(s) # "idle"
    <3>1. step' = [step EXCEPT ![h] = AfterDelete(s)] /\ job' = job
      BY <1>10, <2>5 DEF DeletePath
    <3>2. AfterDelete(s) \notin Saving \cup {"read back"}
      BY <2>5 DEF AfterDelete, Saving, Suffixes
    <3>3. step'[h] = AfterDelete(s) /\ job'[h] = job[h] /\ \A g \in Helpers \ {h} : Same(g)
      BY <3>1, SetStep
    <3> QED BY <2>1, <2>2, <2>3, <3>2, <3>3 DEF Deletes
  <2> QED BY <2>4, <2>5
<1>11. CASE FailDelete(h)
  BY <1>11, EndSaveShape DEF FailDelete, FailSave, SessionKept
<1> QED BY <1>2, <1>3, <1>4, <1>5, <1>6, <1>7, <1>8, <1>9, <1>10, <1>11 DEF Work

(* Nor does the start or the death of a helper. *)
LEMMA ProcessShape ==
  ASSUME TypeOK, NEW h \in Helpers, Launch(h) \/ Restore(h) \/ Die(h)
  PROVE  SessionKept /\ (\A g \in Helpers \ {h} : Same(g)) /\ Ends(h)
<1>1. CASE Launch(h)
  BY <1>1, SetStep DEF Launch, diskVars, SessionKept, Ends, Rests
<1>2. CASE Restore(h)
  BY <1>2, SetStep DEF Restore, diskVars, SessionKept, Ends, Rests
<1>3. CASE Die(h)
  BY <1>3, SetJob DEF Die, SessionKept, Ends, Rests
<1> QED BY <1>1, <1>2, <1>3

(* A call of a save goes on with the same value or ends the save. *)
LEMMA SaveShape ==
  ASSUME TypeOK, NEW h \in Helpers, SaveStep(h)
  PROVE  (\A g \in Helpers \ {h} : Same(g)) /\ (Ends(h) \/ Continues(h))
<1>1. CASE ReadBack(h) \/ FailBefore(h) \/ FailPrevious(h) \/ FailTemp(h) \/ FailFill(h)
  BY <1>1, EndSaveShape DEF ReadBack, FailBefore, FailPrevious, FailTemp, FailFill, FailSave
<1>2. CASE Rotate(h)
  <2> DEFINE j == [job[h] EXCEPT !.old = IF DecodesAt(job[h].file, "current") THEN disk[job[h].file]["current"] ELSE Missing]
             s == IF DecodesAt(job[h].file, "current") THEN "create previous" ELSE "create"
  <2>1. step' = [step EXCEPT ![h] = s] /\ job' = [job EXCEPT ![h] = j] /\ step[h] = "rotate"
    BY <1>2 DEF Rotate
  <2>2. j.file = job[h].file /\ j.value = job[h].value /\ j.after = job[h].after
    BY TypesSplit DEF Jobs
  <2>3. s \in Saving
    BY DEF Saving
  <2> HIDE DEF j, s
  <2>4. step'[h] = s /\ job'[h] = j /\ \A g \in Helpers \ {h} : Same(g)
    BY <2>1, SetJob
  <2> QED BY <2>1, <2>2, <2>3, <2>4 DEF Continues, Saving
<1>3. CASE CleanUp(h)
  BY <1>3, SetStep DEF CleanUp, Continues, Saving
<1>4. CASE CreatePrevious(h) \/ CreateTemp(h)
  BY <1>4, SetStep DEF CreatePrevious, CreateTemp, Create, Continues, Saving
<1>5. CASE FillPrevious(h) \/ FillTemp(h)
  BY <1>5, SetStep DEF FillPrevious, FillTemp, Fill, Continues, Saving
<1>6. CASE ReplacePrevious(h)
  BY <1>6, SetStep DEF ReplacePrevious, Rename, Continues, Saving
<1>7. CASE CheckTemp(h)
  BY <1>7, SetStep DEF CheckTemp, Continues, Saving
<1>8. CASE ReplaceCurrent(h)
  BY <1>8, SetStep DEF ReplaceCurrent, Rename, Continues, Saving
<1> QED BY <1>1, <1>2, <1>3, <1>4, <1>5, <1>6, <1>7, <1>8 DEF SaveStep

(* A save of a preset does not touch the session. *)
LEMMA PresetStepKeeps ==
  ASSUME TypeOK, NEW h \in Helpers, PresetStep(h)
  PROVE  SessionKept
<1> DEFINE f == job[h].file
<1>1. f # Session /\ f \in Files /\ SaveStep(h) /\ disk \in DiskType /\ Session \in Files
  BY TypesSplit, Types DEF PresetStep
<1>2. \A names : Erased(disk, f, names, h)[Session] = disk[Session]
  BY <1>1 DEF Erased, DiskType
<1>3. \A s, c : [disk EXCEPT ![f][s] = c][Session] = disk[Session]
  BY <1>1 DEF DiskType
<1>4. \A from, to : [disk EXCEPT ![f] = [@ EXCEPT ![to] = disk[f][from], ![from] = Missing]][Session] = disk[Session]
  BY <1>1 DEF DiskType
<1>5. CASE CleanUp(h)
  BY <1>2, <1>5 DEF CleanUp, Others, SessionKept
<1>6. CASE Rotate(h) \/ CheckTemp(h)
  BY <1>6 DEF Rotate, CheckTemp, diskVars, Others, SessionKept
<1>7. CASE CreatePrevious(h) \/ CreateTemp(h)
  <2>1. superseded' = superseded /\ \E s \in Suffixes : \E c : disk' = [disk EXCEPT ![f][s] = c]
    BY <1>7, Types DEF CreatePrevious, CreateTemp, Create, Others
  <2> QED BY <1>3, <2>1 DEF SessionKept
<1>8. CASE FillPrevious(h) \/ FillTemp(h)
  <2>1. superseded' = superseded /\ \E s \in Suffixes : \E c : disk' = [disk EXCEPT ![f][s] = c]
    BY <1>8, Types DEF FillPrevious, FillTemp, Fill, Others
  <2> QED BY <1>3, <2>1 DEF SessionKept
<1>9. CASE ReplacePrevious(h)
  BY <1>4, <1>9 DEF ReplacePrevious, Rename, Others, SessionKept
<1>10. CASE ReplaceCurrent(h)
  BY <1>1, <1>4, <1>10 DEF ReplaceCurrent, Rename, SessionKept
<1>11. CASE ReadBack(h)
  BY <1>11 DEF ReadBack, diskVars, SessionKept
<1>12. CASE FailBefore(h) \/ FailPrevious(h) \/ FailTemp(h)
  BY <1>2, <1>12 DEF FailBefore, FailPrevious, FailTemp, FailSave, SessionKept
<1>13. CASE FailFill(h)
  BY <1>3, <1>13 DEF FailFill, Others, SessionKept
<1> QED BY <1>1, <1>5, <1>6, <1>7, <1>8, <1>9, <1>10, <1>11, <1>12, <1>13 DEF SaveStep

(* OwnerInv is kept. *)
LEMMA OwnerStep ==
  ASSUME TypeOK, OwnerInv, [Next]_vars
  PROVE  OwnerInv'
<1>1. ASSUME NEW h \in Helpers, setup' = setup, \A g \in Helpers \ {h} : Same(g),
             Begins(h) \/ Ends(h) \/ Same(h) \/ Deletes(h) \/ Continues(h)
      PROVE  OwnerInv'
  <2>1. SUFFICES ASSUME NEW g \in Helpers
                 PROVE  /\ SessionJob(g)' => g = setup.owner /\ step'[g] \in Saving \cup {"read back"}
                        /\ job'[g].after = "list" => job'[g].file \in Presets
    BY <1>1 DEF OwnerInv
  <2>2. CASE Same(g)
    BY <2>2 DEF OwnerInv, SessionJob, Same
  <2>3. CASE g = h /\ Begins(h)
    BY <2>3 DEF Begins, SessionJob, Saving
  <2>4. CASE g = h /\ Ends(h)
    BY <2>4, NoJobFields DEF Ends, SessionJob, OwnerInv
  <2>5. CASE g = h /\ Deletes(h)
    BY <2>5 DEF Deletes, SessionJob
  <2>6. CASE g = h /\ Continues(h)
    BY <2>6 DEF Continues, SessionJob, OwnerInv, Saving, Rests
  <2> QED BY <1>1, <2>2, <2>3, <2>4, <2>5, <2>6
<1>2. CASE Next
  <2>1. PICK h \in setup.helpers :
          SessionStep(h) \/ PresetStep(h) \/ Work(h) \/ Launch(h) \/ Restore(h) \/ Die(h)
    BY <1>2 DEF Next
  <2>2. h \in Helpers /\ setup' = setup
    BY <1>2, TypesSplit DEF Next
  <2> QED BY <1>1, <2>1, <2>2, SaveShape, WorkShape, ProcessShape DEF SessionStep, PresetStep
<1>3. CASE UNCHANGED vars
  BY <1>3 DEF vars, workVars, OwnerInv, SessionJob
<1> QED BY <1>2, <1>3

-----------------------------------------------------------------------------
(* The part of FileInv about the helper that saves. *)
Follows(g) ==
  LET session == disk[Session] IN
  /\ step[g] \in {"create previous", "fill previous", "replace previous"} =>
        job[g].old = session["current"] /\ job[g].old # Missing
  /\ step[g] = "replace previous" => session["previous.tmp"] = job[g].old
  /\ step[g] \in {"create", "fill", "check", "replace"} => session["previous"] = session["current"]
  /\ step[g] = "replace" => session["tmp"] = job[g].value

(* FileInv in terms of Follows. *)
LEMMA FollowsSplit == FileInv => \A g \in Helpers : SessionJob(g) => Follows(g)
BY DEF FileInv, Follows

(* FileInv is kept by a step that leaves the session alone. *)
LEMMA QuietStep ==
  ASSUME FileInv, SessionKept,
         \A g \in Helpers : SessionJob(g)' => step'[g] = "clean" \/ (SessionJob(g) /\ Same(g))
  PROVE  FileInv'
<1>1. ASSUME NEW g \in Helpers, SessionJob(g)' PROVE Follows(g)'
  <2>1. CASE step'[g] = "clean"
    BY <2>1 DEF Follows
  <2>2. CASE SessionJob(g) /\ Same(g)
    BY <2>2, FollowsSplit DEF Follows, Same, SessionKept
  <2> QED BY <1>1, <2>1, <2>2
<1> QED BY <1>1 DEF FileInv, Follows, FallbackIsRecent, SessionKept

(* FileInv is kept by a step of the owner that leaves what a load looks at alone. *)
LEMMA KeptStep ==
  ASSUME FileInv, OwnerInv', NEW h \in Helpers, setup' = setup, h = setup.owner,
         disk'[Session]["current"] = disk[Session]["current"],
         disk'[Session]["previous"] = disk[Session]["previous"],
         superseded' = superseded, step'[h] \notin Rests => Follows(h)'
  PROVE  FileInv'
<1>1. ASSUME NEW g \in Helpers, SessionJob(g)' PROVE Follows(g)'
  BY <1>1 DEF OwnerInv, SessionJob
<1> QED BY <1>1 DEF FileInv, Follows, FallbackIsRecent

(* The temporaries of the session can go without harm to the two others. *)
LEMMA SessionPaths ==
  ASSUME TypeOK, NEW h \in Helpers, job[h].file = Session
  PROVE  /\ \A names \in SUBSET {"tmp", "previous.tmp"}, s \in {"current", "previous"} :
               Erased(disk, Session, names, h)[Session][s] = disk[Session][s]
         /\ \A s \in Suffixes, c \in Contents, t \in Suffixes :
               [disk EXCEPT ![Session][s] = c][Session][t] = IF t = s THEN c ELSE disk[Session][t]
<1>1. disk \in DiskType /\ Session \in Files /\ {"current", "previous", "tmp", "previous.tmp"} = Suffixes
  BY TypesSplit, Types
<1> QED BY <1>1, SetPath DEF Erased, DiskType

(* Every call of a save of the session keeps FileInv, and only the last rename
   changes the current file, to the value being saved. *)
LEMMA SessionFileStep ==
  ASSUME TypeOK, OwnerInv, FileInv, OwnerInv', setup' = setup, NEW h \in Helpers, SessionStep(h)
  PROVE  /\ FileInv'
         /\ disk'[Session]["current"] =
               IF ReplaceCurrent(h) THEN job[h].value ELSE disk[Session]["current"]
<1> DEFINE session == disk[Session]
<1>1. job[h].file = Session /\ SaveStep(h)
  BY DEF SessionStep
<1>2. SessionJob(h) /\ h = setup.owner /\ Follows(h)
  <2>1. step[h] \notin Rests
    BY <1>1 DEF SaveStep, CleanUp, Rotate, CreatePrevious, FillPrevious, ReplacePrevious, CreateTemp, FillTemp,
                CheckTemp, ReplaceCurrent, ReadBack, FailBefore, FailPrevious, FailTemp, FailFill, Rests
  <2> QED BY <1>1, <2>1, FollowsSplit DEF SessionJob, OwnerInv
<1>3. /\ {"current", "previous", "tmp", "previous.tmp"} = Suffixes /\ Session \in Files
      /\ Missing \in Contents /\ Torn \in Contents /\ Missing \notin Racks
      /\ job[h].value \in Racks /\ job[h].value \in Contents /\ job[h].old \in Contents
      /\ step \in [Helpers -> Steps] /\ job \in [Helpers -> Jobs] /\ disk \in DiskType
  BY Types, TypesSplit DEF TypeOK
<1>4. CASE CleanUp(h)
  <2>1. disk' = Erased(disk, Session, {"tmp", "previous.tmp"}, h) /\ step'[h] = "rotate" /\ superseded' = superseded
    BY <1>1, <1>3, <1>4 DEF CleanUp, Others
  <2>2. Follows(h)'
    BY <2>1 DEF Follows
  <2> QED BY <1>1, <1>2, <1>4, <2>1, <2>2, KeptStep, SessionPaths DEF CleanUp, ReplaceCurrent
<1>5. CASE Rotate(h)
  <2>1. /\ disk' = disk /\ superseded' = superseded
        /\ step' = [step EXCEPT ![h] = IF DecodesAt(Session, "current") THEN "create previous" ELSE "create"]
        /\ job' = [job EXCEPT ![h].old = IF DecodesAt(Session, "current") THEN session["current"] ELSE Missing]
    BY <1>1, <1>5 DEF Rotate, diskVars, Others
  <2>2. CASE DecodesAt(Session, "current")
    <3>1. step'[h] = "create previous" /\ job'[h].old = session["current"]
      BY <1>3, <2>1, <2>2 DEF Jobs
    <3>2. session["current"] # Missing
      BY <1>3, <2>2 DEF DecodesAt, Decodes
    <3>3. Follows(h)'
      BY <2>1, <3>1, <3>2 DEF Follows
    <3> QED BY <1>2, <1>5, <2>1, <3>3, KeptStep DEF Rotate, ReplaceCurrent
  <2>3. CASE ~DecodesAt(Session, "current")
    <3>1. step'[h] = "create"
      BY <1>3, <2>1, <2>3
    <3>2. session["previous"] = session["current"]
      BY <2>3 DEF DecodesAt, Decodes, FileInv
    <3>3. Follows(h)'
      BY <2>1, <3>1, <3>2 DEF Follows
    <3> QED BY <1>2, <1>5, <2>1, <3>3, KeptStep DEF Rotate, ReplaceCurrent
  <2> QED BY <2>2, <2>3
<1>6. CASE CreatePrevious(h)
  <2>1. disk' = [disk EXCEPT ![Session]["previous.tmp"] = Torn] /\ superseded' = superseded
    BY <1>1, <1>6 DEF CreatePrevious, Create, Others
  <2>2. step'[h] = "fill previous" /\ job'[h] = job[h] /\ step[h] = "create previous"
    BY <1>3, <1>6 DEF CreatePrevious, Create
  <2>3. \A s \in {"current", "previous"} : disk'[Session][s] = session[s]
    BY <1>1, <1>3, <2>1, SessionPaths
  <2>4. Follows(h)'
    BY <1>2, <2>2, <2>3 DEF Follows
  <2> QED BY <1>2, <2>1, <2>2, <2>3, <2>4, KeptStep DEF ReplaceCurrent
<1>7. CASE FillPrevious(h)
  <2>1. disk' = [disk EXCEPT ![Session]["previous.tmp"] = job[h].old] /\ superseded' = superseded
    BY <1>1, <1>7 DEF FillPrevious, Fill, Others
  <2>2. step'[h] = "replace previous" /\ job'[h] = job[h] /\ step[h] = "fill previous"
    BY <1>3, <1>7 DEF FillPrevious, Fill
  <2>3. /\ \A s \in {"current", "previous"} : disk'[Session][s] = session[s]
        /\ disk'[Session]["previous.tmp"] = job[h].old
    BY <1>1, <1>3, <2>1, SessionPaths
  <2>4. Follows(h)'
    BY <1>2, <2>2, <2>3 DEF Follows
  <2> QED BY <1>2, <2>1, <2>2, <2>3, <2>4, KeptStep DEF ReplaceCurrent
<1>8. CASE ReplacePrevious(h)
  <2>1. /\ disk' = [disk EXCEPT ![Session] = [@ EXCEPT !["previous"] = disk[Session]["previous.tmp"], !["previous.tmp"] = Missing]]
        /\ superseded' = superseded
    BY <1>1, <1>8 DEF ReplacePrevious, Rename, Others
  <2>2. step'[h] = "create" /\ step[h] = "replace previous"
    BY <1>3, <1>8 DEF ReplacePrevious, Rename
  <2>3. disk'[Session]["current"] = session["current"] /\ disk'[Session]["previous"] = session["previous.tmp"]
    BY <1>3, <2>1 DEF DiskType
  <2>4. disk'[Session]["previous"] = disk'[Session]["current"] /\ session["current"] # Missing
    BY <1>2, <2>2, <2>3 DEF Follows
  <2>5. ASSUME NEW g \in Helpers, SessionJob(g)' PROVE Follows(g)'
    BY <1>2, <2>2, <2>4, <2>5 DEF Follows, OwnerInv, SessionJob
  <2> QED BY <2>1, <2>2, <2>3, <2>4, <2>5 DEF FileInv, FallbackIsRecent, Follows, ReplaceCurrent
<1>9. CASE CreateTemp(h)
  <2>1. disk' = [disk EXCEPT ![Session]["tmp"] = Torn] /\ superseded' = superseded
    BY <1>1, <1>9 DEF CreateTemp, Create, Others
  <2>2. step'[h] = "fill" /\ job'[h] = job[h] /\ step[h] = "create"
    BY <1>3, <1>9 DEF CreateTemp, Create
  <2>3. \A s \in {"current", "previous"} : disk'[Session][s] = session[s]
    BY <1>1, <1>3, <2>1, SessionPaths
  <2>4. Follows(h)'
    BY <1>2, <2>2, <2>3 DEF Follows
  <2> QED BY <1>2, <2>1, <2>2, <2>3, <2>4, KeptStep DEF ReplaceCurrent
<1>10. CASE FillTemp(h)
  <2>1. disk' = [disk EXCEPT ![Session]["tmp"] = job[h].value] /\ superseded' = superseded
    BY <1>1, <1>10 DEF FillTemp, Fill, Others
  <2>2. step'[h] = "check" /\ job'[h] = job[h] /\ step[h] = "fill"
    BY <1>3, <1>10 DEF FillTemp, Fill
  <2>3. \A s \in {"current", "previous"} : disk'[Session][s] = session[s]
    BY <1>1, <1>3, <2>1, SessionPaths
  <2>4. Follows(h)'
    BY <1>2, <2>2, <2>3 DEF Follows
  <2> QED BY <1>2, <2>1, <2>2, <2>3, <2>4, KeptStep DEF ReplaceCurrent
<1>11. CASE CheckTemp(h)
  <2>1. disk' = disk /\ superseded' = superseded /\ session["tmp"] = job[h].value
    BY <1>1, <1>11 DEF CheckTemp, diskVars, Others
  <2>2. step'[h] = "replace" /\ job'[h] = job[h] /\ step[h] = "check"
    BY <1>3, <1>11 DEF CheckTemp
  <2>3. Follows(h)'
    BY <1>2, <2>1, <2>2 DEF Follows
  <2> QED BY <1>2, <2>1, <2>2, <2>3, KeptStep DEF ReplaceCurrent
<1>12. CASE ReplaceCurrent(h)
  <2>1. /\ disk' = [disk EXCEPT ![Session] = [@ EXCEPT !["current"] = disk[Session]["tmp"], !["tmp"] = Missing]]
        /\ superseded' = session["current"]
    BY <1>1, <1>12 DEF ReplaceCurrent, Rename
  <2>2. step'[h] = "read back" /\ step[h] = "replace"
    BY <1>3, <1>12 DEF ReplaceCurrent, Rename
  <2>3. disk'[Session]["current"] = session["tmp"] /\ disk'[Session]["previous"] = session["previous"]
    BY <1>3, <2>1 DEF DiskType
  <2>4. session["tmp"] = job[h].value /\ session["previous"] = session["current"]
    BY <1>2, <2>2 DEF Follows
  <2>5. ASSUME NEW g \in Helpers, SessionJob(g)' PROVE Follows(g)'
    BY <1>2, <2>2, <2>5 DEF Follows, OwnerInv, SessionJob
  <2> QED BY <1>3, <1>12, <2>1, <2>3, <2>4, <2>5 DEF FileInv, FallbackIsRecent, Follows
<1>13. CASE ReadBack(h)
  <2>1. disk' = disk /\ superseded' = superseded /\ step'[h] = "idle" /\ step[h] = "read back"
    BY <1>3, <1>13 DEF ReadBack, EndSave, diskVars
  <2> QED BY <1>2, <2>1, KeptStep DEF Rests, ReplaceCurrent
<1>14. CASE FailBefore(h) \/ FailPrevious(h) \/ FailTemp(h)
  <2>1. superseded' = superseded /\ step'[h] = "idle" /\ job'[h] = NoJob
    BY <1>3, <1>14 DEF FailBefore, FailPrevious, FailTemp, FailSave, EndSave
  <2>2. disk' = disk \/ \E names \in SUBSET {"tmp", "previous.tmp"} : disk' = Erased(disk, Session, names, h)
    BY <1>1, <1>14 DEF FailBefore, FailPrevious, FailTemp
  <2>3. \A s \in {"current", "previous"} : disk'[Session][s] = session[s]
    BY <1>1, <2>2, SessionPaths
  <2>4. ~ReplaceCurrent(h)
    BY <1>3, <2>1 DEF ReplaceCurrent, Rename
  <2> QED BY <1>2, <2>1, <2>3, <2>4, KeptStep DEF Rests
<1>15. CASE FailFill(h)
  <2>1. superseded' = superseded /\ step'[h] = "idle" /\ step[h] \in {"fill", "fill previous"}
    BY <1>3, <1>15 DEF FailFill, EndSave, Others
  <2>2. \E s \in {"tmp", "previous.tmp"} : disk' = [disk EXCEPT ![Session][s] = Missing]
    BY <1>1, <1>15 DEF FailFill
  <2>3. \A s \in {"current", "previous"} : disk'[Session][s] = session[s]
    BY <1>1, <1>3, <2>2, SessionPaths
  <2> QED BY <1>2, <2>1, <2>3, KeptStep DEF Rests, ReplaceCurrent
<1> QED BY <1>1, <1>4, <1>5, <1>6, <1>7, <1>8, <1>9, <1>10, <1>11, <1>12, <1>13, <1>14, <1>15 DEF SaveStep

(* Every other action keeps FileInv and the session file. *)
LEMMA OtherFileStep ==
  ASSUME TypeOK, OwnerInv, FileInv, NEW h \in Helpers, setup' = setup,
         PresetStep(h) \/ Work(h) \/ Launch(h) \/ Restore(h) \/ Die(h)
  PROVE  FileInv' /\ SessionKept
<1>1. ASSUME SessionKept, \A g \in Helpers \ {h} : Same(g),
             SessionJob(h)' => step'[h] = "clean" \/ (SessionJob(h) /\ Same(h))
      PROVE  FileInv' /\ SessionKept
  <2>1. \A g \in Helpers \ {h} : SessionJob(g)' => SessionJob(g)
    BY <1>1 DEF SessionJob, Same
  <2> QED BY <1>1, <2>1, QuietStep
<1>2. CASE PresetStep(h)
  <2>1. SessionKept /\ (\A g \in Helpers \ {h} : Same(g)) /\ (Ends(h) \/ Continues(h)) /\ job[h].file # Session
    BY <1>2, PresetStepKeeps, SaveShape DEF PresetStep
  <2>2. ~SessionJob(h)'
    BY <2>1 DEF Ends, Continues, SessionJob
  <2> QED BY <1>1, <2>1, <2>2
<1>3. CASE Work(h)
  <2>1. SessionKept /\ (\A g \in Helpers \ {h} : Same(g)) /\ (Begins(h) \/ Ends(h) \/ Same(h) \/ Deletes(h))
    BY <1>3, WorkShape
  <2>2. Same(h) /\ SessionJob(h)' => SessionJob(h)
    BY DEF Same, SessionJob
  <2>3. Deletes(h) \/ Ends(h) => ~SessionJob(h)'
    BY DEF Deletes, Ends, SessionJob
  <2> QED BY <1>1, <2>1, <2>2, <2>3 DEF Begins
<1>4. CASE Launch(h) \/ Restore(h) \/ Die(h)
  <2>1. SessionKept /\ (\A g \in Helpers \ {h} : Same(g)) /\ Ends(h)
    BY <1>4, ProcessShape
  <2> QED BY <1>1, <2>1 DEF Ends, SessionJob
<1> QED BY <1>2, <1>3, <1>4

(* The invariant holds before the first helper starts. *)
LEMMA SessionInit == Init => SessionInv
<1> SUFFICES ASSUME Init PROVE SessionInv
  OBVIOUS
<1>1. TypeOK
  <2>1. /\ Missing \in Contents /\ NoJob \in Jobs /\ 0 \in Racks /\ "down" \in Steps
    BY Types DEF Rests
  <2>2. crashes \in 0 .. MaxCrashes
    BY DEF Init
  <2> QED BY <2>1, <2>2 DEF Init, TypeOK
<1>2. OwnerInv
  BY NoJobFields DEF Init, OwnerInv, SessionJob, Rests
<1>3. FileInv
  <2>1. \A s \in Suffixes : disk[Session][s] = Missing
    BY Types DEF Init
  <2>2. \A h \in Helpers : ~SessionJob(h)
    BY DEF Init, SessionJob, Rests
  <2>3. superseded = Missing
    BY DEF Init
  <2> QED BY <2>1, <2>2, <2>3, Types DEF FileInv, FallbackIsRecent
<1> QED BY <1>1, <1>2, <1>3 DEF SessionInv

(* Every step keeps the invariant. *)
LEMMA SessionStepInv == SessionInv /\ [Next]_vars => SessionInv'
<1> SUFFICES ASSUME SessionInv, [Next]_vars PROVE SessionInv'
  OBVIOUS
<1>1. TypeOK /\ OwnerInv /\ FileInv
  BY DEF SessionInv
<1>2. TypeOK' /\ OwnerInv'
  BY <1>1, TypeStep, OwnerStep
<1>3. FileInv'
  <2>1. CASE Next
    <3>1. PICK h \in setup.helpers :
            SessionStep(h) \/ PresetStep(h) \/ Work(h) \/ Launch(h) \/ Restore(h) \/ Die(h)
      BY <2>1 DEF Next
    <3>2. h \in Helpers /\ setup' = setup
      BY <1>1, <2>1, TypesSplit DEF Next
    <3> QED BY <1>1, <1>2, <3>1, <3>2, SessionFileStep, OtherFileStep
  <2>2. CASE UNCHANGED vars
    BY <1>1, <2>2 DEF vars, diskVars, workVars, FileInv, FallbackIsRecent, SessionJob
  <2> QED BY <2>1, <2>2
<1> QED BY <1>2, <1>3 DEF SessionInv

(* The inductive invariant of the session file: the variables stay in range,
   one helper alone saves the session, and each of its file calls finds the
   paths as the calls before it have left them. *)
THEOREM SessionSafety == Spec => []SessionInv
BY SessionInit, SessionStepInv, PTL DEF Spec

(* The variables stay in range, whatever the helpers of all Racks do to the
   files and wherever they die. *)
THEOREM RackFilesTypes == Spec => []TypeOK
<1>1. SessionInv => TypeOK
  BY DEF SessionInv
<1> QED BY <1>1, SessionSafety, PTL

(* The copy that load_rack_session_snapshot_lkg falls back to is never older
   than one save, and exists once a save has replaced another. *)
THEOREM RackFilesFallbackIsRecent == Spec => []FallbackIsRecent
<1>1. SessionInv => FallbackIsRecent
  BY DEF SessionInv, FileInv
<1> QED BY <1>1, SessionSafety, PTL

-----------------------------------------------------------------------------
(* The helper that has a Rack on offer. *)
Saver(h) == job[h].file = Session /\ step[h] \in Saving

(* The current file is whole whenever there is a copy, so that a load without
   read errors does not fall back. *)
LoadGivesCurrent == Loaded(Session) = disk[Session]["current"]

(* FileInv gives just that. *)
LEMMA LoadedIsCurrent == FileInv => LoadGivesCurrent
<1> SUFFICES ASSUME FileInv PROVE Loaded(Session) = disk[Session]["current"]
  BY DEF LoadGivesCurrent
<1>1. \A s \in Suffixes : Reads(Session, s, {}) <=> disk[Session][s] \in Racks
  BY DEF Reads, DecodesAt, Decodes
<1>2. {"current", "previous"} \subseteq Suffixes /\ Missing \notin Racks
  BY Types
<1>3. CASE disk[Session]["current"] \in Racks
  BY <1>1, <1>2, <1>3 DEF Loaded, Load
<1>4. CASE disk[Session]["current"] = Missing
  <2>1. disk[Session]["previous"] = Missing
    BY <1>4 DEF FileInv
  <2> QED BY <1>1, <1>2, <1>4, <2>1 DEF Loaded, Load
<1> QED BY <1>3, <1>4 DEF FileInv

(* Only the owner of the session has a Rack on offer. *)
OfferedBySaver ==
  \A h \in Helpers : h = setup.owner => Offered = IF Saver(h) THEN {job[h].value} ELSE {}
NoOtherSaver == Offered # {} => setup.owner \in Helpers

(* OwnerInv gives both. *)
LEMMA OfferedIs == OwnerInv => OfferedBySaver /\ NoOtherSaver
<1> SUFFICES ASSUME OwnerInv PROVE OfferedBySaver /\ NoOtherSaver
  OBVIOUS
<1>1. \A g \in Helpers : Saver(g) => g = setup.owner
  BY DEF Saver, OwnerInv, SessionJob, Saving, Rests
<1>2. OfferedBySaver
  BY <1>1 DEF Offered, Saver, OfferedBySaver
<1>3. NoOtherSaver
  BY <1>1 DEF Offered, Saver, NoOtherSaver
<1> QED BY <1>2, <1>3

(* The same after a step. *)
LEMMA NextFile ==
  /\ FileInv' => LoadGivesCurrent'
  /\ OwnerInv' => OfferedBySaver' /\ NoOtherSaver'
BY LoadedIsCurrent, OfferedIs, PTL

(* A save that begins offers its Rack, the last rename commits it, a failure
   or a death withdraws it, and every other step leaves the register alone. *)
LEMMA RegisterStep == SessionInv /\ SessionInv' /\ [Next]_vars => [Register!Next]_<<Loaded(Session), Offered>>
<1> SUFFICES ASSUME SessionInv, SessionInv', [Next]_vars
             PROVE  [Register!Next]_<<Loaded(Session), Offered>>
  OBVIOUS
<1>1. TypeOK /\ OwnerInv /\ FileInv /\ TypeOK' /\ OwnerInv' /\ FileInv'
  BY DEF SessionInv
<1>2. Loaded(Session) = disk[Session]["current"] /\ Loaded(Session)' = disk'[Session]["current"]
  BY <1>1, LoadedIsCurrent, NextFile DEF LoadGivesCurrent
<1>3. CASE Next
  <2>1. PICK h \in setup.helpers :
          SessionStep(h) \/ PresetStep(h) \/ Work(h) \/ Launch(h) \/ Restore(h) \/ Die(h)
    BY <1>3 DEF Next
  <2>2. h \in Helpers /\ setup' = setup
    BY <1>1, <1>3, TypesSplit DEF Next
  <2>3. CASE h # setup.owner
    <3>1. ~SessionStep(h)
      BY <1>1, <2>2, <2>3 DEF SessionStep, OwnerInv, SessionJob, SaveStep, CleanUp, Rotate, CreatePrevious,
             FillPrevious, ReplacePrevious, CreateTemp, FillTemp, CheckTemp, ReplaceCurrent, ReadBack,
             FailBefore, FailPrevious, FailTemp, FailFill, Rests
    <3>2. SessionKept /\ \A g \in Helpers \ {h} : Same(g)
      BY <1>1, <2>1, <2>2, <3>1, OtherFileStep, WorkShape, ProcessShape, SaveShape DEF PresetStep
    <3>3. Offered' = Offered
      <4>1. CASE setup.owner \in Helpers
        <5>1. Saver(setup.owner)' = Saver(setup.owner) /\ job'[setup.owner] = job[setup.owner]
          BY <2>2, <2>3, <3>2, <4>1 DEF Same, Saver
        <5> QED BY <1>1, <2>2, <4>1, <5>1, OfferedIs, NextFile DEF OfferedBySaver
      <4>2. CASE setup.owner \notin Helpers
        BY <1>1, <2>2, <4>2, OfferedIs, NextFile DEF NoOtherSaver
      <4> QED BY <4>1, <4>2
    <3> QED BY <1>2, <3>2, <3>3 DEF SessionKept
  <2>4. CASE h = setup.owner
    <3>1. Offered = (IF Saver(h) THEN {job[h].value} ELSE {})
      BY <1>1, <2>2, <2>4, OfferedIs, NextFile DEF OfferedBySaver
    <3>2. Offered' = (IF Saver(h)' THEN {job'[h].value} ELSE {})
      BY <1>1, <2>2, <2>4, OfferedIs, NextFile DEF OfferedBySaver
    <3>3. CASE SessionStep(h)
      <4>1. disk'[Session]["current"] = IF ReplaceCurrent(h) THEN job[h].value ELSE disk[Session]["current"]
        BY <1>1, <2>2, <3>3, SessionFileStep
      <4>2. Ends(h) \/ Continues(h)
        BY <1>1, <2>2, <3>3, SaveShape DEF SessionStep
      <4>3. CASE ReplaceCurrent(h)
        <5>1. Saver(h) /\ ~Saver(h)'
          BY <1>1, <2>2, <3>3, <4>3 DEF SessionStep, ReplaceCurrent, Rename, Saver, Saving, TypeOK
        <5> QED BY <1>2, <3>1, <3>2, <4>1, <4>3, <5>1 DEF Register!Next, Register!Commit
      <4>4. CASE ~ReplaceCurrent(h)
        <5>1. Saver(h)' => Saver(h) /\ job'[h].value = job[h].value
          BY <3>3, <4>2 DEF Ends, Continues, Saver, SessionStep, Saving, Rests
        <5> QED BY <1>2, <3>1, <3>2, <4>1, <4>4, <5>1 DEF Register!Next, Register!Withdraw
      <4> QED BY <4>3, <4>4
    <3>4. CASE PresetStep(h) \/ Work(h) \/ Launch(h) \/ Restore(h) \/ Die(h)
      <4>1. SessionKept
        BY <1>1, <2>2, <3>4, OtherFileStep
      <4>2. \/ Begins(h) \/ Ends(h) \/ Same(h) \/ Deletes(h)
            \/ job[h].file # Session /\ Continues(h)
        BY <1>1, <2>2, <3>4, WorkShape, ProcessShape, SaveShape DEF PresetStep
      <4>3. Saver(h)' => job'[h].value \in Racks
        BY <1>1, <2>2, TypesSplit DEF TypeOK, Jobs
      <4>4. Saver(h) /\ Saver(h)' => job'[h].value = job[h].value
        BY <4>2 DEF Begins, Ends, Same, Deletes, Continues, Saver, Saving, Rests
      <4> QED BY <1>2, <3>1, <3>2, <4>1, <4>3, <4>4 DEF SessionKept, Register!Next, Register!Offer, Register!Withdraw
    <3> QED BY <2>1, <3>3, <3>4
  <2> QED BY <2>3, <2>4
<1>4. CASE UNCHANGED vars
  BY <1>4 DEF vars, diskVars, workVars, Loaded, Load, Reads, DecodesAt, DecodesPreset, Offered
<1> QED BY <1>3, <1>4

(* write_rack_session_snapshot_atomic implements AtomicSave: what a load gives
   is replaced in one step by the Rack being saved, or stays. *)
THEOREM RackSessionIsAtomic == Spec => SessionIsAtomic
<1>1. Init => Register!Init
  <2> SUFFICES ASSUME Init PROVE Register!Init
    OBVIOUS
  <2>1. SessionInv
    BY SessionInit
  <2>2. Loaded(Session) = Missing
    <3>1. disk[Session]["current"] = Missing
      BY Types DEF Init
    <3> QED BY <2>1, <3>1, LoadedIsCurrent DEF SessionInv, LoadGivesCurrent
  <2>3. Offered = {}
    BY DEF Init, Offered, Saving
  <2> QED BY <2>2, <2>3 DEF Register!Init
<1> QED BY <1>1, RegisterStep, SessionSafety, PTL DEF Spec, SessionIsAtomic, Register!Spec
=============================================================================
