-------------------------- MODULE RackBridge_proofs --------------------------
(***************************************************************************)
(* Theorems about RackBridge.  Every step keeps the parts of SafetyInv, one *)
(* lemma for each part; the properties follow from the parts.               *)
(***************************************************************************)
EXTENDS RackBridge, TLAPS

USE BoundsAssumption

(* The numbers that are written are numbers of requests and of samples. *)
LEMMA Numbers ==
  /\ 0 \in Requests /\ 1 \in Requests \ {0} /\ 0 \in Samples /\ Torn \in Samples
  /\ \A b \in 0 .. MaxBlocks : b \in Samples
  /\ \A g \in Requests : NextRequest(g) \in Requests \ {0}
BY DEF Requests, Samples, Torn, NextRequest

(* The records that are reset as a whole have their types. *)
LEMMA Constants ==
  /\ NoRegion \in Region /\ NewDsp \in DspState /\ NewWorker \in WorkerState
  /\ NewPlugin \in Plugin
  /\ audio \in AudioState => Outside \in AudioState
  /\ dsp \in DspState => Refused \in DspState
<1>1. NoRegion \in Region
  BY Numbers DEF NoRegion, Region
<1>2. NewDsp \in DspState
  BY Numbers DEF NewDsp, DspState
<1>3. NewWorker \in WorkerState
  BY DEF NewWorker, WorkerState
<1>4. NewPlugin \in Plugin
  BY DEF NewPlugin, Plugin, Flag
<1>5. audio \in AudioState => Outside \in AudioState
  BY Numbers DEF Outside, AudioState
<1>6. dsp \in DspState => Refused \in DspState
  BY DEF Refused, DspState
<1> QED BY <1>1, <1>2, <1>3, <1>4, <1>5, <1>6

(* A flag with its buffered and its visible value. *)
LEMMA FlagTyped ==
  ASSUME NEW f \in Flag
  PROVE  f.stored \in BOOLEAN /\ f.visible \in BOOLEAN
BY DEF Flag

(* The last element of the ring. *)
LEMMA LastTyped ==
  ASSUME NEW s \in Seq(Nat), s # <<>>
  PROVE  Len(s) \in 1 .. Len(s) /\ s[Len(s)] \in Nat
OBVIOUS

(* The end of the process leaves nothing of the helper but the file. *)
LEMMA EndsClean ==
  ASSUME ProcessEnds
  PROVE  /\ process' = "exited" /\ stored' = stored
         /\ dsp'.at = "wait" /\ dsp'.slipped = FALSE /\ dsp'.ok = TRUE
         /\ worker'.at = "boot" /\ worker'.ok = FALSE
         /\ plugin'.ring = <<>> /\ plugin'.calls = 0 /\ plugin'.submitted = 0 /\ plugin'.applied = 0
         /\ plugin'.controller = 0 /\ plugin'.processor = 0 /\ plugin'.resync = FALSE
         /\ plugin'.capture.stored = FALSE /\ plugin'.capture.visible = FALSE
BY DEF ProcessEnds, NewDsp, NewWorker, NewPlugin

(* The ring holds numbers of edits. *)
LEMMA RingTyped ==
  ASSUME Types
  PROVE  plugin.ring \in Seq(Nat)
BY DEF Types, HelperTypes, Plugin

(* Two successive requests never have the same number: LONG_MAX is not one. *)
LEMMA NextDiffers ==
  ASSUME NEW g \in Requests, g # 0
  PROVE  NextRequest(g) # g
BY DEF NextRequest, Requests

(* An edit that is appended to the ring is its last. *)
LEMMA AppendLen ==
  ASSUME NEW s \in Seq(Nat), NEW e \in Nat
  PROVE  Len(Append(s, e)) = Len(s) + 1 /\ Append(s, e) # <<>> /\ Append(s, e)[Len(Append(s, e))] = e
OBVIOUS

(* The counters of the ring are numbers. *)
LEMMA Counted ==
  ASSUME Types
  PROVE  /\ plugin.submitted \in Nat /\ plugin.applied \in Nat /\ plugin.calls \in Int
         /\ plugin.controller \in Nat /\ plugin.processor \in Nat
         /\ Len(plugin.ring) \in Nat /\ dsp.drained \in Nat /\ InFlight \in Nat
<1>1. plugin \in Plugin /\ dsp \in DspState
  BY DEF Types, HelperTypes
<1>2. plugin.ring \in Seq(Nat) /\ dsp.drained \in Nat
  BY <1>1 DEF Plugin, DspState
<1> QED BY <1>1, <1>2 DEF Plugin, InFlight

(* Every step keeps the types of what OBS and the helper share. *)
LEMMA ObsTypeStep ==
  ASSUME ObsTypes, HelperTypes, EventInv, [Next]_vars
  PROVE  ObsTypes'
<1>1. ASSUME Launch PROVE ObsTypes'
  <2>1. bridge' \in {"none", "starting", "live", "stopped"}
    BY <1>1, Numbers, Constants DEF Launch, ObsTypes, HelperTypes
  <2>2. region' \in Region
    BY <1>1, Numbers, Constants DEF Launch, Region, ObsTypes, HelperTypes
  <2> QED BY <1>1, <2>1, <2>2 DEF Launch, ObsTypes
<1>2. ASSUME LaunchFails PROVE ObsTypes'
  <2>1. destroyer' \in DestroyerState
    BY <1>2, Numbers, Constants DEF LaunchFails, DestroyerState, ObsTypes, HelperTypes
  <2> QED BY <1>2, <2>1 DEF LaunchFails, helperVars, ObsTypes
<1>3. ASSUME NEW status \in {"ready", "error"}, Boot(status) PROVE ObsTypes'
  <2>1. region' \in Region
    BY <1>3, Numbers, Constants DEF Boot, ProcessEnds, Region, ObsTypes, HelperTypes
  <2>2. events' \subseteq {"ready", "request", "save", "saved"}
    BY <1>3, Numbers, Constants DEF Boot, ProcessEnds, ObsTypes, HelperTypes
  <2> QED BY <1>3, <2>1, <2>2 DEF Boot, ProcessEnds, obsVars, ObsTypes
<1>4. ASSUME Started PROVE ObsTypes'
  <2>1. bridge' \in {"none", "starting", "live", "stopped"}
    BY <1>4, Numbers, Constants DEF Started, ObsTypes, HelperTypes
  <2>2. pending' \in Requests
    BY <1>4, Numbers, Constants DEF Started, ObsTypes, HelperTypes
  <2>3. next_request' \in Requests \ {0}
    BY <1>4, Numbers, Constants DEF Started, ObsTypes, HelperTypes
  <2>4. destroyer' \in DestroyerState
    BY <1>4, Numbers, Constants DEF Started, DestroyerState, ObsTypes, HelperTypes
  <2> QED BY <1>4, <2>1, <2>2, <2>3, <2>4 DEF Started, helperVars, ObsTypes
<1>5. ASSUME StartFails PROVE ObsTypes'
  <2>1. bridge' \in {"none", "starting", "live", "stopped"}
    BY <1>5, Numbers, Constants DEF StartFails, ProcessEnds, ObsTypes, HelperTypes
  <2>2. destroyer' \in DestroyerState
    BY <1>5, Numbers, Constants DEF StartFails, ProcessEnds, DestroyerState, ObsTypes,
        HelperTypes
  <2>3. region' \in Region
    BY <1>5, Numbers, Constants DEF StartFails, ProcessEnds, Region, ObsTypes, HelperTypes
  <2>4. events' \subseteq {"ready", "request", "save", "saved"}
    BY <1>5, Numbers, Constants DEF StartFails, ProcessEnds, ObsTypes, HelperTypes
  <2> QED BY <1>5, <2>1, <2>2, <2>3, <2>4 DEF StartFails, ProcessEnds, ObsTypes
<1>6. ASSUME HelperExits PROVE ObsTypes'
  <2>1. region' \in Region
    BY <1>6, Numbers, Constants DEF HelperExits, ProcessEnds, Region, ObsTypes, HelperTypes
  <2> QED BY <1>6, <2>1 DEF HelperExits, ProcessEnds, obsVars, ObsTypes
<1>7. ASSUME AudioEnters PROVE ObsTypes'
  <2>1. audio_readers' \in Int
    BY <1>7, Numbers, Constants DEF AudioEnters, FilterExists, ObsTypes, HelperTypes
  <2>2. audio' \in AudioState
    <3>1. audio.block + 1 \in 0 .. MaxBlocks
      BY <1>7 DEF AudioEnters, ObsTypes, AudioState
    <3> QED BY <1>7, Numbers, Constants, <3>1 DEF AudioEnters, FilterExists, AudioState,
        ObsTypes, HelperTypes
  <2> QED BY <1>7, <2>1, <2>2 DEF AudioEnters, helperVars, ObsTypes
<1>8. ASSUME AudioGate PROVE ObsTypes'
  <2>1. audio_readers' \in Int
    BY <1>8, Numbers, Constants DEF AudioGate, ObsTypes, HelperTypes
  <2>2. audio' \in AudioState
    <3>1. gate.stored \in BOOLEAN
      BY <1>8 DEF ObsTypes, Flag
    <3> QED BY <1>8, Numbers, Constants, <3>1 DEF AudioGate, AudioState, ObsTypes, HelperTypes
  <2> QED BY <1>8, <2>1, <2>2 DEF AudioGate, helperVars, ObsTypes
<1>9. ASSUME AudioDry PROVE ObsTypes'
  <2>1. audio_readers' \in Int
    BY <1>9, Numbers, Constants DEF AudioDry, Running, ObsTypes, HelperTypes
  <2>2. audio' \in AudioState
    BY <1>9, Numbers, Constants DEF AudioDry, Running, AudioState, ObsTypes, HelperTypes
  <2> QED BY <1>9, <2>1, <2>2 DEF AudioDry, helperVars, ObsTypes
<1>10. ASSUME AudioWrites PROVE ObsTypes'
  <2>1. audio' \in AudioState
    BY <1>10, Numbers, Constants DEF AudioWrites, Running, AudioState, ObsTypes, HelperTypes
  <2>2. pending' \in Requests
    BY <1>10, Numbers, Constants DEF AudioWrites, Running, ObsTypes, HelperTypes
  <2>3. next_request' \in Requests \ {0}
    BY <1>10, Numbers, Constants DEF AudioWrites, Running, ObsTypes, HelperTypes
  <2>4. region' \in Region
    BY <1>10, Numbers, Constants DEF AudioWrites, Running, Region, ObsTypes, HelperTypes
  <2> QED BY <1>10, <2>1, <2>2, <2>3, <2>4 DEF AudioWrites, helperVars, ObsTypes
<1>11. ASSUME AudioRequests PROVE ObsTypes'
  <2>1. audio' \in AudioState
    BY <1>11, Numbers, Constants DEF AudioRequests, AudioState, ObsTypes, HelperTypes
  <2>2. pending' \in Requests
    <3>1. audio.own \in Requests
      BY <1>11 DEF ObsTypes, AudioState
    <3> QED BY <1>11, Numbers, Constants, <3>1 DEF AudioRequests, ObsTypes, HelperTypes
  <2>3. region' \in Region
    <3>1. audio.own \in Requests /\ audio.block \in Samples
      BY <1>11, Numbers DEF ObsTypes, AudioState
    <3> QED BY <1>11, Numbers, Constants, <3>1 DEF AudioRequests, Region, ObsTypes, HelperTypes
  <2>4. events' \subseteq {"ready", "request", "save", "saved"}
    BY <1>11, Numbers, Constants DEF AudioRequests, ObsTypes, HelperTypes
  <2> QED BY <1>11, <2>1, <2>2, <2>3, <2>4 DEF AudioRequests, helperVars, ObsTypes
<1>12. ASSUME AudioDelivers PROVE ObsTypes'
  <2>1. audio_readers' \in Int
    BY <1>12, Numbers, Constants DEF AudioDelivers, ObsTypes, HelperTypes
  <2>2. audio' \in AudioState
    BY <1>12, Numbers, Constants DEF AudioDelivers, AudioState, ObsTypes, HelperTypes
  <2>3. pending' \in Requests
    BY <1>12, Numbers, Constants DEF AudioDelivers, ObsTypes, HelperTypes
  <2>4. heard' \in BOOLEAN
    BY <1>12, Numbers, Constants DEF AudioDelivers, ObsTypes, HelperTypes
  <2> QED BY <1>12, <2>1, <2>2, <2>3, <2>4 DEF AudioDelivers, helperVars, ObsTypes
<1>13. ASSUME AudioMisses PROVE ObsTypes'
  <2>1. audio_readers' \in Int
    BY <1>13, Numbers, Constants DEF AudioMisses, ObsTypes, HelperTypes
  <2>2. audio' \in AudioState
    BY <1>13, Numbers, Constants DEF AudioMisses, AudioState, ObsTypes, HelperTypes
  <2> QED BY <1>13, <2>1, <2>2 DEF AudioMisses, helperVars, ObsTypes
<1>14. ASSUME AudioFaults PROVE ObsTypes'
  <2>1. audio' \in AudioState
    BY <1>14, Numbers, Constants DEF AudioFaults, AudioState, ObsTypes, HelperTypes
  <2> QED BY <1>14, <2>1 DEF AudioFaults, helperVars, ObsTypes
<1>15. ASSUME DestroyBegins PROVE ObsTypes'
  <2>1. gate' \in Flag
    BY <1>15, Numbers, Constants DEF DestroyBegins, Flag, ObsTypes, HelperTypes
  <2>2. destroyer' \in DestroyerState
    BY <1>15, Numbers, Constants DEF DestroyBegins, DestroyerState, ObsTypes, HelperTypes
  <2> QED BY <1>15, <2>1, <2>2 DEF DestroyBegins, helperVars, ObsTypes
<1>16. ASSUME GateBecomesVisible PROVE ObsTypes'
  <2>1. gate' \in Flag
    BY <1>16, Numbers, Constants DEF GateBecomesVisible, Flag, ObsTypes, HelperTypes
  <2> QED BY <1>16, <2>1 DEF GateBecomesVisible, helperVars, ObsTypes
<1>17. ASSUME Drained PROVE ObsTypes'
  <2>1. destroyer' \in DestroyerState
    BY <1>17, Numbers, Constants DEF Drained, DestroyerState, ObsTypes, HelperTypes
  <2> QED BY <1>17, <2>1 DEF Drained, helperVars, ObsTypes
<1>18. ASSUME DrainRetries PROVE ObsTypes'
  <2>1. destroyer' \in DestroyerState
    <3>1. destroyer.attempts + 1 \in Nat
      BY <1>18 DEF ObsTypes, DestroyerState
    <3> QED BY <1>18, Numbers, Constants, <3>1 DEF DrainRetries, DestroyerState, ObsTypes,
        HelperTypes
  <2> QED BY <1>18, <2>1 DEF DrainRetries, helperVars, ObsTypes
<1>19. ASSUME StopSignals PROVE ObsTypes'
  <2>1. gate' \in Flag
    BY <1>19, Numbers, Constants DEF StopSignals, Flag, ObsTypes, HelperTypes
  <2>2. mutex' \in {"free", "save", "destroy"}
    BY <1>19, Numbers, Constants DEF StopSignals, ObsTypes, HelperTypes
  <2>3. destroyer' \in DestroyerState
    BY <1>19, Numbers, Constants DEF StopSignals, DestroyerState, ObsTypes, HelperTypes
  <2>4. region' \in Region
    BY <1>19, Numbers, Constants DEF StopSignals, Region, ObsTypes, HelperTypes
  <2>5. events' \subseteq {"ready", "request", "save", "saved"}
    BY <1>19, Numbers, Constants DEF StopSignals, ObsTypes, HelperTypes
  <2> QED BY <1>19, <2>1, <2>2, <2>3, <2>4, <2>5 DEF StopSignals, helperVars, ObsTypes
<1>20. ASSUME StopEnds PROVE ObsTypes'
  <2>1. bridge' \in {"none", "starting", "live", "stopped"}
    BY <1>20, Numbers, Constants DEF StopEnds, Unmap, ProcessEnds, ObsTypes, HelperTypes
  <2>2. mutex' \in {"free", "save", "destroy"}
    BY <1>20, Numbers, Constants DEF StopEnds, Unmap, ProcessEnds, ObsTypes, HelperTypes
  <2>3. pending' \in Requests
    BY <1>20, Numbers, Constants DEF StopEnds, Unmap, ProcessEnds, ObsTypes, HelperTypes
  <2>4. destroyer' \in DestroyerState
    BY <1>20, Numbers, Constants DEF StopEnds, Unmap, ProcessEnds, DestroyerState, ObsTypes,
        HelperTypes
  <2>5. region' \in Region
    BY <1>20, Numbers, Constants DEF StopEnds, Unmap, ProcessEnds, Region, ObsTypes, HelperTypes
  <2>6. events' \subseteq {"ready", "request", "save", "saved"}
    BY <1>20, Numbers, Constants DEF StopEnds, Unmap, ProcessEnds, ObsTypes, HelperTypes
  <2> QED BY <1>20, <2>1, <2>2, <2>3, <2>4, <2>5, <2>6 DEF StopEnds, Unmap, ProcessEnds, ObsTypes
<1>21. ASSUME ModuleUnload PROVE ObsTypes'
  <2>1. bridge' \in {"none", "starting", "live", "stopped"}
    BY <1>21, Numbers, Constants DEF ModuleUnload, Unmap, ProcessEnds, helperVars, ObsTypes,
        HelperTypes
  <2>2. pending' \in Requests
    BY <1>21, Numbers, Constants DEF ModuleUnload, Unmap, ProcessEnds, helperVars, ObsTypes,
        HelperTypes
  <2>3. destroyer' \in DestroyerState
    BY <1>21, Numbers, Constants DEF ModuleUnload, Unmap, ProcessEnds, DestroyerState, helperVars,
        ObsTypes, HelperTypes
  <2>4. region' \in Region
    BY <1>21, Numbers, Constants DEF ModuleUnload, Unmap, ProcessEnds, Region, helperVars,
        ObsTypes, HelperTypes
  <2>5. events' \subseteq {"ready", "request", "save", "saved"}
    BY <1>21, Numbers, Constants DEF ModuleUnload, Unmap, ProcessEnds, helperVars, ObsTypes,
        HelperTypes
  <2> QED BY <1>21, <2>1, <2>2, <2>3, <2>4, <2>5 DEF ModuleUnload, Unmap, ProcessEnds, helperVars,
      ObsTypes
<1>22. ASSUME SaveBegins PROVE ObsTypes'
  <2>1. saver' \in SaverState
    <3>1. saver.saves + 1 \in Nat
      BY <1>22 DEF ObsTypes, SaverState
    <3> QED BY <1>22, Numbers, Constants, <3>1 DEF SaveBegins, FilterExists, SaverState, ObsTypes,
        HelperTypes
  <2> QED BY <1>22, <2>1 DEF SaveBegins, helperVars, ObsTypes
<1>23. ASSUME SaveRequests PROVE ObsTypes'
  <2>1. mutex' \in {"free", "save", "destroy"}
    BY <1>23, Numbers, Constants DEF SaveRequests, Running, ObsTypes, HelperTypes
  <2>2. saver' \in SaverState
    <3>1. plugin.controller \in Nat
      BY <1>23 DEF HelperTypes, Plugin
    <3> QED BY <1>23, Numbers, Constants, <3>1 DEF SaveRequests, Running, SaverState, ObsTypes,
        HelperTypes
  <2>3. events' \subseteq {"ready", "request", "save", "saved"}
    BY <1>23, Numbers, Constants DEF SaveRequests, Running, ObsTypes, HelperTypes
  <2> QED BY <1>23, <2>1, <2>2, <2>3 DEF SaveRequests, helperVars, ObsTypes
<1>24. ASSUME SaveRefused PROVE ObsTypes'
  <2>1. saver' \in SaverState
    BY <1>24, Numbers, Constants DEF SaveRefused, Running, SaverState, ObsTypes, HelperTypes
  <2> QED BY <1>24, <2>1 DEF SaveRefused, helperVars, ObsTypes
<1>25. ASSUME SaveAnswered PROVE ObsTypes'
  <2>1. mutex' \in {"free", "save", "destroy"}
    BY <1>25, Numbers, Constants DEF SaveAnswered, ObsTypes, HelperTypes
  <2>2. saver' \in SaverState
    <3>1. region.save_result \in {"none", "ok", "failed"}
      BY <1>25 DEF SaveAnswered, ObsTypes, Region, EventInv
    <3>2. (IF region.save_result = "ok" THEN saver.wanted ELSE 0) \in Nat
      BY <1>25 DEF ObsTypes, SaverState
    <3> QED BY <1>25, Numbers, Constants, <3>1, <3>2 DEF SaveAnswered, SaverState, ObsTypes,
        HelperTypes
  <2>3. events' \subseteq {"ready", "request", "save", "saved"}
    BY <1>25, Numbers, Constants DEF SaveAnswered, ObsTypes, HelperTypes
  <2> QED BY <1>25, <2>1, <2>2, <2>3 DEF SaveAnswered, helperVars, ObsTypes
<1>26. ASSUME SaveGivesUp PROVE ObsTypes'
  <2>1. mutex' \in {"free", "save", "destroy"}
    BY <1>26, Numbers, Constants DEF SaveGivesUp, ObsTypes, HelperTypes
  <2>2. saver' \in SaverState
    BY <1>26, Numbers, Constants DEF SaveGivesUp, SaverState, ObsTypes, HelperTypes
  <2> QED BY <1>26, <2>1, <2>2 DEF SaveGivesUp, helperVars, ObsTypes
<1>27. ASSUME DspTakes PROVE ObsTypes'
  <2>1. events' \subseteq {"ready", "request", "save", "saved"}
    BY <1>27, Numbers, Constants DEF DspTakes, ObsTypes, HelperTypes
  <2> QED BY <1>27, <2>1 DEF DspTakes, obsVars, ObsTypes
<1>28. ASSUME DspOutputs PROVE ObsTypes'
  <2>1. region' \in Region
    <3>1. (IF dsp.ok THEN dsp.value ELSE region.input) \in Samples
      BY <1>28 DEF ObsTypes, HelperTypes, Region, DspState
    <3> QED BY <1>28, Numbers, Constants, <3>1 DEF DspOutputs, Region, ObsTypes, HelperTypes
  <2> QED BY <1>28, <2>1 DEF DspOutputs, obsVars, ObsTypes
<1>29. ASSUME DspResponds PROVE ObsTypes'
  <2>1. region' \in Region
    <3>1. dsp.request \in Requests
      BY <1>29 DEF HelperTypes, DspState
    <3> QED BY <1>29, Numbers, Constants, <3>1 DEF DspResponds, Region, ObsTypes, HelperTypes
  <2> QED BY <1>29, <2>1 DEF DspResponds, obsVars, ObsTypes
<1>30. ASSUME TakeSave PROVE ObsTypes'
  <2>1. events' \subseteq {"ready", "request", "save", "saved"}
    BY <1>30, Numbers, Constants DEF TakeSave, ObsTypes, HelperTypes
  <2> QED BY <1>30, <2>1 DEF TakeSave, obsVars, ObsTypes
<1>31. ASSUME AnswerSave PROVE ObsTypes'
  <2>1. region' \in Region
    BY <1>31, Numbers, Constants DEF AnswerSave, Region, ObsTypes, HelperTypes
  <2>2. events' \subseteq {"ready", "request", "save", "saved"}
    BY <1>31, Numbers, Constants DEF AnswerSave, ObsTypes, HelperTypes
  <2> QED BY <1>31, <2>1, <2>2 DEF AnswerSave, obsVars, ObsTypes
<1>32. ASSUME HelperDies \/ DspShutdown \/ DspCounts \/ DspGate \/ (\E ok \in BOOLEAN :
    DspReads(ok)) \/ DspApplies \/ DspLeaves \/ Edit \/ Resync \/ SyncLooks \/ SyncCompares \/
    SyncTimesOut \/ CaptureBecomesVisible \/ CaptureDrained \/ DrainTimesOut \/ (\E ok \in
    BOOLEAN : Capture(ok)) \/ WorkerShutdown PROVE ObsTypes'
  BY <1>32 DEF HelperDies, ProcessEnds, NewDsp, NewWorker, NewPlugin, obsVars, DspShutdown,
      DspCounts, Refused, DspGate, DspReads, DspApplies, DspLeaves, Edit, Resync, SyncLooks,
      Captured, SyncCompares, SyncTimesOut, CaptureBecomesVisible, CaptureDrained,
      DrainTimesOut, NoCapture, Capture, WorkerShutdown, ObsTypes
<1>33. ASSUME UNCHANGED vars PROVE ObsTypes'
  BY <1>33 DEF vars, ObsTypes
<1> QED BY <1>1, <1>2, <1>3, <1>4, <1>5, <1>6, <1>7, <1>8, <1>9, <1>10, <1>11, <1>12, <1>13,
    <1>14, <1>15, <1>16, <1>17, <1>18, <1>19, <1>20, <1>21, <1>22, <1>23, <1>24, <1>25, <1>26,
    <1>27, <1>28, <1>29, <1>30, <1>31, <1>32, <1>33 DEF Next, AudioStep, DestroyStep, SaveStep,
    DspStep, WorkerStep

(* Every step keeps the types of the helper. *)
LEMMA HelperTypeStep ==
  ASSUME ObsTypes, HelperTypes, [Next]_vars
  PROVE  HelperTypes'
<1>1. ASSUME Launch PROVE HelperTypes'
  <2>1. process' \in {"none", "running", "exited"}
    BY <1>1, Numbers, Constants DEF Launch, ObsTypes, HelperTypes
  <2> QED BY <1>1, <2>1 DEF Launch, HelperTypes
<1>2. ASSUME NEW status \in {"ready", "error"}, Boot(status) PROVE HelperTypes'
  <2>1. process' \in {"none", "running", "exited"}
    BY <1>2, Numbers, Constants DEF Boot, ProcessEnds, ObsTypes, HelperTypes
  <2>2. dsp' \in DspState
    BY <1>2, Numbers, Constants DEF Boot, ProcessEnds, DspState, ObsTypes, HelperTypes
  <2>3. worker' \in WorkerState
    BY <1>2, Numbers, Constants DEF Boot, ProcessEnds, WorkerState, ObsTypes, HelperTypes
  <2>4. plugin' \in Plugin
    BY <1>2, Numbers, Constants DEF Boot, ProcessEnds, Plugin, Flag, ObsTypes, HelperTypes
  <2> QED BY <1>2, <2>1, <2>2, <2>3, <2>4 DEF Boot, ProcessEnds, obsVars, HelperTypes
<1>3. ASSUME StartFails PROVE HelperTypes'
  <2>1. process' \in {"none", "running", "exited"}
    BY <1>3, Numbers, Constants DEF StartFails, ProcessEnds, ObsTypes, HelperTypes
  <2>2. dsp' \in DspState
    BY <1>3, Numbers, Constants DEF StartFails, ProcessEnds, DspState, ObsTypes, HelperTypes
  <2>3. worker' \in WorkerState
    BY <1>3, Numbers, Constants DEF StartFails, ProcessEnds, WorkerState, ObsTypes, HelperTypes
  <2>4. plugin' \in Plugin
    BY <1>3, Numbers, Constants DEF StartFails, ProcessEnds, Plugin, Flag, ObsTypes, HelperTypes
  <2> QED BY <1>3, <2>1, <2>2, <2>3, <2>4 DEF StartFails, ProcessEnds, HelperTypes
<1>4. ASSUME HelperDies PROVE HelperTypes'
  <2>1. process' \in {"none", "running", "exited"}
    BY <1>4, Numbers, Constants DEF HelperDies, ProcessEnds, ObsTypes, HelperTypes
  <2>2. dsp' \in DspState
    BY <1>4, Numbers, Constants DEF HelperDies, ProcessEnds, DspState, ObsTypes, HelperTypes
  <2>3. worker' \in WorkerState
    BY <1>4, Numbers, Constants DEF HelperDies, ProcessEnds, WorkerState, ObsTypes, HelperTypes
  <2>4. plugin' \in Plugin
    BY <1>4, Numbers, Constants DEF HelperDies, ProcessEnds, Plugin, Flag, ObsTypes, HelperTypes
  <2> QED BY <1>4, <2>1, <2>2, <2>3, <2>4 DEF HelperDies, ProcessEnds, obsVars, HelperTypes
<1>5. ASSUME HelperExits PROVE HelperTypes'
  <2>1. process' \in {"none", "running", "exited"}
    BY <1>5, Numbers, Constants DEF HelperExits, ProcessEnds, ObsTypes, HelperTypes
  <2>2. dsp' \in DspState
    BY <1>5, Numbers, Constants DEF HelperExits, ProcessEnds, DspState, ObsTypes, HelperTypes
  <2>3. worker' \in WorkerState
    BY <1>5, Numbers, Constants DEF HelperExits, ProcessEnds, WorkerState, ObsTypes, HelperTypes
  <2>4. plugin' \in Plugin
    BY <1>5, Numbers, Constants DEF HelperExits, ProcessEnds, Plugin, Flag, ObsTypes, HelperTypes
  <2> QED BY <1>5, <2>1, <2>2, <2>3, <2>4 DEF HelperExits, ProcessEnds, obsVars, HelperTypes
<1>6. ASSUME StopEnds PROVE HelperTypes'
  <2>1. process' \in {"none", "running", "exited"}
    BY <1>6, Numbers, Constants DEF StopEnds, Unmap, ProcessEnds, ObsTypes, HelperTypes
  <2>2. dsp' \in DspState
    BY <1>6, Numbers, Constants DEF StopEnds, Unmap, ProcessEnds, DspState, ObsTypes, HelperTypes
  <2>3. worker' \in WorkerState
    BY <1>6, Numbers, Constants DEF StopEnds, Unmap, ProcessEnds, WorkerState, ObsTypes,
        HelperTypes
  <2>4. plugin' \in Plugin
    BY <1>6, Numbers, Constants DEF StopEnds, Unmap, ProcessEnds, Plugin, Flag, ObsTypes,
        HelperTypes
  <2> QED BY <1>6, <2>1, <2>2, <2>3, <2>4 DEF StopEnds, Unmap, ProcessEnds, HelperTypes
<1>7. ASSUME ModuleUnload PROVE HelperTypes'
  <2>1. process' \in {"none", "running", "exited"}
    BY <1>7, Numbers, Constants DEF ModuleUnload, Unmap, ProcessEnds, helperVars, ObsTypes,
        HelperTypes
  <2>2. dsp' \in DspState
    BY <1>7, Numbers, Constants DEF ModuleUnload, Unmap, ProcessEnds, DspState, helperVars,
        ObsTypes, HelperTypes
  <2>3. worker' \in WorkerState
    BY <1>7, Numbers, Constants DEF ModuleUnload, Unmap, ProcessEnds, WorkerState, helperVars,
        ObsTypes, HelperTypes
  <2>4. plugin' \in Plugin
    BY <1>7, Numbers, Constants DEF ModuleUnload, Unmap, ProcessEnds, Plugin, Flag, helperVars,
        ObsTypes, HelperTypes
  <2> QED BY <1>7, <2>1, <2>2, <2>3, <2>4 DEF ModuleUnload, Unmap, ProcessEnds, helperVars,
      HelperTypes
<1>8. ASSUME DspTakes PROVE HelperTypes'
  <2>1. dsp' \in DspState
    <3>1. region.request \in Requests
      BY <1>8 DEF ObsTypes, Region
    <3> QED BY <1>8, Numbers, Constants, <3>1 DEF DspTakes, DspState, ObsTypes, HelperTypes
  <2> QED BY <1>8, <2>1 DEF DspTakes, obsVars, HelperTypes
<1>9. ASSUME DspShutdown PROVE HelperTypes'
  <2>1. dsp' \in DspState
    BY <1>9, Numbers, Constants DEF DspShutdown, DspState, ObsTypes, HelperTypes
  <2> QED BY <1>9, <2>1 DEF DspShutdown, obsVars, HelperTypes
<1>10. ASSUME DspCounts PROVE HelperTypes'
  <2>1. dsp' \in DspState
    BY <1>10, Numbers, Constants DEF DspCounts, DspState, ObsTypes, HelperTypes
  <2>2. plugin' \in Plugin
    <3>1. plugin.calls + 1 \in Int
      BY <1>10 DEF HelperTypes, Plugin
    <3> QED BY <1>10, Numbers, Constants, <3>1 DEF DspCounts, Plugin, Flag, ObsTypes, HelperTypes
  <2> QED BY <1>10, <2>1, <2>2 DEF DspCounts, obsVars, HelperTypes
<1>11. ASSUME DspGate PROVE HelperTypes'
  <2>1. dsp' \in DspState
    <3>1. plugin.capture.stored \in BOOLEAN
      <4>1. plugin.capture \in Flag
        BY DEF HelperTypes, Plugin
      <4> QED BY <4>1, FlagTyped
    <3>2. CASE dsp' = Refused
      BY <3>2, Constants DEF HelperTypes
    <3>3. CASE dsp' = [dsp EXCEPT !.at = "read", !.slipped = plugin.capture.stored]
      BY <3>1, <3>3 DEF HelperTypes, DspState
    <3> QED BY <1>11, <3>2, <3>3 DEF DspGate
  <2>2. plugin' \in Plugin
    <3>1. plugin.calls - 1 \in Int
      BY <1>11 DEF HelperTypes, Plugin
    <3> QED BY <1>11, Numbers, Constants, <3>1 DEF DspGate, Plugin, Flag, ObsTypes, HelperTypes
  <2> QED BY <1>11, <2>1, <2>2 DEF DspGate, obsVars, HelperTypes
<1>12. ASSUME NEW ok \in BOOLEAN, DspReads(ok) PROVE HelperTypes'
  <2>1. dsp' \in DspState
    <3>1. region.input \in Samples /\ Len(plugin.ring) \in Nat
      BY <1>12 DEF ObsTypes, HelperTypes, Region, Plugin
    <3> QED BY <1>12, Numbers, Constants, <3>1 DEF DspReads, DspState, ObsTypes, HelperTypes
  <2>2. plugin' \in Plugin
    <3>1. plugin.ring \in Seq(Nat) /\ <<>> \in Seq(Nat)
      BY DEF HelperTypes, Plugin
    <3>2. plugin.ring # <<>> => plugin.ring[Len(plugin.ring)] \in Nat
      BY <3>1, LastTyped
    <3>3. CASE ok /\ plugin.ring # <<>>
      <4>1. plugin' = [plugin EXCEPT !.ring = <<>>, !.processor = plugin.ring[Len(plugin.ring)]]
        BY <1>12, <3>3 DEF DspReads
      <4> QED BY <3>1, <3>2, <3>3, <4>1 DEF HelperTypes, Plugin
    <3>4. CASE ~(ok /\ plugin.ring # <<>>)
      <4>1. plugin' = [plugin EXCEPT !.ring = <<>>, !.processor = plugin.processor]
        BY <1>12, <3>4 DEF DspReads
      <4> QED BY <3>1, <4>1 DEF HelperTypes, Plugin
    <3> QED BY <3>3, <3>4
  <2> QED BY <1>12, <2>1, <2>2 DEF DspReads, obsVars, HelperTypes
<1>13. ASSUME DspApplies PROVE HelperTypes'
  <2>1. dsp' \in DspState
    BY <1>13, Numbers, Constants DEF DspApplies, DspState, ObsTypes, HelperTypes
  <2>2. plugin' \in Plugin
    <3>1. plugin.applied + dsp.drained \in Nat
      BY <1>13 DEF HelperTypes, Plugin, DspState
    <3> QED BY <1>13, Numbers, Constants, <3>1 DEF DspApplies, Plugin, Flag, ObsTypes, HelperTypes
  <2> QED BY <1>13, <2>1, <2>2 DEF DspApplies, obsVars, HelperTypes
<1>14. ASSUME DspLeaves PROVE HelperTypes'
  <2>1. dsp' \in DspState
    BY <1>14, Numbers, Constants DEF DspLeaves, DspState, ObsTypes, HelperTypes
  <2>2. plugin' \in Plugin
    <3>1. plugin.calls - 1 \in Int /\ (plugin.failed \/ ~dsp.ok) \in BOOLEAN
      BY <1>14 DEF HelperTypes, Plugin, DspState
    <3> QED BY <1>14, Numbers, Constants, <3>1 DEF DspLeaves, Plugin, Flag, ObsTypes, HelperTypes
  <2> QED BY <1>14, <2>1, <2>2 DEF DspLeaves, obsVars, HelperTypes
<1>15. ASSUME DspOutputs PROVE HelperTypes'
  <2>1. dsp' \in DspState
    BY <1>15, Numbers, Constants DEF DspOutputs, DspState, ObsTypes, HelperTypes
  <2> QED BY <1>15, <2>1 DEF DspOutputs, obsVars, HelperTypes
<1>16. ASSUME DspResponds PROVE HelperTypes'
  <2>1. dsp' \in DspState
    BY <1>16, Numbers, Constants DEF DspResponds, DspState, ObsTypes, HelperTypes
  <2> QED BY <1>16, <2>1 DEF DspResponds, obsVars, HelperTypes
<1>17. ASSUME Edit PROVE HelperTypes'
  <2>1. plugin' \in Plugin
    <3>1. /\ plugin.controller + 1 \in Nat /\ plugin.submitted + 1 \in Nat
          /\ Append(plugin.ring, plugin.controller + 1) \in Seq(Nat)
      BY DEF HelperTypes, Plugin
    <3>2. \/ plugin' = [plugin EXCEPT !.controller = plugin.controller + 1,
                                      !.ring = Append(plugin.ring, plugin.controller + 1),
                                      !.submitted = plugin.submitted + 1]
          \/ plugin' = [plugin EXCEPT !.controller = plugin.controller + 1, !.resync = TRUE]
      BY <1>17 DEF Edit, HelperTypes, Plugin
    <3> QED BY <3>1, <3>2 DEF HelperTypes, Plugin
  <2> QED BY <1>17, <2>1 DEF Edit, obsVars, HelperTypes
<1>18. ASSUME Resync PROVE HelperTypes'
  <2>1. plugin' \in Plugin
    <3>1. Append(plugin.ring, plugin.controller) \in Seq(Nat) /\ plugin.submitted + 1 \in Nat
      BY <1>18 DEF HelperTypes, Plugin
    <3> QED BY <1>18, Numbers, Constants, <3>1 DEF Resync, Plugin, Flag, ObsTypes, HelperTypes
  <2> QED BY <1>18, <2>1 DEF Resync, obsVars, HelperTypes
<1>19. ASSUME TakeSave PROVE HelperTypes'
  <2>1. worker' \in WorkerState
    BY <1>19, Numbers, Constants DEF TakeSave, WorkerState, ObsTypes, HelperTypes
  <2> QED BY <1>19, <2>1 DEF TakeSave, obsVars, HelperTypes
<1>20. ASSUME SyncLooks PROVE HelperTypes'
  <2>1. worker' \in WorkerState
    BY <1>20, Numbers, Constants DEF SyncLooks, Captured, WorkerState, ObsTypes, HelperTypes
  <2> QED BY <1>20, <2>1 DEF SyncLooks, obsVars, HelperTypes
<1>21. ASSUME SyncCompares PROVE HelperTypes'
  <2>1. worker' \in WorkerState
    BY <1>21, Numbers, Constants DEF SyncCompares, WorkerState, ObsTypes, HelperTypes
  <2>2. plugin' \in Plugin
    <3>1. CASE plugin' = [plugin EXCEPT !.capture.stored = TRUE]
      BY <3>1 DEF HelperTypes, Plugin, Flag
    <3>2. CASE plugin' = plugin
      BY <3>2 DEF HelperTypes
    <3> QED BY <1>21, <3>1, <3>2 DEF SyncCompares
  <2> QED BY <1>21, <2>1, <2>2 DEF SyncCompares, obsVars, HelperTypes
<1>22. ASSUME SyncTimesOut PROVE HelperTypes'
  <2>1. worker' \in WorkerState
    BY <1>22, Numbers, Constants DEF SyncTimesOut, Captured, WorkerState, ObsTypes, HelperTypes
  <2> QED BY <1>22, <2>1 DEF SyncTimesOut, obsVars, HelperTypes
<1>23. ASSUME CaptureBecomesVisible PROVE HelperTypes'
  <2>1. plugin' \in Plugin
    BY <1>23, Numbers, Constants DEF CaptureBecomesVisible, Plugin, Flag, ObsTypes, HelperTypes
  <2> QED BY <1>23, <2>1 DEF CaptureBecomesVisible, obsVars, HelperTypes
<1>24. ASSUME CaptureDrained PROVE HelperTypes'
  <2>1. worker' \in WorkerState
    BY <1>24, Numbers, Constants DEF CaptureDrained, WorkerState, ObsTypes, HelperTypes
  <2> QED BY <1>24, <2>1 DEF CaptureDrained, obsVars, HelperTypes
<1>25. ASSUME DrainTimesOut PROVE HelperTypes'
  <2>1. worker' \in WorkerState
    BY <1>25, Numbers, Constants DEF DrainTimesOut, NoCapture, Captured, WorkerState, ObsTypes,
        HelperTypes
  <2>2. plugin' \in Plugin
    BY <1>25, Numbers, Constants DEF DrainTimesOut, NoCapture, Captured, Plugin, Flag, ObsTypes,
        HelperTypes
  <2> QED BY <1>25, <2>1, <2>2 DEF DrainTimesOut, obsVars, HelperTypes
<1>26. ASSUME NEW ok \in BOOLEAN, Capture(ok) PROVE HelperTypes'
  <2>1. worker' \in WorkerState
    BY <1>26, Numbers, Constants DEF Capture, NoCapture, Captured, WorkerState, ObsTypes,
        HelperTypes
  <2>2. plugin' \in Plugin
    BY <1>26, Numbers, Constants DEF Capture, NoCapture, Captured, Plugin, Flag, ObsTypes,
        HelperTypes
  <2>3. stored' \in Stored
    <3>1. plugin.controller \in Nat /\ plugin.processor \in Nat /\ plugin.failed \in BOOLEAN
      BY <1>26 DEF HelperTypes, Plugin
    <3> QED BY <1>26, Numbers, Constants, <3>1 DEF Capture, NoCapture, Captured, Stored, ObsTypes,
        HelperTypes
  <2> QED BY <1>26, <2>1, <2>2, <2>3 DEF Capture, obsVars, HelperTypes
<1>27. ASSUME AnswerSave PROVE HelperTypes'
  <2>1. worker' \in WorkerState
    BY <1>27, Numbers, Constants DEF AnswerSave, WorkerState, ObsTypes, HelperTypes
  <2> QED BY <1>27, <2>1 DEF AnswerSave, obsVars, HelperTypes
<1>28. ASSUME WorkerShutdown PROVE HelperTypes'
  <2>1. worker' \in WorkerState
    BY <1>28, Numbers, Constants DEF WorkerShutdown, WorkerState, ObsTypes, HelperTypes
  <2> QED BY <1>28, <2>1 DEF WorkerShutdown, obsVars, HelperTypes
<1>29. ASSUME LaunchFails \/ Started \/ AudioEnters \/ AudioGate \/ AudioDry \/ AudioWrites \/
    AudioRequests \/ AudioDelivers \/ AudioMisses \/ AudioFaults \/ DestroyBegins \/
    GateBecomesVisible \/ Drained \/ DrainRetries \/ StopSignals \/ SaveBegins \/ SaveRequests
    \/ SaveRefused \/ SaveAnswered \/ SaveGivesUp PROVE HelperTypes'
  BY <1>29 DEF LaunchFails, helperVars, Started, AudioEnters, FilterExists, AudioGate,
      AudioDry, Running, Outside, AudioWrites, NextRequest, Torn, AudioRequests, AudioDelivers,
      AudioMisses, AudioFaults, DestroyBegins, GateBecomesVisible, Drained, DrainRetries,
      StopSignals, SaveBegins, SaveRequests, SaveRefused, SaveAnswered, SaveGivesUp,
      HelperTypes
<1>30. ASSUME UNCHANGED vars PROVE HelperTypes'
  BY <1>30 DEF vars, HelperTypes
<1> QED BY <1>1, <1>2, <1>3, <1>4, <1>5, <1>6, <1>7, <1>8, <1>9, <1>10, <1>11, <1>12, <1>13,
    <1>14, <1>15, <1>16, <1>17, <1>18, <1>19, <1>20, <1>21, <1>22, <1>23, <1>24, <1>25, <1>26,
    <1>27, <1>28, <1>29, <1>30 DEF Next, AudioStep, DestroyStep, SaveStep, DspStep, WorkerStep

(* An answer to a save is written before its event is set, and nothing is
   announced before the bridge exists. *)
LEMMA EventStep ==
  ASSUME Types, EventInv, [Next]_vars
  PROVE  EventInv'
<1>1. ASSUME Launch PROVE EventInv'
  BY <1>1 DEF Launch, NoRegion, EventInv
<1>2. ASSUME LaunchFails PROVE EventInv'
  BY <1>2 DEF LaunchFails, helperVars, EventInv
<1>3. ASSUME NEW status \in {"ready", "error"}, Boot(status) PROVE EventInv'
  <2>1. region' = [region EXCEPT !.status = status] /\ region \in Region
    BY <1>3 DEF Boot, Types, ObsTypes
  <2>2. region'.save_result = region.save_result
    BY <2>1 DEF Region
  <2>3. events' = events \cup {"ready"} /\ destroyer' = destroyer /\ bridge' = bridge /\ process = "running"
    BY <1>3 DEF Boot, obsVars
  <2> QED BY <2>2, <2>3 DEF EventInv
<1>4. ASSUME Started PROVE EventInv'
  BY <1>4 DEF Started, helperVars, EventInv
<1>5. ASSUME StartFails PROVE EventInv'
  BY <1>5 DEF StartFails, ProcessEnds, NewDsp, NewWorker, NewPlugin, NoRegion, EventInv
<1>6. ASSUME HelperDies PROVE EventInv'
  BY <1>6 DEF HelperDies, ProcessEnds, NewDsp, NewWorker, NewPlugin, obsVars, EventInv
<1>7. ASSUME HelperExits PROVE EventInv'
  BY <1>7 DEF HelperExits, ProcessEnds, NewDsp, NewWorker, NewPlugin, obsVars, EventInv
<1>8. ASSUME AudioWrites PROVE EventInv'
  BY <1>8 DEF AudioWrites, Running, NextRequest, Torn, helperVars, EventInv
<1>9. ASSUME AudioRequests PROVE EventInv'
  BY <1>9 DEF AudioRequests, helperVars, EventInv
<1>10. ASSUME DestroyBegins PROVE EventInv'
  BY <1>10 DEF DestroyBegins, helperVars, EventInv
<1>11. ASSUME Drained PROVE EventInv'
  BY <1>11 DEF Drained, helperVars, EventInv
<1>12. ASSUME DrainRetries PROVE EventInv'
  BY <1>12 DEF DrainRetries, helperVars, EventInv
<1>13. ASSUME StopSignals PROVE EventInv'
  <2>1. region \in Region
    BY DEF Types, ObsTypes
  <2>2. region'.save_result = region.save_result
    BY <1>13, <2>1 DEF StopSignals, Region
  <2>3. "saved" \in events' => "saved" \in events
    BY <1>13 DEF StopSignals
  <2>4. destroyer'.at # "creating"
    BY <1>13 DEF StopSignals, Types, ObsTypes, DestroyerState
  <2> QED BY <2>2, <2>3, <2>4 DEF EventInv
<1>14. ASSUME StopEnds PROVE EventInv'
  BY <1>14 DEF StopEnds, Unmap, ProcessEnds, NewDsp, NewWorker, NewPlugin, NoRegion, EventInv
<1>15. ASSUME ModuleUnload PROVE EventInv'
  BY <1>15 DEF ModuleUnload, Unmap, ProcessEnds, NewDsp, NewWorker, NewPlugin, NoRegion,
      helperVars, EventInv
<1>16. ASSUME SaveRequests PROVE EventInv'
  BY <1>16 DEF SaveRequests, Running, helperVars, EventInv
<1>17. ASSUME SaveAnswered PROVE EventInv'
  BY <1>17 DEF SaveAnswered, helperVars, EventInv
<1>18. ASSUME DspTakes PROVE EventInv'
  BY <1>18 DEF DspTakes, obsVars, EventInv
<1>19. ASSUME DspOutputs PROVE EventInv'
  BY <1>19 DEF DspOutputs, obsVars, EventInv
<1>20. ASSUME DspResponds PROVE EventInv'
  BY <1>20 DEF DspResponds, NewDsp, obsVars, EventInv
<1>21. ASSUME TakeSave PROVE EventInv'
  BY <1>21 DEF TakeSave, obsVars, EventInv
<1>22. ASSUME AnswerSave PROVE EventInv'
  <2>1. region' = [region EXCEPT !.save_result = IF worker.ok THEN "ok" ELSE "failed"] /\ region \in Region
    BY <1>22 DEF AnswerSave, Types, ObsTypes
  <2>2. region'.save_result # "idle"
    BY <2>1 DEF Region
  <2>3. destroyer' = destroyer /\ bridge' = bridge /\ process = "running"
    BY <1>22 DEF AnswerSave, obsVars
  <2> QED BY <2>2, <2>3 DEF EventInv
<1>23. ASSUME AudioEnters \/ AudioGate \/ AudioDry \/ AudioDelivers \/ AudioMisses \/
    AudioFaults \/ GateBecomesVisible \/ SaveBegins \/ SaveRefused \/ SaveGivesUp \/
    DspShutdown \/ DspCounts \/ DspGate \/ (\E ok \in BOOLEAN : DspReads(ok)) \/ DspApplies \/
    DspLeaves \/ Edit \/ Resync \/ SyncLooks \/ SyncCompares \/ SyncTimesOut \/
    CaptureBecomesVisible \/ CaptureDrained \/ DrainTimesOut \/ (\E ok \in BOOLEAN :
    Capture(ok)) \/ WorkerShutdown PROVE EventInv'
  BY <1>23 DEF AudioEnters, FilterExists, helperVars, AudioGate, AudioDry, Running, Outside,
      AudioDelivers, AudioMisses, AudioFaults, GateBecomesVisible, SaveBegins, SaveRefused,
      SaveGivesUp, DspShutdown, obsVars, DspCounts, Refused, DspGate, DspReads, DspApplies,
      DspLeaves, Edit, Resync, SyncLooks, Captured, SyncCompares, SyncTimesOut,
      CaptureBecomesVisible, CaptureDrained, DrainTimesOut, NoCapture, Capture, WorkerShutdown,
      EventInv
<1>24. ASSUME UNCHANGED vars PROVE EventInv'
  BY <1>24 DEF vars, EventInv
<1> QED BY <1>1, <1>2, <1>3, <1>4, <1>5, <1>6, <1>7, <1>8, <1>9, <1>10, <1>11, <1>12, <1>13,
    <1>14, <1>15, <1>16, <1>17, <1>18, <1>19, <1>20, <1>21, <1>22, <1>23, <1>24 DEF Next,
    AudioStep, DestroyStep, SaveStep, DspStep, WorkerStep

(* The readers, the vendor calls and the edits on their way stay counted. *)
LEMMA CountStep ==
  ASSUME Types, CountInv, [Next]_vars
  PROVE  CountInv'
<1>1. ASSUME LaunchFails PROVE CountInv'
  BY <1>1 DEF LaunchFails, helperVars, CountInv, InVendorCall, InFlight, Types, ObsTypes,
      HelperTypes, DestroyerState
<1>2. ASSUME NEW status \in {"ready", "error"}, Boot(status) PROVE CountInv'
  <2>1. audio_readers' = audio_readers /\ audio' = audio /\ destroyer' = destroyer
    BY <1>2 DEF Boot, obsVars
  <2>2. CASE UNCHANGED <<process, dsp, plugin, stored>>
    BY <2>1, <2>2 DEF CountInv, InVendorCall, InFlight
  <2>3. CASE ProcessEnds
    BY <2>1, <2>3, EndsClean DEF CountInv, InVendorCall, InFlight
  <2> QED BY <1>2, <2>2, <2>3 DEF Boot
<1>3. ASSUME Started PROVE CountInv'
  BY <1>3 DEF Started, helperVars, CountInv, InVendorCall, InFlight, Types, ObsTypes,
      HelperTypes, DestroyerState
<1>4. ASSUME StartFails PROVE CountInv'
  BY <1>4 DEF StartFails, ProcessEnds, NewDsp, NewWorker, NewPlugin, NoRegion, CountInv,
      InVendorCall, InFlight, Types, ObsTypes, HelperTypes, DestroyerState, DspState, Plugin,
      Flag
<1>5. ASSUME HelperDies PROVE CountInv'
  BY <1>5 DEF HelperDies, ProcessEnds, NewDsp, NewWorker, NewPlugin, obsVars, CountInv,
      InVendorCall, InFlight, Types, ObsTypes, HelperTypes, DspState, Plugin, Flag
<1>6. ASSUME HelperExits PROVE CountInv'
  BY <1>6 DEF HelperExits, ProcessEnds, NewDsp, NewWorker, NewPlugin, obsVars, CountInv,
      InVendorCall, InFlight, Types, ObsTypes, HelperTypes, DspState, Plugin, Flag
<1>7. ASSUME AudioEnters PROVE CountInv'
  BY <1>7 DEF AudioEnters, FilterExists, helperVars, CountInv, InVendorCall, InFlight, Types,
      ObsTypes, HelperTypes, AudioState
<1>8. ASSUME AudioGate PROVE CountInv'
  <2>1. destroyer' = destroyer /\ UNCHANGED helperVars
    BY <1>8 DEF AudioGate
  <2>2. audio_readers' = IF audio'.at = "out" THEN 0 ELSE 1
    <3>1. audio_readers = 1 /\ audio \in AudioState
      BY <1>8 DEF AudioGate, CountInv, Types, ObsTypes
    <3>2. CASE gate.visible
      BY <1>8, <3>1, <3>2 DEF AudioGate, AudioState
    <3>3. CASE ~gate.visible
      BY <1>8, <3>1, <3>3 DEF AudioGate, AudioState
    <3> QED BY <3>2, <3>3
  <2> QED BY <2>1, <2>2 DEF CountInv, InVendorCall, InFlight, helperVars
<1>9. ASSUME AudioDry PROVE CountInv'
  BY <1>9 DEF AudioDry, Running, Outside, helperVars, CountInv, InVendorCall, InFlight, Types,
      ObsTypes, HelperTypes, AudioState
<1>10. ASSUME AudioWrites PROVE CountInv'
  BY <1>10 DEF AudioWrites, Running, NextRequest, Torn, helperVars, CountInv, InVendorCall,
      InFlight, Types, ObsTypes, HelperTypes, AudioState
<1>11. ASSUME AudioRequests PROVE CountInv'
  BY <1>11 DEF AudioRequests, helperVars, CountInv, InVendorCall, InFlight, Types, ObsTypes,
      HelperTypes, AudioState
<1>12. ASSUME AudioDelivers PROVE CountInv'
  BY <1>12 DEF AudioDelivers, Outside, helperVars, CountInv, InVendorCall, InFlight, Types,
      ObsTypes, HelperTypes, AudioState
<1>13. ASSUME AudioMisses PROVE CountInv'
  BY <1>13 DEF AudioMisses, Outside, helperVars, CountInv, InVendorCall, InFlight, Types,
      ObsTypes, HelperTypes, AudioState
<1>14. ASSUME AudioFaults PROVE CountInv'
  BY <1>14 DEF AudioFaults, helperVars, CountInv, InVendorCall, InFlight, Types, ObsTypes,
      HelperTypes, AudioState
<1>15. ASSUME DestroyBegins PROVE CountInv'
  BY <1>15 DEF DestroyBegins, helperVars, CountInv, InVendorCall, InFlight, Types, ObsTypes,
      HelperTypes, DestroyerState
<1>16. ASSUME Drained PROVE CountInv'
  BY <1>16 DEF Drained, helperVars, CountInv, InVendorCall, InFlight, Types, ObsTypes,
      HelperTypes, DestroyerState
<1>17. ASSUME DrainRetries PROVE CountInv'
  BY <1>17 DEF DrainRetries, helperVars, CountInv, InVendorCall, InFlight, Types, ObsTypes,
      HelperTypes, DestroyerState
<1>18. ASSUME StopSignals PROVE CountInv'
  BY <1>18 DEF StopSignals, helperVars, CountInv, InVendorCall, InFlight, Types, ObsTypes,
      HelperTypes, DestroyerState
<1>19. ASSUME StopEnds PROVE CountInv'
  BY <1>19 DEF StopEnds, Unmap, ProcessEnds, NewDsp, NewWorker, NewPlugin, NoRegion, CountInv,
      InVendorCall, InFlight, Types, ObsTypes, HelperTypes, DestroyerState, DspState, Plugin,
      Flag
<1>20. ASSUME ModuleUnload PROVE CountInv'
  <2>1. audio_readers' = audio_readers /\ audio' = audio /\ destroyer'.attempts = destroyer.attempts
    BY <1>20 DEF ModuleUnload, Types, ObsTypes, DestroyerState
  <2>2. CASE UNCHANGED helperVars
    BY <2>1, <2>2 DEF CountInv, InVendorCall, InFlight, helperVars
  <2>3. CASE ProcessEnds
    BY <2>1, <2>3, EndsClean DEF CountInv, InVendorCall, InFlight
  <2> QED BY <1>20, <2>2, <2>3 DEF ModuleUnload, Unmap
<1>21. ASSUME DspTakes PROVE CountInv'
  BY <1>21 DEF DspTakes, obsVars, CountInv, InVendorCall, InFlight, Types, ObsTypes,
      HelperTypes, DspState
<1>22. ASSUME DspShutdown PROVE CountInv'
  BY <1>22 DEF DspShutdown, obsVars, CountInv, InVendorCall, InFlight, Types, ObsTypes,
      HelperTypes, DspState
<1>23. ASSUME DspCounts PROVE CountInv'
  <2>1. audio_readers' = audio_readers /\ audio' = audio /\ destroyer' = destroyer
    BY <1>23 DEF DspCounts, obsVars
  <2>2. plugin'.calls = (IF InVendorCall' THEN 1 ELSE 0) /\ InFlight' = 0 /\ InFlight = 0
    <3>1. plugin.calls = (IF InVendorCall THEN 1 ELSE 0) /\ plugin \in Plugin /\ dsp \in DspState
      BY DEF CountInv, Types, HelperTypes
    <3>2. CASE plugin.capture.visible
      <4>1. dsp'.at = "output"
        BY <1>23, <3>1, <3>2 DEF DspCounts, Refused, DspState
      <4>2. plugin'.calls = 0
        BY <1>23, <3>1, <3>2 DEF DspCounts, InVendorCall, Plugin
      <4>3. dsp.at # "applied"
        BY <1>23 DEF DspCounts
      <4> QED BY <4>1, <4>2, <4>3 DEF InVendorCall, InFlight
    <3>3. CASE ~plugin.capture.visible
      BY <1>23, <3>1, <3>3 DEF DspCounts, InVendorCall, InFlight, DspState, Plugin
    <3> QED BY <3>2, <3>3
  <2>3. /\ plugin'.ring = plugin.ring /\ plugin'.submitted = plugin.submitted
        /\ plugin'.applied = plugin.applied
    BY <1>23 DEF DspCounts, Types, HelperTypes, Plugin
  <2> QED BY <2>1, <2>2, <2>3 DEF CountInv
<1>24. ASSUME DspGate PROVE CountInv'
  <2>1. audio_readers' = audio_readers /\ audio' = audio /\ destroyer' = destroyer
    BY <1>24 DEF DspGate, obsVars
  <2>2. plugin'.calls = (IF InVendorCall' THEN 1 ELSE 0) /\ InFlight' = 0 /\ InFlight = 0
    <3>1. plugin.calls = (IF InVendorCall THEN 1 ELSE 0) /\ plugin \in Plugin /\ dsp \in DspState
      BY DEF CountInv, Types, HelperTypes
    <3>2. CASE plugin.capture.visible
      <4>1. dsp'.at = "output"
        BY <1>24, <3>1, <3>2 DEF DspGate, Refused, DspState
      <4>2. plugin'.calls = 0
        BY <1>24, <3>1, <3>2 DEF DspGate, InVendorCall, Plugin
      <4>3. dsp.at # "applied"
        BY <1>24 DEF DspGate
      <4> QED BY <4>1, <4>2, <4>3 DEF InVendorCall, InFlight
    <3>3. CASE ~plugin.capture.visible
      BY <1>24, <3>1, <3>3 DEF DspGate, InVendorCall, InFlight, DspState, Plugin
    <3> QED BY <3>2, <3>3
  <2>3. /\ plugin'.ring = plugin.ring /\ plugin'.submitted = plugin.submitted
        /\ plugin'.applied = plugin.applied
    BY <1>24 DEF DspGate, Types, HelperTypes, Plugin
  <2> QED BY <2>1, <2>2, <2>3 DEF CountInv
<1>25. ASSUME NEW ok \in BOOLEAN, DspReads(ok) PROVE CountInv'
  BY <1>25 DEF DspReads, obsVars, CountInv, InVendorCall, InFlight, Types, ObsTypes,
      HelperTypes, DspState, Plugin, Flag
<1>26. ASSUME DspApplies PROVE CountInv'
  BY <1>26 DEF DspApplies, obsVars, CountInv, InVendorCall, InFlight, Types, ObsTypes,
      HelperTypes, DspState, Plugin, Flag
<1>27. ASSUME DspLeaves PROVE CountInv'
  BY <1>27 DEF DspLeaves, obsVars, CountInv, InVendorCall, InFlight, Types, ObsTypes,
      HelperTypes, DspState, Plugin, Flag
<1>28. ASSUME DspOutputs PROVE CountInv'
  BY <1>28 DEF DspOutputs, obsVars, CountInv, InVendorCall, InFlight, Types, ObsTypes,
      HelperTypes, DspState
<1>29. ASSUME DspResponds PROVE CountInv'
  BY <1>29 DEF DspResponds, NewDsp, obsVars, CountInv, InVendorCall, InFlight, Types, ObsTypes,
      HelperTypes, DspState
<1>30. ASSUME Edit PROVE CountInv'
  <2>1. audio_readers' = audio_readers /\ audio' = audio /\ destroyer' = destroyer /\ dsp' = dsp
    BY <1>30 DEF Edit, obsVars
  <2>2. plugin'.calls = plugin.calls /\ plugin'.applied = plugin.applied
    BY <1>30 DEF Edit, Types, HelperTypes, Plugin
  <2>3. CASE Len(plugin.ring) < EditCapacity
    <3>1. plugin'.submitted = plugin.submitted + 1 /\ plugin'.ring = Append(plugin.ring, plugin.controller + 1)
      BY <1>30, <2>3 DEF Edit, Types, HelperTypes, Plugin
    <3>2. Len(plugin'.ring) = Len(plugin.ring) + 1
      BY <3>1, Counted, RingTyped, AppendLen
    <3>3. Len(plugin'.ring) <= EditCapacity
      BY <2>3, <3>2, Counted
    <3>4. plugin'.submitted = plugin'.applied + InFlight' + Len(plugin'.ring)
      <4>1. InFlight' = InFlight
        BY <2>1 DEF InFlight
      <4>2. plugin.submitted = plugin.applied + InFlight + Len(plugin.ring)
        BY DEF CountInv
      <4>3. /\ plugin.submitted \in Nat /\ plugin.applied \in Nat
            /\ Len(plugin.ring) \in Nat /\ InFlight \in Nat
        BY Counted
      <4>4. plugin.submitted + 1 = plugin.applied + InFlight + (Len(plugin.ring) + 1)
        BY <4>2, <4>3
      <4> QED BY <2>2, <3>1, <3>2, <4>1, <4>4, Zenon
    <3> QED BY <2>1, <2>2, <3>3, <3>4 DEF CountInv, InVendorCall
  <2>4. CASE ~(Len(plugin.ring) < EditCapacity)
    <3>1. plugin'.submitted = plugin.submitted /\ plugin'.ring = plugin.ring
      BY <1>30, <2>4 DEF Edit, Types, HelperTypes, Plugin
    <3> QED BY <2>1, <2>2, <3>1 DEF CountInv, InVendorCall, InFlight
  <2> QED BY <2>3, <2>4
<1>31. ASSUME Resync PROVE CountInv'
  <2>1. audio_readers' = audio_readers /\ audio' = audio /\ destroyer' = destroyer /\ dsp' = dsp
    BY <1>31 DEF Resync, obsVars
  <2>2. /\ plugin'.calls = plugin.calls /\ plugin'.applied = plugin.applied
        /\ plugin'.submitted = plugin.submitted + 1
        /\ plugin'.ring = Append(plugin.ring, plugin.controller) /\ Len(plugin.ring) < EditCapacity
    BY <1>31 DEF Resync, Types, HelperTypes, Plugin
  <2>3. Len(plugin'.ring) = Len(plugin.ring) + 1
    BY <2>2, Counted, RingTyped, AppendLen
  <2>4. Len(plugin'.ring) <= EditCapacity
    BY <2>2, <2>3, Counted
  <2>5. plugin'.submitted = plugin'.applied + InFlight' + Len(plugin'.ring)
    <3>1. InFlight' = InFlight
      BY <2>1 DEF InFlight
    <3>2. plugin.submitted = plugin.applied + InFlight + Len(plugin.ring)
      BY DEF CountInv
    <3>3. /\ plugin.submitted \in Nat /\ plugin.applied \in Nat
          /\ Len(plugin.ring) \in Nat /\ InFlight \in Nat
      BY Counted
    <3>4. plugin.submitted + 1 = plugin.applied + InFlight + (Len(plugin.ring) + 1)
      BY <3>2, <3>3
    <3> QED BY <2>2, <2>3, <3>1, <3>4, Zenon
  <2> QED BY <2>1, <2>2, <2>4, <2>5 DEF CountInv, InVendorCall
<1>32. ASSUME SyncCompares PROVE CountInv'
  BY <1>32 DEF SyncCompares, obsVars, CountInv, InVendorCall, InFlight, Types, ObsTypes,
      HelperTypes, Plugin, Flag
<1>33. ASSUME CaptureBecomesVisible PROVE CountInv'
  BY <1>33 DEF CaptureBecomesVisible, obsVars, CountInv, InVendorCall, InFlight, Types,
      ObsTypes, HelperTypes, Plugin, Flag
<1>34. ASSUME DrainTimesOut PROVE CountInv'
  BY <1>34 DEF DrainTimesOut, NoCapture, Captured, obsVars, CountInv, InVendorCall, InFlight,
      Types, ObsTypes, HelperTypes, Plugin, Flag
<1>35. ASSUME NEW ok \in BOOLEAN, Capture(ok) PROVE CountInv'
  BY <1>35 DEF Capture, NoCapture, Captured, obsVars, CountInv, InVendorCall, InFlight, Types,
      ObsTypes, HelperTypes, Plugin, Flag
<1>36. ASSUME Launch \/ GateBecomesVisible \/ SaveBegins \/ SaveRequests \/ SaveRefused \/
    SaveAnswered \/ SaveGivesUp \/ TakeSave \/ SyncLooks \/ SyncTimesOut \/ CaptureDrained \/
    AnswerSave \/ WorkerShutdown PROVE CountInv'
  BY <1>36 DEF Launch, NoRegion, GateBecomesVisible, helperVars, SaveBegins, FilterExists,
      SaveRequests, Running, SaveRefused, SaveAnswered, SaveGivesUp, TakeSave, obsVars,
      SyncLooks, Captured, SyncTimesOut, CaptureDrained, AnswerSave, WorkerShutdown, CountInv,
      InVendorCall, InFlight
<1>37. ASSUME UNCHANGED vars PROVE CountInv'
  BY <1>37 DEF vars, CountInv, InVendorCall, InFlight
<1> QED BY <1>1, <1>2, <1>3, <1>4, <1>5, <1>6, <1>7, <1>8, <1>9, <1>10, <1>11, <1>12, <1>13,
    <1>14, <1>15, <1>16, <1>17, <1>18, <1>19, <1>20, <1>21, <1>22, <1>23, <1>24, <1>25, <1>26,
    <1>27, <1>28, <1>29, <1>30, <1>31, <1>32, <1>33, <1>34, <1>35, <1>36, <1>37 DEF Next,
    AudioStep, DestroyStep, SaveStep, DspStep, WorkerStep

(* The gate of the filter: a callback is inside a drained bridge only if it
   read the flag before the store that raises it had left the store buffer. *)
LEMMA GateStep ==
  ASSUME Types, CountInv, GateInv, [Next]_vars
  PROVE  GateInv'
<1>1. ASSUME Launch PROVE GateInv'
  BY <1>1 DEF Launch, NoRegion, GateInv, AudioInside, Types, ObsTypes, HelperTypes
<1>2. ASSUME LaunchFails PROVE GateInv'
  BY <1>2 DEF LaunchFails, helperVars, GateInv, AudioInside, Types, ObsTypes, HelperTypes,
      DestroyerState
<1>3. ASSUME Started PROVE GateInv'
  BY <1>3 DEF Started, helperVars, GateInv, AudioInside, Types, ObsTypes, HelperTypes,
      DestroyerState
<1>4. ASSUME StartFails PROVE GateInv'
  BY <1>4 DEF StartFails, ProcessEnds, NewDsp, NewWorker, NewPlugin, NoRegion, GateInv,
      AudioInside, Types, ObsTypes, HelperTypes, DestroyerState
<1>5. ASSUME AudioEnters PROVE GateInv'
  BY <1>5 DEF AudioEnters, FilterExists, helperVars, GateInv, AudioInside, Types, ObsTypes,
      HelperTypes, AudioState
<1>6. ASSUME AudioGate PROVE GateInv'
  BY <1>6 DEF AudioGate, helperVars, GateInv, AudioInside, Types, ObsTypes, HelperTypes,
      AudioState
<1>7. ASSUME AudioDry PROVE GateInv'
  BY <1>7 DEF AudioDry, Running, Outside, helperVars, GateInv, AudioInside, Types, ObsTypes,
      HelperTypes, AudioState
<1>8. ASSUME AudioWrites PROVE GateInv'
  BY <1>8 DEF AudioWrites, Running, NextRequest, Torn, helperVars, GateInv, AudioInside, Types,
      ObsTypes, HelperTypes, AudioState
<1>9. ASSUME AudioRequests PROVE GateInv'
  BY <1>9 DEF AudioRequests, helperVars, GateInv, AudioInside, Types, ObsTypes, HelperTypes,
      AudioState
<1>10. ASSUME AudioDelivers PROVE GateInv'
  BY <1>10 DEF AudioDelivers, Outside, helperVars, GateInv, AudioInside, Types, ObsTypes,
      HelperTypes, AudioState
<1>11. ASSUME AudioMisses PROVE GateInv'
  BY <1>11 DEF AudioMisses, Outside, helperVars, GateInv, AudioInside, Types, ObsTypes,
      HelperTypes, AudioState
<1>12. ASSUME AudioFaults PROVE GateInv'
  BY <1>12 DEF AudioFaults, helperVars, GateInv, AudioInside, Types, ObsTypes, HelperTypes,
      AudioState
<1>13. ASSUME DestroyBegins PROVE GateInv'
  BY <1>13 DEF DestroyBegins, helperVars, GateInv, AudioInside, Types, ObsTypes, HelperTypes,
      Flag, DestroyerState
<1>14. ASSUME GateBecomesVisible PROVE GateInv'
  BY <1>14 DEF GateBecomesVisible, helperVars, GateInv, AudioInside, Types, ObsTypes,
      HelperTypes, Flag
<1>15. ASSUME Drained PROVE GateInv'
  <2>1. audio.at = "out"
    BY <1>15 DEF Drained, CountInv
  <2>2. destroyer'.at = "lock" /\ UNCHANGED <<bridge, gate, audio>>
    BY <1>15 DEF Drained, Types, ObsTypes, DestroyerState
  <2> QED BY <1>15, <2>1, <2>2 DEF Drained, GateInv, AudioInside
<1>16. ASSUME DrainRetries PROVE GateInv'
  BY <1>16 DEF DrainRetries, helperVars, GateInv, AudioInside, Types, ObsTypes, HelperTypes,
      DestroyerState
<1>17. ASSUME StopSignals PROVE GateInv'
  BY <1>17 DEF StopSignals, helperVars, GateInv, AudioInside, Types, ObsTypes, HelperTypes,
      Flag, DestroyerState
<1>18. ASSUME StopEnds PROVE GateInv'
  BY <1>18 DEF StopEnds, Unmap, ProcessEnds, NewDsp, NewWorker, NewPlugin, NoRegion, GateInv,
      AudioInside, Types, ObsTypes, HelperTypes, DestroyerState
<1>19. ASSUME ModuleUnload PROVE GateInv'
  BY <1>19 DEF ModuleUnload, Unmap, ProcessEnds, NewDsp, NewWorker, NewPlugin, NoRegion,
      helperVars, GateInv, AudioInside, Types, ObsTypes, HelperTypes, DestroyerState
<1>20. ASSUME NEW ok \in BOOLEAN, Capture(ok) PROVE GateInv'
  BY <1>20 DEF Capture, NoCapture, Captured, obsVars, GateInv, AudioInside, Types, ObsTypes,
      HelperTypes, Stored
<1>21. ASSUME (\E status \in {"ready", "error"} : Boot(status)) \/ HelperDies \/ HelperExits \/
    SaveBegins \/ SaveRequests \/ SaveRefused \/ SaveAnswered \/ SaveGivesUp \/ DspTakes \/
    DspShutdown \/ DspCounts \/ DspGate \/ (\E ok \in BOOLEAN : DspReads(ok)) \/ DspApplies \/
    DspLeaves \/ DspOutputs \/ DspResponds \/ Edit \/ Resync \/ TakeSave \/ SyncLooks \/
    SyncCompares \/ SyncTimesOut \/ CaptureBecomesVisible \/ CaptureDrained \/ DrainTimesOut \/
    AnswerSave \/ WorkerShutdown PROVE GateInv'
  BY <1>21 DEF Boot, ProcessEnds, NewDsp, NewWorker, NewPlugin, obsVars, HelperDies,
      HelperExits, SaveBegins, FilterExists, helperVars, SaveRequests, Running, SaveRefused,
      SaveAnswered, SaveGivesUp, DspTakes, DspShutdown, DspCounts, Refused, DspGate, DspReads,
      DspApplies, DspLeaves, DspOutputs, DspResponds, Edit, Resync, TakeSave, SyncLooks,
      Captured, SyncCompares, SyncTimesOut, CaptureBecomesVisible, CaptureDrained,
      DrainTimesOut, NoCapture, AnswerSave, WorkerShutdown, GateInv, AudioInside
<1>22. ASSUME UNCHANGED vars PROVE GateInv'
  BY <1>22 DEF vars, GateInv, AudioInside
<1> QED BY <1>1, <1>2, <1>3, <1>4, <1>5, <1>6, <1>7, <1>8, <1>9, <1>10, <1>11, <1>12, <1>13,
    <1>14, <1>15, <1>16, <1>17, <1>18, <1>19, <1>20, <1>21, <1>22 DEF Next, AudioStep,
    DestroyStep, SaveStep, DspStep, WorkerStep

(* The capture gate of the plug-in, which is built in the same way. *)
LEMMA CaptureStep ==
  ASSUME Types, CountInv, CaptureInv, [Next]_vars
  PROVE  CaptureInv'
<1>1. ASSUME NEW status \in {"ready", "error"}, Boot(status) PROVE CaptureInv'
  BY <1>1 DEF Boot, ProcessEnds, NewDsp, NewWorker, NewPlugin, obsVars, CaptureInv,
      CaptureGate, Types, ObsTypes, HelperTypes, DspState, WorkerState, Plugin, Flag
<1>2. ASSUME StartFails PROVE CaptureInv'
  BY <1>2 DEF StartFails, ProcessEnds, NewDsp, NewWorker, NewPlugin, NoRegion, CaptureInv,
      CaptureGate, Types, ObsTypes, HelperTypes, DspState, WorkerState, Plugin, Flag
<1>3. ASSUME HelperDies PROVE CaptureInv'
  BY <1>3 DEF HelperDies, ProcessEnds, NewDsp, NewWorker, NewPlugin, obsVars, CaptureInv,
      CaptureGate, Types, ObsTypes, HelperTypes, DspState, WorkerState, Plugin, Flag
<1>4. ASSUME HelperExits PROVE CaptureInv'
  BY <1>4 DEF HelperExits, ProcessEnds, NewDsp, NewWorker, NewPlugin, obsVars, CaptureInv,
      CaptureGate, Types, ObsTypes, HelperTypes, DspState, WorkerState, Plugin, Flag
<1>5. ASSUME StopEnds PROVE CaptureInv'
  BY <1>5 DEF StopEnds, Unmap, ProcessEnds, NewDsp, NewWorker, NewPlugin, NoRegion, CaptureInv,
      CaptureGate, Types, ObsTypes, HelperTypes, DspState, WorkerState, Plugin, Flag
<1>6. ASSUME ModuleUnload PROVE CaptureInv'
  BY <1>6 DEF ModuleUnload, Unmap, ProcessEnds, NewDsp, NewWorker, NewPlugin, NoRegion,
      helperVars, CaptureInv, CaptureGate, Types, ObsTypes, HelperTypes, DspState, WorkerState,
      Plugin, Flag
<1>7. ASSUME DspTakes PROVE CaptureInv'
  BY <1>7 DEF DspTakes, obsVars, CaptureInv, CaptureGate, Types, ObsTypes, HelperTypes,
      DspState
<1>8. ASSUME DspShutdown PROVE CaptureInv'
  BY <1>8 DEF DspShutdown, obsVars, CaptureInv, CaptureGate, Types, ObsTypes, HelperTypes,
      DspState
<1>9. ASSUME DspCounts PROVE CaptureInv'
  <2>1. worker' = worker /\ plugin'.capture = plugin.capture
    BY <1>9 DEF DspCounts, Types, HelperTypes, Plugin
  <2>2. dsp'.at \in {"output", "recheck"}
    BY <1>9 DEF DspCounts, Refused, Types, HelperTypes, DspState
  <2> QED BY <2>1, <2>2 DEF CaptureInv, CaptureGate
<1>10. ASSUME DspGate PROVE CaptureInv'
  <2>1. worker' = worker /\ plugin'.capture = plugin.capture
    BY <1>10 DEF DspGate, Types, HelperTypes, Plugin
  <2>2. dsp'.at = "output" \/ (dsp'.at = "read" /\ dsp'.slipped = plugin.capture.stored)
    BY <1>10 DEF DspGate, Refused, Types, HelperTypes, DspState
  <2> QED BY <2>1, <2>2 DEF CaptureInv, CaptureGate
<1>11. ASSUME NEW ok \in BOOLEAN, DspReads(ok) PROVE CaptureInv'
  BY <1>11 DEF DspReads, obsVars, CaptureInv, CaptureGate, Types, ObsTypes, HelperTypes,
      DspState, Plugin, Flag
<1>12. ASSUME DspApplies PROVE CaptureInv'
  BY <1>12 DEF DspApplies, obsVars, CaptureInv, CaptureGate, Types, ObsTypes, HelperTypes,
      DspState, Plugin, Flag
<1>13. ASSUME DspLeaves PROVE CaptureInv'
  BY <1>13 DEF DspLeaves, obsVars, CaptureInv, CaptureGate, Types, ObsTypes, HelperTypes,
      DspState, Plugin, Flag
<1>14. ASSUME DspOutputs PROVE CaptureInv'
  BY <1>14 DEF DspOutputs, obsVars, CaptureInv, CaptureGate, Types, ObsTypes, HelperTypes,
      DspState
<1>15. ASSUME DspResponds PROVE CaptureInv'
  BY <1>15 DEF DspResponds, NewDsp, obsVars, CaptureInv, CaptureGate, Types, ObsTypes,
      HelperTypes, DspState
<1>16. ASSUME Edit PROVE CaptureInv'
  BY <1>16 DEF Edit, obsVars, CaptureInv, CaptureGate, Types, ObsTypes, HelperTypes, Plugin,
      Flag
<1>17. ASSUME Resync PROVE CaptureInv'
  BY <1>17 DEF Resync, obsVars, CaptureInv, CaptureGate, Types, ObsTypes, HelperTypes, Plugin,
      Flag
<1>18. ASSUME TakeSave PROVE CaptureInv'
  BY <1>18 DEF TakeSave, obsVars, CaptureInv, CaptureGate, Types, ObsTypes, HelperTypes,
      WorkerState
<1>19. ASSUME SyncLooks PROVE CaptureInv'
  BY <1>19 DEF SyncLooks, Captured, obsVars, CaptureInv, CaptureGate, Types, ObsTypes,
      HelperTypes, WorkerState
<1>20. ASSUME SyncCompares PROVE CaptureInv'
  BY <1>20 DEF SyncCompares, obsVars, CaptureInv, CaptureGate, Types, ObsTypes, HelperTypes,
      WorkerState, Plugin, Flag
<1>21. ASSUME SyncTimesOut PROVE CaptureInv'
  BY <1>21 DEF SyncTimesOut, Captured, obsVars, CaptureInv, CaptureGate, Types, ObsTypes,
      HelperTypes, WorkerState
<1>22. ASSUME CaptureBecomesVisible PROVE CaptureInv'
  BY <1>22 DEF CaptureBecomesVisible, obsVars, CaptureInv, CaptureGate, Types, ObsTypes,
      HelperTypes, Plugin, Flag
<1>23. ASSUME CaptureDrained PROVE CaptureInv'
  <2>1. ~InVendorCall /\ dsp' = dsp /\ plugin' = plugin
    BY <1>23 DEF CaptureDrained, CountInv
  <2>2. worker'.at = "capture" /\ worker.at = "drain"
    BY <1>23 DEF CaptureDrained, Types, HelperTypes, WorkerState
  <2> QED BY <2>1, <2>2 DEF CaptureInv, CaptureGate, InVendorCall
<1>24. ASSUME DrainTimesOut PROVE CaptureInv'
  BY <1>24 DEF DrainTimesOut, NoCapture, Captured, obsVars, CaptureInv, CaptureGate, Types,
      ObsTypes, HelperTypes, WorkerState, Plugin, Flag
<1>25. ASSUME NEW ok \in BOOLEAN, Capture(ok) PROVE CaptureInv'
  BY <1>25 DEF Capture, NoCapture, Captured, obsVars, CaptureInv, CaptureGate, Types, ObsTypes,
      HelperTypes, WorkerState, Plugin, Stored, Flag
<1>26. ASSUME AnswerSave PROVE CaptureInv'
  BY <1>26 DEF AnswerSave, obsVars, CaptureInv, CaptureGate, Types, ObsTypes, HelperTypes,
      WorkerState
<1>27. ASSUME WorkerShutdown PROVE CaptureInv'
  BY <1>27 DEF WorkerShutdown, obsVars, CaptureInv, CaptureGate, Types, ObsTypes, HelperTypes,
      WorkerState
<1>28. ASSUME Launch \/ LaunchFails \/ Started \/ AudioEnters \/ AudioGate \/ AudioDry \/
    AudioWrites \/ AudioRequests \/ AudioDelivers \/ AudioMisses \/ AudioFaults \/
    DestroyBegins \/ GateBecomesVisible \/ Drained \/ DrainRetries \/ StopSignals \/ SaveBegins
    \/ SaveRequests \/ SaveRefused \/ SaveAnswered \/ SaveGivesUp PROVE CaptureInv'
  BY <1>28 DEF Launch, NoRegion, LaunchFails, helperVars, Started, AudioEnters, FilterExists,
      AudioGate, AudioDry, Running, Outside, AudioWrites, NextRequest, Torn, AudioRequests,
      AudioDelivers, AudioMisses, AudioFaults, DestroyBegins, GateBecomesVisible, Drained,
      DrainRetries, StopSignals, SaveBegins, SaveRequests, SaveRefused, SaveAnswered,
      SaveGivesUp, CaptureInv, CaptureGate
<1>29. ASSUME UNCHANGED vars PROVE CaptureInv'
  BY <1>29 DEF vars, CaptureInv, CaptureGate
<1> QED BY <1>1, <1>2, <1>3, <1>4, <1>5, <1>6, <1>7, <1>8, <1>9, <1>10, <1>11, <1>12, <1>13,
    <1>14, <1>15, <1>16, <1>17, <1>18, <1>19, <1>20, <1>21, <1>22, <1>23, <1>24, <1>25, <1>26,
    <1>27, <1>28, <1>29 DEF Next, AudioStep, DestroyStep, SaveStep, DspStep, WorkerStep

(* The numbers of the requests tell whose the block is: the helper works on it
   from the wake until the response carries the number that is pending. *)
LEMMA BlockStep ==
  ASSUME Types, EventInv, GateInv, BlockInv, [Next]_vars
  PROVE  BlockInv'
<1>1. ASSUME Launch PROVE BlockInv'
  <2>1. /\ region'.response = 0 /\ pending = 0 /\ events = {} /\ audio.at = "out"
        /\ next_request # 0 /\ ~DspBusy
    BY <1>1 DEF Launch, NoRegion, EventInv, GateInv, BlockInv, Unanswered, Types, ObsTypes
  <2>2. UNCHANGED <<pending, events, audio, next_request, dsp, destroyer>>
    BY <1>1 DEF Launch
  <2> QED BY <2>1, <2>2 DEF BlockInv, Unanswered, DspBusy
<1>2. ASSUME LaunchFails PROVE BlockInv'
  BY <1>2 DEF LaunchFails, helperVars, BlockInv, DspBusy, Unanswered, NextRequest, Types,
      ObsTypes, HelperTypes, DestroyerState
<1>3. ASSUME NEW status \in {"ready", "error"}, Boot(status) PROVE BlockInv'
  BY <1>3 DEF Boot, ProcessEnds, NewDsp, NewWorker, NewPlugin, obsVars, BlockInv, DspBusy,
      Unanswered, NextRequest, Types, ObsTypes, HelperTypes, Region, DspState
<1>4. ASSUME Started PROVE BlockInv'
  <2>1. destroyer.at = "creating" /\ audio.at = "out" /\ pending = 0 /\ region.response = 0 /\ ~DspBusy
    BY <1>4 DEF Started, GateInv, BlockInv, Unanswered
  <2>2. /\ pending' = 0 /\ next_request' = 1 /\ destroyer'.at = "idle"
        /\ UNCHANGED <<audio, region, events, dsp>>
    BY <1>4 DEF Started, helperVars, Types, ObsTypes, DestroyerState
  <2> QED BY <2>1, <2>2 DEF BlockInv, Unanswered, DspBusy
<1>5. ASSUME StartFails PROVE BlockInv'
  BY <1>5 DEF StartFails, ProcessEnds, NewDsp, NewWorker, NewPlugin, NoRegion, BlockInv,
      DspBusy, Unanswered, NextRequest, Types, ObsTypes, HelperTypes, DestroyerState, Region,
      DspState
<1>6. ASSUME HelperDies PROVE BlockInv'
  BY <1>6 DEF HelperDies, ProcessEnds, NewDsp, NewWorker, NewPlugin, obsVars, BlockInv,
      DspBusy, Unanswered, NextRequest, Types, ObsTypes, HelperTypes, DspState
<1>7. ASSUME HelperExits PROVE BlockInv'
  BY <1>7 DEF HelperExits, ProcessEnds, NewDsp, NewWorker, NewPlugin, obsVars, BlockInv,
      DspBusy, Unanswered, NextRequest, Types, ObsTypes, HelperTypes, Region, DspState
<1>8. ASSUME AudioEnters PROVE BlockInv'
  BY <1>8 DEF AudioEnters, FilterExists, helperVars, BlockInv, DspBusy, Unanswered,
      NextRequest, Types, ObsTypes, HelperTypes, AudioState
<1>9. ASSUME AudioGate PROVE BlockInv'
  BY <1>9 DEF AudioGate, helperVars, BlockInv, DspBusy, Unanswered, NextRequest, Types,
      ObsTypes, HelperTypes, AudioState
<1>10. ASSUME AudioDry PROVE BlockInv'
  BY <1>10 DEF AudioDry, Running, Outside, helperVars, BlockInv, DspBusy, Unanswered,
      NextRequest, Types, ObsTypes, HelperTypes, AudioState
<1>11. ASSUME AudioWrites PROVE BlockInv'
  <2>1. ~Unanswered /\ region.response # next_request
    <3>1. CASE pending = 0
      BY <1>11, <3>1 DEF AudioWrites, BlockInv, Unanswered
    <3>2. CASE pending # 0
      BY <1>11, <3>2, NextDiffers DEF AudioWrites, BlockInv, Unanswered, Types, ObsTypes
    <3> QED BY <3>1, <3>2
  <2>2. /\ audio'.at = "writing" /\ audio'.own = next_request
    BY <1>11 DEF AudioWrites, Types, ObsTypes, AudioState
  <2>3. /\ region'.response = region.response /\ region'.request = region.request
        /\ region'.shutdown = region.shutdown
    BY <1>11 DEF AudioWrites, Types, ObsTypes, Region
  <2>4. /\ pending' = 0 /\ next_request' = NextRequest(next_request) /\ next_request # 0
        /\ UNCHANGED <<events, dsp, destroyer>> /\ destroyer.at # "creating"
    BY <1>11 DEF AudioWrites, helperVars, GateInv, Types, ObsTypes
  <2> QED BY <2>1, <2>2, <2>3, <2>4 DEF BlockInv, Unanswered, DspBusy
<1>12. ASSUME AudioRequests PROVE BlockInv'
  <2>1. /\ pending = 0 /\ next_request = NextRequest(audio.own) /\ audio.own # 0
        /\ region.response # audio.own /\ ~DspBusy /\ destroyer.at # "creating"
    BY <1>12 DEF AudioRequests, BlockInv, Unanswered, GateInv
  <2>2. audio'.at = "waiting" /\ audio'.own = audio.own /\ audio'.block = audio.block
    BY <1>12 DEF AudioRequests, Types, ObsTypes, AudioState
  <2>3. /\ region'.response = region.response /\ region'.request = audio.own
        /\ region'.input = audio.block /\ region'.shutdown = region.shutdown
    BY <1>12 DEF AudioRequests, Types, ObsTypes, Region
  <2>4. pending' = audio.own /\ UNCHANGED <<next_request, dsp, destroyer>>
    BY <1>12 DEF AudioRequests, helperVars
  <2> QED BY <2>1, <2>2, <2>3, <2>4 DEF BlockInv, Unanswered, DspBusy
<1>13. ASSUME AudioDelivers PROVE BlockInv'
  <2>1. ~Unanswered /\ region.response # next_request
    <3>1. pending = region.response
      BY <1>13 DEF AudioDelivers, BlockInv
    <3>2. CASE pending = 0
      BY <1>13, <3>1, <3>2 DEF AudioDelivers, BlockInv, Unanswered
    <3>3. CASE pending # 0
      BY <3>1, <3>3, NextDiffers DEF BlockInv, Unanswered, Types, ObsTypes
    <3> QED BY <3>2, <3>3
  <2>2. audio'.at = "out"
    BY <1>13 DEF AudioDelivers, Outside, Types, ObsTypes, AudioState
  <2>3. pending' = 0 /\ UNCHANGED <<next_request, dsp, destroyer, region, events>>
    BY <1>13 DEF AudioDelivers, helperVars
  <2> QED BY <2>1, <2>2, <2>3 DEF BlockInv, Unanswered, DspBusy
<1>14. ASSUME AudioMisses PROVE BlockInv'
  BY <1>14 DEF AudioMisses, Outside, helperVars, BlockInv, DspBusy, Unanswered, NextRequest,
      Types, ObsTypes, HelperTypes, AudioState
<1>15. ASSUME AudioFaults PROVE BlockInv'
  <2>1. audio'.at = "faulted"
    BY <1>15 DEF AudioFaults, Types, ObsTypes, AudioState
  <2>2. UNCHANGED <<pending, next_request, dsp, destroyer, region, events>>
    BY <1>15 DEF AudioFaults, helperVars
  <2> QED BY <2>1, <2>2 DEF BlockInv, Unanswered, DspBusy
<1>16. ASSUME DestroyBegins PROVE BlockInv'
  BY <1>16 DEF DestroyBegins, helperVars, BlockInv, DspBusy, Unanswered, NextRequest, Types,
      ObsTypes, HelperTypes, DestroyerState
<1>17. ASSUME Drained PROVE BlockInv'
  BY <1>17 DEF Drained, helperVars, BlockInv, DspBusy, Unanswered, NextRequest, Types,
      ObsTypes, HelperTypes, DestroyerState
<1>18. ASSUME DrainRetries PROVE BlockInv'
  BY <1>18 DEF DrainRetries, helperVars, BlockInv, DspBusy, Unanswered, NextRequest, Types,
      ObsTypes, HelperTypes, DestroyerState
<1>19. ASSUME StopSignals PROVE BlockInv'
  BY <1>19 DEF StopSignals, helperVars, BlockInv, DspBusy, Unanswered, NextRequest, Types,
      ObsTypes, HelperTypes, DestroyerState, Region
<1>20. ASSUME StopEnds PROVE BlockInv'
  BY <1>20 DEF StopEnds, Unmap, ProcessEnds, NewDsp, NewWorker, NewPlugin, NoRegion, BlockInv,
      DspBusy, Unanswered, NextRequest, Types, ObsTypes, HelperTypes, DestroyerState, Region,
      DspState
<1>21. ASSUME ModuleUnload PROVE BlockInv'
  BY <1>21 DEF ModuleUnload, Unmap, ProcessEnds, NewDsp, NewWorker, NewPlugin, NoRegion,
      helperVars, BlockInv, DspBusy, Unanswered, NextRequest, Types, ObsTypes, HelperTypes,
      DestroyerState, Region, DspState
<1>22. ASSUME SaveRequests PROVE BlockInv'
  BY <1>22 DEF SaveRequests, Running, helperVars, BlockInv, DspBusy, Unanswered, NextRequest,
      Types, ObsTypes, HelperTypes
<1>23. ASSUME SaveAnswered PROVE BlockInv'
  BY <1>23 DEF SaveAnswered, helperVars, BlockInv, DspBusy, Unanswered, NextRequest, Types,
      ObsTypes, HelperTypes
<1>24. ASSUME DspTakes PROVE BlockInv'
  BY <1>24 DEF DspTakes, obsVars, BlockInv, DspBusy, Unanswered, NextRequest, Types, ObsTypes,
      HelperTypes, DspState
<1>25. ASSUME DspShutdown PROVE BlockInv'
  BY <1>25 DEF DspShutdown, obsVars, BlockInv, DspBusy, Unanswered, NextRequest, Types,
      ObsTypes, HelperTypes, DspState
<1>26. ASSUME DspCounts PROVE BlockInv'
  BY <1>26 DEF DspCounts, Refused, obsVars, BlockInv, DspBusy, Unanswered, NextRequest, Types,
      ObsTypes, HelperTypes, DspState
<1>27. ASSUME DspGate PROVE BlockInv'
  BY <1>27 DEF DspGate, Refused, obsVars, BlockInv, DspBusy, Unanswered, NextRequest, Types,
      ObsTypes, HelperTypes, DspState
<1>28. ASSUME NEW ok \in BOOLEAN, DspReads(ok) PROVE BlockInv'
  BY <1>28 DEF DspReads, obsVars, BlockInv, DspBusy, Unanswered, NextRequest, Types, ObsTypes,
      HelperTypes, DspState
<1>29. ASSUME DspApplies PROVE BlockInv'
  BY <1>29 DEF DspApplies, obsVars, BlockInv, DspBusy, Unanswered, NextRequest, Types,
      ObsTypes, HelperTypes, DspState
<1>30. ASSUME DspLeaves PROVE BlockInv'
  BY <1>30 DEF DspLeaves, obsVars, BlockInv, DspBusy, Unanswered, NextRequest, Types, ObsTypes,
      HelperTypes, DspState
<1>31. ASSUME DspOutputs PROVE BlockInv'
  BY <1>31 DEF DspOutputs, obsVars, BlockInv, DspBusy, Unanswered, NextRequest, Types,
      ObsTypes, HelperTypes, Region, DspState
<1>32. ASSUME DspResponds PROVE BlockInv'
  <2>1. Unanswered /\ dsp.request = pending /\ ("request" \in events => region.shutdown)
    BY <1>32 DEF DspResponds, BlockInv, DspBusy
  <2>2. /\ region'.response = pending /\ region'.request = region.request
        /\ region'.input = region.input /\ region'.shutdown = region.shutdown
    BY <1>32, <2>1 DEF DspResponds, Types, ObsTypes, Region
  <2>3. dsp'.at = "wait" /\ UNCHANGED <<pending, next_request, destroyer, audio, events, bridge>>
    BY <1>32 DEF DspResponds, obsVars, NewDsp
  <2> QED BY <2>1, <2>2, <2>3 DEF BlockInv, Unanswered, DspBusy
<1>33. ASSUME TakeSave PROVE BlockInv'
  BY <1>33 DEF TakeSave, obsVars, BlockInv, DspBusy, Unanswered, NextRequest, Types, ObsTypes,
      HelperTypes
<1>34. ASSUME AnswerSave PROVE BlockInv'
  BY <1>34 DEF AnswerSave, obsVars, BlockInv, DspBusy, Unanswered, NextRequest, Types,
      ObsTypes, HelperTypes, Region
<1>35. ASSUME GateBecomesVisible \/ SaveBegins \/ SaveRefused \/ SaveGivesUp \/ Edit \/ Resync
    \/ SyncLooks \/ SyncCompares \/ SyncTimesOut \/ CaptureBecomesVisible \/ CaptureDrained \/
    DrainTimesOut \/ (\E ok \in BOOLEAN : Capture(ok)) \/ WorkerShutdown PROVE BlockInv'
  BY <1>35 DEF GateBecomesVisible, helperVars, SaveBegins, FilterExists, SaveRefused, Running,
      SaveGivesUp, Edit, obsVars, Resync, SyncLooks, Captured, SyncCompares, SyncTimesOut,
      CaptureBecomesVisible, CaptureDrained, DrainTimesOut, NoCapture, Capture, WorkerShutdown,
      BlockInv, DspBusy, Unanswered, NextRequest
<1>36. ASSUME UNCHANGED vars PROVE BlockInv'
  BY <1>36 DEF vars, BlockInv, DspBusy, Unanswered, NextRequest
<1> QED BY <1>1, <1>2, <1>3, <1>4, <1>5, <1>6, <1>7, <1>8, <1>9, <1>10, <1>11, <1>12, <1>13,
    <1>14, <1>15, <1>16, <1>17, <1>18, <1>19, <1>20, <1>21, <1>22, <1>23, <1>24, <1>25, <1>26,
    <1>27, <1>28, <1>29, <1>30, <1>31, <1>32, <1>33, <1>34, <1>35, <1>36 DEF Next, AudioStep,
    DestroyStep, SaveStep, DspStep, WorkerStep

(* The output that goes with an answer was made from the block it answers. *)
LEMMA OutputStep ==
  ASSUME Types, GateInv, BlockInv, OutputInv, [Next]_vars
  PROVE  OutputInv'
<1>1. ASSUME Launch PROVE OutputInv'
  <2>1. ~DspBusy /\ audio.at = "out"
    BY <1>1 DEF Launch, GateInv, BlockInv, Unanswered
  <2> QED BY <1>1, <2>1 DEF Launch, OutputInv, DspBusy
<1>2. ASSUME NEW status \in {"ready", "error"}, Boot(status) PROVE OutputInv'
  BY <1>2 DEF Boot, ProcessEnds, NewDsp, NewWorker, NewPlugin, obsVars, OutputInv, Types,
      ObsTypes, HelperTypes, Region, DspState
<1>3. ASSUME Started PROVE OutputInv'
  <2>1. audio.at = "out" /\ UNCHANGED <<audio, region, dsp, heard>>
    BY <1>3 DEF Started, GateInv, helperVars
  <2> QED BY <2>1 DEF OutputInv
<1>4. ASSUME StartFails PROVE OutputInv'
  BY <1>4 DEF StartFails, ProcessEnds, NewDsp, NewWorker, NewPlugin, NoRegion, OutputInv,
      Types, ObsTypes, HelperTypes, Region, DspState
<1>5. ASSUME HelperDies PROVE OutputInv'
  BY <1>5 DEF HelperDies, ProcessEnds, NewDsp, NewWorker, NewPlugin, obsVars, OutputInv, Types,
      ObsTypes, HelperTypes, DspState
<1>6. ASSUME HelperExits PROVE OutputInv'
  BY <1>6 DEF HelperExits, ProcessEnds, NewDsp, NewWorker, NewPlugin, obsVars, OutputInv,
      Types, ObsTypes, HelperTypes, Region, DspState
<1>7. ASSUME AudioEnters PROVE OutputInv'
  BY <1>7 DEF AudioEnters, FilterExists, helperVars, OutputInv, Types, ObsTypes, HelperTypes,
      AudioState
<1>8. ASSUME AudioGate PROVE OutputInv'
  BY <1>8 DEF AudioGate, helperVars, OutputInv, Types, ObsTypes, HelperTypes, AudioState
<1>9. ASSUME AudioDry PROVE OutputInv'
  BY <1>9 DEF AudioDry, Running, Outside, helperVars, OutputInv, Types, ObsTypes, HelperTypes,
      AudioState
<1>10. ASSUME AudioWrites PROVE OutputInv'
  <2>1. ~DspBusy
    BY <1>10 DEF AudioWrites, BlockInv, Unanswered
  <2>2. audio'.at = "writing" /\ heard' = heard /\ dsp' = dsp
    BY <1>10 DEF AudioWrites, helperVars, Types, ObsTypes, AudioState
  <2> QED BY <2>1, <2>2 DEF OutputInv, DspBusy
<1>11. ASSUME AudioRequests PROVE OutputInv'
  <2>1. ~DspBusy /\ region.response # audio.own
    BY <1>11 DEF AudioRequests, BlockInv, Unanswered
  <2>2. audio'.own = audio.own /\ heard' = heard /\ dsp' = dsp
    BY <1>11 DEF AudioRequests, helperVars, Types, ObsTypes, AudioState
  <2>3. region'.response = region.response
    BY <1>11 DEF AudioRequests, Types, ObsTypes, Region
  <2> QED BY <2>1, <2>2, <2>3 DEF OutputInv, DspBusy
<1>12. ASSUME AudioDelivers PROVE OutputInv'
  BY <1>12 DEF AudioDelivers, Outside, helperVars, OutputInv, Types, ObsTypes, HelperTypes,
      AudioState
<1>13. ASSUME AudioMisses PROVE OutputInv'
  BY <1>13 DEF AudioMisses, Outside, helperVars, OutputInv, Types, ObsTypes, HelperTypes,
      AudioState
<1>14. ASSUME AudioFaults PROVE OutputInv'
  BY <1>14 DEF AudioFaults, helperVars, OutputInv, Types, ObsTypes, HelperTypes, AudioState
<1>15. ASSUME StopSignals PROVE OutputInv'
  BY <1>15 DEF StopSignals, helperVars, OutputInv, Types, ObsTypes, HelperTypes, Region
<1>16. ASSUME StopEnds PROVE OutputInv'
  BY <1>16 DEF StopEnds, Unmap, ProcessEnds, NewDsp, NewWorker, NewPlugin, NoRegion, OutputInv,
      Types, ObsTypes, HelperTypes, Region, DspState
<1>17. ASSUME ModuleUnload PROVE OutputInv'
  BY <1>17 DEF ModuleUnload, Unmap, ProcessEnds, NewDsp, NewWorker, NewPlugin, NoRegion,
      helperVars, OutputInv, Types, ObsTypes, HelperTypes, Region, DspState
<1>18. ASSUME DspTakes PROVE OutputInv'
  BY <1>18 DEF DspTakes, obsVars, OutputInv, Types, ObsTypes, HelperTypes, DspState
<1>19. ASSUME DspShutdown PROVE OutputInv'
  BY <1>19 DEF DspShutdown, obsVars, OutputInv, Types, ObsTypes, HelperTypes, DspState
<1>20. ASSUME DspCounts PROVE OutputInv'
  BY <1>20 DEF DspCounts, Refused, obsVars, OutputInv, Types, ObsTypes, HelperTypes, DspState
<1>21. ASSUME DspGate PROVE OutputInv'
  BY <1>21 DEF DspGate, Refused, obsVars, OutputInv, Types, ObsTypes, HelperTypes, DspState
<1>22. ASSUME NEW ok \in BOOLEAN, DspReads(ok) PROVE OutputInv'
  BY <1>22 DEF DspReads, obsVars, OutputInv, Types, ObsTypes, HelperTypes, DspState
<1>23. ASSUME DspApplies PROVE OutputInv'
  BY <1>23 DEF DspApplies, obsVars, OutputInv, Types, ObsTypes, HelperTypes, DspState
<1>24. ASSUME DspLeaves PROVE OutputInv'
  BY <1>24 DEF DspLeaves, obsVars, OutputInv, Types, ObsTypes, HelperTypes, DspState
<1>25. ASSUME DspOutputs PROVE OutputInv'
  <2>1. audio.at = "waiting" /\ bridge = "live" => region.response # audio.own
    BY <1>25 DEF DspOutputs, BlockInv, DspBusy, Unanswered
  <2>2. region'.response = region.response /\ region'.input = region.input
        /\ region'.output = (IF dsp.ok THEN dsp.value ELSE region.input)
    BY <1>25 DEF DspOutputs, Types, ObsTypes, Region
  <2>3. dsp'.at = "respond" /\ UNCHANGED <<audio, bridge, heard>>
    BY <1>25 DEF DspOutputs, obsVars, Types, HelperTypes, DspState
  <2>4. dsp.ok => dsp.value = region.input
    BY <1>25 DEF DspOutputs, OutputInv
  <2> QED BY <2>1, <2>2, <2>3, <2>4 DEF OutputInv
<1>26. ASSUME DspResponds PROVE OutputInv'
  <2>1. /\ audio.at = "waiting" /\ bridge = "live" => region.input = audio.block
        /\ region.result = "ok" => region.output = region.input
    BY <1>26 DEF DspResponds, BlockInv, OutputInv
  <2>2. region'.input = region.input /\ region'.output = region.output /\ region'.result = region.result
    BY <1>26 DEF DspResponds, Types, ObsTypes, Region
  <2>3. dsp'.at = "wait" /\ UNCHANGED <<audio, bridge, heard>>
    BY <1>26 DEF DspResponds, obsVars, NewDsp
  <2> QED BY <2>1, <2>2, <2>3 DEF OutputInv
<1>27. ASSUME AnswerSave PROVE OutputInv'
  BY <1>27 DEF AnswerSave, obsVars, OutputInv, Types, ObsTypes, HelperTypes, Region
<1>28. ASSUME LaunchFails \/ DestroyBegins \/ GateBecomesVisible \/ Drained \/ DrainRetries \/
    SaveBegins \/ SaveRequests \/ SaveRefused \/ SaveAnswered \/ SaveGivesUp \/ Edit \/ Resync
    \/ TakeSave \/ SyncLooks \/ SyncCompares \/ SyncTimesOut \/ CaptureBecomesVisible \/
    CaptureDrained \/ DrainTimesOut \/ (\E ok \in BOOLEAN : Capture(ok)) \/ WorkerShutdown
    PROVE OutputInv'
  BY <1>28 DEF LaunchFails, helperVars, DestroyBegins, GateBecomesVisible, Drained,
      DrainRetries, SaveBegins, FilterExists, SaveRequests, Running, SaveRefused, SaveAnswered,
      SaveGivesUp, Edit, obsVars, Resync, TakeSave, SyncLooks, Captured, SyncCompares,
      SyncTimesOut, CaptureBecomesVisible, CaptureDrained, DrainTimesOut, NoCapture, Capture,
      WorkerShutdown, OutputInv
<1>29. ASSUME UNCHANGED vars PROVE OutputInv'
  BY <1>29 DEF vars, OutputInv
<1> QED BY <1>1, <1>2, <1>3, <1>4, <1>5, <1>6, <1>7, <1>8, <1>9, <1>10, <1>11, <1>12, <1>13,
    <1>14, <1>15, <1>16, <1>17, <1>18, <1>19, <1>20, <1>21, <1>22, <1>23, <1>24, <1>25, <1>26,
    <1>27, <1>28, <1>29 DEF Next, AudioStep, DestroyStep, SaveStep, DspStep, WorkerStep

(* The last edit is in the ring or with the processor unless a delivery failed,
   and the comparison of the two counters finds the ring and the call empty. *)
LEMMA EditStep ==
  ASSUME Types, CountInv, CaptureInv, EditInv, [Next]_vars
  PROVE  EditInv'
<1>1. ASSUME NEW status \in {"ready", "error"}, Boot(status) PROVE EditInv'
  BY <1>1 DEF Boot, ProcessEnds, NewDsp, NewWorker, NewPlugin, obsVars, EditInv, LosingEdit,
      InFlight, Types, ObsTypes, HelperTypes, DspState, WorkerState, Plugin, Flag
<1>2. ASSUME StartFails PROVE EditInv'
  BY <1>2 DEF StartFails, ProcessEnds, NewDsp, NewWorker, NewPlugin, NoRegion, EditInv,
      LosingEdit, InFlight, Types, ObsTypes, HelperTypes, DspState, WorkerState, Plugin, Flag
<1>3. ASSUME HelperDies PROVE EditInv'
  BY <1>3 DEF HelperDies, ProcessEnds, NewDsp, NewWorker, NewPlugin, obsVars, EditInv,
      LosingEdit, InFlight, Types, ObsTypes, HelperTypes, DspState, WorkerState, Plugin, Flag
<1>4. ASSUME HelperExits PROVE EditInv'
  BY <1>4 DEF HelperExits, ProcessEnds, NewDsp, NewWorker, NewPlugin, obsVars, EditInv,
      LosingEdit, InFlight, Types, ObsTypes, HelperTypes, DspState, WorkerState, Plugin, Flag
<1>5. ASSUME StopEnds PROVE EditInv'
  BY <1>5 DEF StopEnds, Unmap, ProcessEnds, NewDsp, NewWorker, NewPlugin, NoRegion, EditInv,
      LosingEdit, InFlight, Types, ObsTypes, HelperTypes, DspState, WorkerState, Plugin, Flag
<1>6. ASSUME ModuleUnload PROVE EditInv'
  BY <1>6 DEF ModuleUnload, Unmap, ProcessEnds, NewDsp, NewWorker, NewPlugin, NoRegion,
      helperVars, EditInv, LosingEdit, InFlight, Types, ObsTypes, HelperTypes, DspState,
      WorkerState, Plugin, Flag
<1>7. ASSUME DspTakes PROVE EditInv'
  BY <1>7 DEF DspTakes, obsVars, EditInv, LosingEdit, InFlight, Types, ObsTypes, HelperTypes,
      DspState
<1>8. ASSUME DspShutdown PROVE EditInv'
  BY <1>8 DEF DspShutdown, obsVars, EditInv, LosingEdit, InFlight, Types, ObsTypes,
      HelperTypes, DspState
<1>9. ASSUME DspCounts PROVE EditInv'
  <2>1. /\ plugin'.controller = plugin.controller /\ plugin'.processor = plugin.processor
        /\ plugin'.ring = plugin.ring /\ plugin'.resync = plugin.resync /\ plugin'.failed = plugin.failed
    BY <1>9 DEF DspCounts, Types, HelperTypes, Plugin
  <2>2. dsp.at = "count" /\ dsp'.at \in {"output", "recheck"} /\ worker' = worker
    BY <1>9 DEF DspCounts, Refused, Types, HelperTypes, DspState
  <2> QED BY <2>1, <2>2 DEF EditInv, LosingEdit, InFlight
<1>10. ASSUME DspGate PROVE EditInv'
  BY <1>10 DEF DspGate, Refused, obsVars, EditInv, LosingEdit, InFlight, Types, ObsTypes,
      HelperTypes, DspState, Plugin, Flag
<1>11. ASSUME NEW ok \in BOOLEAN, DspReads(ok) PROVE EditInv'
  BY <1>11 DEF DspReads, obsVars, EditInv, LosingEdit, InFlight, Types, ObsTypes, HelperTypes,
      DspState, Plugin, Flag
<1>12. ASSUME DspApplies PROVE EditInv'
  BY <1>12 DEF DspApplies, obsVars, EditInv, LosingEdit, InFlight, Types, ObsTypes,
      HelperTypes, DspState, Plugin, Flag
<1>13. ASSUME DspLeaves PROVE EditInv'
  BY <1>13 DEF DspLeaves, obsVars, EditInv, LosingEdit, InFlight, Types, ObsTypes, HelperTypes,
      DspState, Plugin, Flag
<1>14. ASSUME DspOutputs PROVE EditInv'
  BY <1>14 DEF DspOutputs, obsVars, EditInv, LosingEdit, InFlight, Types, ObsTypes,
      HelperTypes, DspState
<1>15. ASSUME DspResponds PROVE EditInv'
  BY <1>15 DEF DspResponds, NewDsp, obsVars, EditInv, LosingEdit, InFlight, Types, ObsTypes,
      HelperTypes, DspState
<1>16. ASSUME Edit PROVE EditInv'
  <2>1. worker'.at \notin {"drain", "capture"}
    BY <1>16 DEF Edit
  <2>2. CASE Len(plugin.ring) < EditCapacity
    <3>1. /\ plugin'.ring = Append(plugin.ring, plugin.controller + 1)
          /\ plugin'.controller = plugin.controller + 1
      BY <1>16, <2>2 DEF Edit, Types, HelperTypes, Plugin
    <3>2. plugin'.ring # <<>> /\ plugin'.ring[Len(plugin'.ring)] = plugin'.controller
      <4>1. plugin.controller + 1 \in Nat
        BY Counted
      <4> QED BY <3>1, <4>1, RingTyped, AppendLen
    <3> QED BY <2>1, <3>2 DEF EditInv
  <2>3. CASE ~(Len(plugin.ring) < EditCapacity)
    <3>1. plugin'.resync = TRUE
      BY <1>16, <2>3 DEF Edit, Types, HelperTypes, Plugin
    <3> QED BY <2>1, <3>1 DEF EditInv
  <2> QED BY <2>2, <2>3
<1>17. ASSUME Resync PROVE EditInv'
  <2>1. worker'.at \notin {"drain", "capture"}
    BY <1>17 DEF Resync
  <2>2. plugin'.ring = Append(plugin.ring, plugin.controller) /\ plugin'.controller = plugin.controller
    BY <1>17 DEF Resync, Types, HelperTypes, Plugin
  <2>3. plugin'.ring # <<>> /\ plugin'.ring[Len(plugin'.ring)] = plugin'.controller
    <3>1. plugin.controller \in Nat
      BY Counted
    <3> QED BY <2>2, <3>1, RingTyped, AppendLen
  <2> QED BY <2>1, <2>3 DEF EditInv
<1>18. ASSUME TakeSave PROVE EditInv'
  BY <1>18 DEF TakeSave, obsVars, EditInv, LosingEdit, InFlight, Types, ObsTypes, HelperTypes,
      WorkerState
<1>19. ASSUME SyncLooks PROVE EditInv'
  BY <1>19 DEF SyncLooks, Captured, obsVars, EditInv, LosingEdit, InFlight, Types, ObsTypes,
      HelperTypes, WorkerState
<1>20. ASSUME SyncCompares PROVE EditInv'
  <2>1. /\ plugin'.controller = plugin.controller /\ plugin'.processor = plugin.processor
        /\ plugin'.ring = plugin.ring /\ plugin'.resync = plugin.resync /\ plugin'.failed = plugin.failed
    BY <1>20 DEF SyncCompares, Types, HelperTypes, Plugin
  <2>2. dsp' = dsp
    BY <1>20 DEF SyncCompares
  <2>3. CASE ~plugin.resync /\ plugin.applied >= plugin.submitted
    <3>1. plugin.ring = <<>> /\ InFlight = 0
      <4>1. /\ plugin.submitted \in Nat /\ plugin.applied \in Nat
            /\ Len(plugin.ring) \in Nat /\ InFlight \in Nat
        BY Counted
      <4>2. plugin.submitted = plugin.applied + InFlight + Len(plugin.ring)
        BY DEF CountInv
      <4>3. Len(plugin.ring) = 0 /\ InFlight = 0
        BY <2>3, <4>1, <4>2
      <4> QED BY <4>3, RingTyped
    <3>2. worker'.at = "drain"
      BY <1>20, <2>3 DEF SyncCompares, Types, HelperTypes, WorkerState
    <3> QED BY <2>1, <2>2, <2>3, <3>1, <3>2 DEF EditInv, LosingEdit, InFlight
  <2>4. CASE ~(~plugin.resync /\ plugin.applied >= plugin.submitted)
    <3>1. worker'.at = "sync"
      BY <1>20, <2>4 DEF SyncCompares, Types, HelperTypes, WorkerState
    <3> QED BY <2>1, <2>2, <3>1 DEF EditInv, LosingEdit
  <2> QED BY <2>3, <2>4
<1>21. ASSUME SyncTimesOut PROVE EditInv'
  BY <1>21 DEF SyncTimesOut, Captured, obsVars, EditInv, LosingEdit, InFlight, Types, ObsTypes,
      HelperTypes, WorkerState
<1>22. ASSUME CaptureBecomesVisible PROVE EditInv'
  BY <1>22 DEF CaptureBecomesVisible, obsVars, EditInv, LosingEdit, InFlight, Types, ObsTypes,
      HelperTypes, Plugin, Flag
<1>23. ASSUME CaptureDrained PROVE EditInv'
  <2>1. ~InVendorCall /\ dsp' = dsp /\ plugin' = plugin
    BY <1>23 DEF CaptureDrained, CountInv
  <2>2. worker.at = "drain"
    BY <1>23 DEF CaptureDrained
  <2> QED BY <2>1, <2>2 DEF EditInv, LosingEdit, InVendorCall, InFlight
<1>24. ASSUME DrainTimesOut PROVE EditInv'
  BY <1>24 DEF DrainTimesOut, NoCapture, Captured, obsVars, EditInv, LosingEdit, InFlight,
      Types, ObsTypes, HelperTypes, WorkerState, Plugin, Flag
<1>25. ASSUME NEW ok \in BOOLEAN, Capture(ok) PROVE EditInv'
  BY <1>25 DEF Capture, NoCapture, Captured, obsVars, EditInv, LosingEdit, InFlight, Types,
      ObsTypes, HelperTypes, WorkerState, Plugin, Flag
<1>26. ASSUME AnswerSave PROVE EditInv'
  BY <1>26 DEF AnswerSave, obsVars, EditInv, LosingEdit, InFlight, Types, ObsTypes,
      HelperTypes, WorkerState
<1>27. ASSUME WorkerShutdown PROVE EditInv'
  BY <1>27 DEF WorkerShutdown, obsVars, EditInv, LosingEdit, InFlight, Types, ObsTypes,
      HelperTypes, WorkerState
<1>28. ASSUME Launch \/ LaunchFails \/ Started \/ AudioEnters \/ AudioGate \/ AudioDry \/
    AudioWrites \/ AudioRequests \/ AudioDelivers \/ AudioMisses \/ AudioFaults \/
    DestroyBegins \/ GateBecomesVisible \/ Drained \/ DrainRetries \/ StopSignals \/ SaveBegins
    \/ SaveRequests \/ SaveRefused \/ SaveAnswered \/ SaveGivesUp PROVE EditInv'
  BY <1>28 DEF Launch, NoRegion, LaunchFails, helperVars, Started, AudioEnters, FilterExists,
      AudioGate, AudioDry, Running, Outside, AudioWrites, NextRequest, Torn, AudioRequests,
      AudioDelivers, AudioMisses, AudioFaults, DestroyBegins, GateBecomesVisible, Drained,
      DrainRetries, StopSignals, SaveBegins, SaveRequests, SaveRefused, SaveAnswered,
      SaveGivesUp, EditInv, LosingEdit, InFlight
<1>29. ASSUME UNCHANGED vars PROVE EditInv'
  BY <1>29 DEF vars, EditInv, LosingEdit, InFlight
<1> QED BY <1>1, <1>2, <1>3, <1>4, <1>5, <1>6, <1>7, <1>8, <1>9, <1>10, <1>11, <1>12, <1>13,
    <1>14, <1>15, <1>16, <1>17, <1>18, <1>19, <1>20, <1>21, <1>22, <1>23, <1>24, <1>25, <1>26,
    <1>27, <1>28, <1>29 DEF Next, AudioStep, DestroyStep, SaveStep, DspStep, WorkerStep

(* The session file holds both halves of one moment, and the answer OBS takes
   is to a capture made after OBS asked. *)
LEMMA StoreStep ==
  ASSUME Types, EventInv, CountInv, CaptureInv, EditInv, GateInv, StoreInv, [Next]_vars
  PROVE  StoreInv'
<1>1. ASSUME Launch PROVE StoreInv'
  <2>1. process = "none" /\ saver.at = "idle" /\ stored.controller = 0 /\ plugin.controller \in Nat
    BY <1>1, Counted DEF Launch, EventInv, StoreInv
  <2>2. process' = "running" /\ UNCHANGED <<destroyer, saver, worker, plugin, stored>>
    BY <1>1 DEF Launch
  <2> QED BY <2>1, <2>2 DEF StoreInv
<1>2. ASSUME LaunchFails PROVE StoreInv'
  BY <1>2 DEF LaunchFails, helperVars, StoreInv, Types, ObsTypes, HelperTypes, DestroyerState
<1>3. ASSUME NEW status \in {"ready", "error"}, Boot(status) PROVE StoreInv'
  BY <1>3 DEF Boot, ProcessEnds, NewDsp, NewWorker, NewPlugin, obsVars, StoreInv, Types,
      ObsTypes, HelperTypes, Region, WorkerState, Plugin, Flag
<1>4. ASSUME Started PROVE StoreInv'
  BY <1>4 DEF Started, helperVars, StoreInv, Types, ObsTypes, HelperTypes, DestroyerState
<1>5. ASSUME StartFails PROVE StoreInv'
  BY <1>5 DEF StartFails, ProcessEnds, NewDsp, NewWorker, NewPlugin, NoRegion, StoreInv, Types,
      ObsTypes, HelperTypes, DestroyerState, Region, WorkerState, Plugin, Flag
<1>6. ASSUME HelperDies PROVE StoreInv'
  BY <1>6 DEF HelperDies, ProcessEnds, NewDsp, NewWorker, NewPlugin, obsVars, StoreInv, Types,
      ObsTypes, HelperTypes, WorkerState, Plugin, Flag
<1>7. ASSUME HelperExits PROVE StoreInv'
  BY <1>7 DEF HelperExits, ProcessEnds, NewDsp, NewWorker, NewPlugin, obsVars, StoreInv, Types,
      ObsTypes, HelperTypes, Region, WorkerState, Plugin, Flag
<1>8. ASSUME AudioWrites PROVE StoreInv'
  BY <1>8 DEF AudioWrites, Running, NextRequest, Torn, helperVars, StoreInv, Types, ObsTypes,
      HelperTypes, Region
<1>9. ASSUME AudioRequests PROVE StoreInv'
  BY <1>9 DEF AudioRequests, helperVars, StoreInv, Types, ObsTypes, HelperTypes, Region
<1>10. ASSUME DestroyBegins PROVE StoreInv'
  BY <1>10 DEF DestroyBegins, helperVars, StoreInv, Types, ObsTypes, HelperTypes,
      DestroyerState
<1>11. ASSUME Drained PROVE StoreInv'
  BY <1>11 DEF Drained, helperVars, StoreInv, Types, ObsTypes, HelperTypes, DestroyerState
<1>12. ASSUME DrainRetries PROVE StoreInv'
  BY <1>12 DEF DrainRetries, helperVars, StoreInv, Types, ObsTypes, HelperTypes, DestroyerState
<1>13. ASSUME StopSignals PROVE StoreInv'
  BY <1>13 DEF StopSignals, helperVars, StoreInv, Types, ObsTypes, HelperTypes, DestroyerState,
      Region
<1>14. ASSUME StopEnds PROVE StoreInv'
  BY <1>14 DEF StopEnds, Unmap, ProcessEnds, NewDsp, NewWorker, NewPlugin, NoRegion, StoreInv,
      Types, ObsTypes, HelperTypes, DestroyerState, Region, WorkerState, Plugin, Flag
<1>15. ASSUME ModuleUnload PROVE StoreInv'
  BY <1>15 DEF ModuleUnload, Unmap, ProcessEnds, NewDsp, NewWorker, NewPlugin, NoRegion,
      helperVars, StoreInv, Types, ObsTypes, HelperTypes, DestroyerState, Region, WorkerState,
      Plugin, Flag
<1>16. ASSUME SaveBegins PROVE StoreInv'
  BY <1>16 DEF SaveBegins, FilterExists, helperVars, StoreInv, Types, ObsTypes, HelperTypes,
      SaverState
<1>17. ASSUME SaveRequests PROVE StoreInv'
  <2>1. /\ saver'.at = "wait" /\ saver'.wanted = plugin.controller /\ saver'.told = saver.told
        /\ saver.at = "lock" /\ plugin.controller \in Nat
    BY <1>17, Counted DEF SaveRequests, Types, ObsTypes, SaverState
  <2>2. "saved" \notin events' /\ UNCHANGED <<destroyer, process, worker, plugin, stored>>
    BY <1>17 DEF SaveRequests, helperVars
  <2> QED BY <2>1, <2>2 DEF StoreInv
<1>18. ASSUME SaveRefused PROVE StoreInv'
  BY <1>18 DEF SaveRefused, Running, helperVars, StoreInv, Types, ObsTypes, HelperTypes,
      SaverState
<1>19. ASSUME SaveAnswered PROVE StoreInv'
  BY <1>19 DEF SaveAnswered, helperVars, StoreInv, Types, ObsTypes, HelperTypes, SaverState
<1>20. ASSUME SaveGivesUp PROVE StoreInv'
  BY <1>20 DEF SaveGivesUp, helperVars, StoreInv, Types, ObsTypes, HelperTypes, SaverState
<1>21. ASSUME DspTakes PROVE StoreInv'
  BY <1>21 DEF DspTakes, obsVars, StoreInv, Types, ObsTypes, HelperTypes
<1>22. ASSUME DspCounts PROVE StoreInv'
  BY <1>22 DEF DspCounts, Refused, obsVars, StoreInv, Types, ObsTypes, HelperTypes, Plugin,
      Flag
<1>23. ASSUME DspGate PROVE StoreInv'
  BY <1>23 DEF DspGate, Refused, obsVars, StoreInv, Types, ObsTypes, HelperTypes, Plugin, Flag
<1>24. ASSUME NEW ok \in BOOLEAN, DspReads(ok) PROVE StoreInv'
  BY <1>24 DEF DspReads, obsVars, StoreInv, Types, ObsTypes, HelperTypes, Plugin, Flag
<1>25. ASSUME DspApplies PROVE StoreInv'
  BY <1>25 DEF DspApplies, obsVars, StoreInv, Types, ObsTypes, HelperTypes, Plugin, Flag
<1>26. ASSUME DspLeaves PROVE StoreInv'
  BY <1>26 DEF DspLeaves, obsVars, StoreInv, Types, ObsTypes, HelperTypes, Plugin, Flag
<1>27. ASSUME DspOutputs PROVE StoreInv'
  BY <1>27 DEF DspOutputs, obsVars, StoreInv, Types, ObsTypes, HelperTypes, Region
<1>28. ASSUME DspResponds PROVE StoreInv'
  BY <1>28 DEF DspResponds, NewDsp, obsVars, StoreInv, Types, ObsTypes, HelperTypes, Region
<1>29. ASSUME Edit PROVE StoreInv'
  <2>1. plugin'.controller = plugin.controller + 1 /\ plugin.controller \in Nat
    BY <1>29, Counted DEF Edit, Types, HelperTypes, Plugin
  <2>2. worker.at = "poll" /\ UNCHANGED <<destroyer, saver, region, events, process, worker, stored>>
    BY <1>29 DEF Edit, obsVars
  <2>3. stored.controller \in Nat /\ saver.wanted \in Nat
    BY DEF Types, ObsTypes, HelperTypes, SaverState, Stored
  <2> QED BY <2>1, <2>2, <2>3 DEF StoreInv
<1>30. ASSUME Resync PROVE StoreInv'
  BY <1>30 DEF Resync, obsVars, StoreInv, Types, ObsTypes, HelperTypes, Plugin, Flag
<1>31. ASSUME TakeSave PROVE StoreInv'
  BY <1>31 DEF TakeSave, obsVars, StoreInv, Types, ObsTypes, HelperTypes, WorkerState
<1>32. ASSUME SyncLooks PROVE StoreInv'
  BY <1>32 DEF SyncLooks, Captured, obsVars, StoreInv, Types, ObsTypes, HelperTypes,
      WorkerState
<1>33. ASSUME SyncCompares PROVE StoreInv'
  BY <1>33 DEF SyncCompares, obsVars, StoreInv, Types, ObsTypes, HelperTypes, WorkerState,
      Plugin, Flag
<1>34. ASSUME SyncTimesOut PROVE StoreInv'
  BY <1>34 DEF SyncTimesOut, Captured, obsVars, StoreInv, Types, ObsTypes, HelperTypes,
      WorkerState
<1>35. ASSUME CaptureBecomesVisible PROVE StoreInv'
  BY <1>35 DEF CaptureBecomesVisible, obsVars, StoreInv, Types, ObsTypes, HelperTypes, Plugin,
      Flag
<1>36. ASSUME CaptureDrained PROVE StoreInv'
  BY <1>36 DEF CaptureDrained, obsVars, StoreInv, Types, ObsTypes, HelperTypes, WorkerState
<1>37. ASSUME DrainTimesOut PROVE StoreInv'
  BY <1>37 DEF DrainTimesOut, NoCapture, Captured, obsVars, StoreInv, Types, ObsTypes,
      HelperTypes, WorkerState, Plugin, Flag
<1>38. ASSUME NEW ok \in BOOLEAN, Capture(ok) PROVE StoreInv'
  <2>1. plugin'.controller = plugin.controller
    BY <1>38 DEF Capture, Types, HelperTypes, Plugin
  <2>2. /\ worker' = [at |-> "answer", ok |-> ok] /\ worker.at = "capture" /\ process = "running"
        /\ UNCHANGED <<destroyer, saver, region, events, process>>
    BY <1>38 DEF Capture, Captured, obsVars
  <2>3. plugin.controller \in Nat /\ stored.controller \in Nat /\ saver.wanted \in Nat
    BY Counted DEF Types, ObsTypes, HelperTypes, SaverState, Stored
  <2>4. CASE ok
    <3>1. /\ stored'.controller = plugin.controller /\ stored'.processor = plugin.processor
          /\ stored'.failed = plugin.failed
      BY <1>38, <2>4 DEF Capture
    <3> QED BY <2>1, <2>2, <2>3, <3>1 DEF StoreInv, EditInv
  <2>5. CASE ~ok
    <3>1. stored' = stored
      BY <1>38, <2>5 DEF Capture
    <3> QED BY <2>1, <2>2, <2>5, <3>1 DEF StoreInv
  <2> QED BY <2>4, <2>5
<1>39. ASSUME AnswerSave PROVE StoreInv'
  BY <1>39 DEF AnswerSave, obsVars, StoreInv, Types, ObsTypes, HelperTypes, Region, WorkerState
<1>40. ASSUME WorkerShutdown PROVE StoreInv'
  BY <1>40 DEF WorkerShutdown, obsVars, StoreInv, Types, ObsTypes, HelperTypes, WorkerState
<1>41. ASSUME AudioEnters \/ AudioGate \/ AudioDry \/ AudioDelivers \/ AudioMisses \/
    AudioFaults \/ GateBecomesVisible \/ DspShutdown PROVE StoreInv'
  BY <1>41 DEF AudioEnters, FilterExists, helperVars, AudioGate, AudioDry, Running, Outside,
      AudioDelivers, AudioMisses, AudioFaults, GateBecomesVisible, DspShutdown, obsVars,
      StoreInv
<1>42. ASSUME UNCHANGED vars PROVE StoreInv'
  BY <1>42 DEF vars, StoreInv
<1> QED BY <1>1, <1>2, <1>3, <1>4, <1>5, <1>6, <1>7, <1>8, <1>9, <1>10, <1>11, <1>12, <1>13,
    <1>14, <1>15, <1>16, <1>17, <1>18, <1>19, <1>20, <1>21, <1>22, <1>23, <1>24, <1>25, <1>26,
    <1>27, <1>28, <1>29, <1>30, <1>31, <1>32, <1>33, <1>34, <1>35, <1>36, <1>37, <1>38, <1>39,
    <1>40, <1>41, <1>42 DEF Next, AudioStep, DestroyStep, SaveStep, DspStep, WorkerStep

(* Init establishes every part. *)
LEMMA InitHolds == Init => SafetyInv
<1> SUFFICES ASSUME Init PROVE SafetyInv
  OBVIOUS
<1>1. Types
  <2>1. gate \in Flag /\ audio \in AudioState /\ pending \in Requests /\ next_request \in Requests \ {0}
    BY Numbers DEF Init, Flag, AudioState
  <2>2. destroyer \in DestroyerState /\ saver \in SaverState /\ stored \in Stored
    BY DEF Init, DestroyerState, SaverState, Stored
  <2>3. region \in Region /\ dsp \in DspState /\ worker \in WorkerState /\ plugin \in Plugin
    BY Constants DEF Init
  <2> QED BY <2>1, <2>2, <2>3 DEF Init, Types, ObsTypes, HelperTypes
<1>2. EventInv /\ GateInv /\ BlockInv
  BY DEF Init, NoRegion, NewDsp, EventInv, GateInv, AudioInside, BlockInv, DspBusy, Unanswered
<1>3. CountInv /\ CaptureInv /\ EditInv
  BY DEF Init, NewDsp, NewWorker, NewPlugin, CountInv, InVendorCall, InFlight, CaptureInv, CaptureGate,
      EditInv, LosingEdit
<1>4. OutputInv /\ StoreInv
  BY DEF Init, NoRegion, NewDsp, NewWorker, NewPlugin, OutputInv, StoreInv
<1> QED BY <1>1, <1>2, <1>3, <1>4 DEF SafetyInv

(* Every step keeps every part. *)
LEMMA StepHolds == SafetyInv /\ [Next]_vars => SafetyInv'
BY ObsTypeStep, HelperTypeStep, EventStep, CountStep, GateStep, CaptureStep, BlockStep, OutputStep,
    EditStep, StoreStep DEF SafetyInv, Types

(* Every reachable state of the filter and its helper has the inductive     *)
(* invariant, for any number of blocks, edits and saves, any length of the  *)
(* edit ring and of the drain, and wherever the request numbers wrap.       *)
THEOREM BridgeStateSafety == Spec => []SafetyInv
BY InitHolds, StepHolds, PTL DEF Spec

(* The states have the types of the code: readers and vendor calls are      *)
(* counted out as often as in, and the edit ring never overflows.           *)
THEOREM RackBridgeTypes == Spec => []TypeOK
<1>1. ASSUME SafetyInv PROVE TypeOK
  <2>1. Types /\ CountInv
    BY <1>1 DEF SafetyInv
  <2>2. audio_readers \in 0 .. 1 /\ plugin.calls \in 0 .. 1
    BY <2>1 DEF CountInv
  <2>3. plugin.applied <= plugin.submitted
    <3>1. /\ plugin.submitted \in Nat /\ plugin.applied \in Nat
          /\ Len(plugin.ring) \in Nat /\ InFlight \in Nat
      BY <2>1, Counted
    <3>2. plugin.submitted = plugin.applied + InFlight + Len(plugin.ring)
      BY <2>1 DEF CountInv
    <3> QED BY <3>1, <3>2
  <2>4. audio \in AudioState /\ pending \in Requests /\ next_request \in Requests \ {0}
    BY <2>1 DEF Types, ObsTypes
  <2>5. next_request \in 1 .. MaxGeneration
    BY <2>4 DEF Requests
  <2>6. /\ destroyer.at \in {"creating", "idle", "drain", "lock", "stopping", "retired", "unloaded"}
        /\ saver.at \in {"idle", "lock", "wait"} /\ saver.told \in {"none", "ok", "failed"}
        /\ region.input \in Samples /\ region.output \in Samples
    BY <2>1 DEF Types, ObsTypes, DestroyerState, SaverState, Region
  <2> QED BY <2>1, <2>2, <2>3, <2>4, <2>5, <2>6
          DEF TypeOK, Types, ObsTypes, HelperTypes, CountInv, AudioState, Requests
<1> QED BY <1>1, BridgeStateSafety, PTL

(* OBS never writes the shared block while the helper works on it, and what *)
(* WinRackBridge::process plays answers the very block it sent.             *)
THEOREM RackBridgeBlockOwned == Spec => []BlockOwned
<1>1. SafetyInv => BlockOwned
  BY DEF SafetyInv, BlockInv, OutputInv, DspBusy, Unanswered, BlockOwned
<1> QED BY <1>1, BridgeStateSafety, PTL

(* rack_destroy unmaps the region under no callback, and the capture runs   *)
(* under no vendor call, but for a thread that slipped past a buffered flag.*)
THEOREM RackBridgeGatesHold == Spec => []GatesHold
<1>1. SafetyInv => GatesHold
  BY DEF SafetyInv, GateInv, CaptureInv, GatesHold, BridgeGate, AudioInside
<1> QED BY <1>1, BridgeStateSafety, PTL

(* WinRackBridge::save_session reports success only for a session that has  *)
(* every edit made before OBS asked, in both halves.                        *)
THEOREM RackBridgeSavedIsWhole == Spec => []SavedIsWhole
<1>1. SafetyInv => SavedIsWhole
  BY DEF SafetyInv, StoreInv, SavedIsWhole
<1> QED BY <1>1, BridgeStateSafety, PTL
=============================================================================
