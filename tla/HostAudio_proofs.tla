-------------------------- MODULE HostAudio_proofs --------------------------
EXTENDS HostAudio, Integers, TLAPS

USE SlotCountAssumption, SequenceAssumption, CapacityAssumption, PerWakeAssumption,
    BoundsAssumption

(* The lowest bit of a token says what it asks for, the others order it. *)
LEMMA TokenParity ==
  ASSUME NEW g \in Nat
  PROVE  /\ Token(g, TRUE) \in Nat /\ Token(g, FALSE) \in Nat
         /\ Token(g, TRUE) = 2 * g + 1 /\ Token(g, FALSE) = 2 * g
         /\ RequestsPause(Token(g, TRUE)) /\ ~RequestsPause(Token(g, FALSE))
BY DEF Token, RequestsPause

(* next_sequence_ wraps to a number in range. *)
LEMMA SequenceWraps ==
  ASSUME NEW n \in Sequence
  PROVE  (n + 1) % SequenceModulus \in Sequence
<1>1. n + 1 \in Int /\ SequenceModulus \in Int /\ SequenceModulus > 0
  BY DEF Sequence
<1>2. (n + 1) % SequenceModulus \in 0 .. SequenceModulus - 1
  BY <1>1
<1> QED BY <1>2 DEF Sequence

(* Every step keeps the types. *)
LEMMA TypeStep ==
  ASSUME TypeOK, [Next]_vars
  PROVE  TypeOK'
<1>1. ASSUME BeginBlock PROVE TypeOK'
  BY <1>1 DEF BeginBlock, slotVars, tokenVars, commandVars, dspVars, controlVars, TypeOK
<1>2. ASSUME AcquireSlot PROVE TypeOK'
  <2>1. state' \in [SlotIndex -> {"Free", "Claimed", "Ready", "Processing", "Done"}]
        /\ output' \in [SlotIndex -> Sequence \cup {NoBlock}]
    BY <1>2 DEF AcquireSlot, TypeOK
  <2>2. mine' \in SlotIndex
    BY <1>2 DEF AcquireSlot, TypeOK, SlotIndex
  <2>3. caller' \in {"idle", "claim", "write", "wait"}
    BY <1>2 DEF AcquireSlot
  <2> QED BY <1>2, <2>1, <2>2, <2>3 DEF AcquireSlot, tokenVars, commandVars, dspVars,
      controlVars, TypeOK
<1>3. ASSUME PublishBlock PROVE TypeOK'
  BY <1>3 DEF PublishBlock, tokenVars, commandVars, dspVars, controlVars, TypeOK
<1>4. ASSUME CollectBlock PROVE TypeOK'
  <2>1. next_sequence' \in Sequence
    BY <1>4, SequenceWraps DEF CollectBlock, Return, TypeOK
  <2> QED BY <1>4, <2>1 DEF CollectBlock, Return, tokenVars, commandVars, dspVars, controlVars,
      TypeOK, SlotIndex
<1>5. ASSUME MissDeadline PROVE TypeOK'
  <2>1. next_sequence' \in Sequence
    BY <1>5, SequenceWraps DEF MissDeadline, Return, TypeOK
  <2>2. state' \in [SlotIndex -> {"Free", "Claimed", "Ready", "Processing", "Done"}]
        /\ input' \in [SlotIndex -> Sequence \cup {NoBlock}]
    BY <1>5 DEF MissDeadline, TypeOK
  <2>3. mine' \in SlotIndex
    BY <1>5 DEF MissDeadline, Return, SlotIndex
  <2> QED BY <1>5, <2>1, <2>2, <2>3 DEF MissDeadline, Return, tokenVars, commandVars, dspVars,
      controlVars, TypeOK
<1>6. ASSUME ReadTransition PROVE TypeOK'
  BY <1>6 DEF ReadTransition, slotVars, tokenVars, commandVars, controlVars, callerVars, TypeOK,
      DspSteps
<1>7. ASSUME AcknowledgeRun PROVE TypeOK'
  BY <1>7 DEF AcknowledgeRun, slotVars, commandVars, controlVars, callerVars, TypeOK, DspSteps
<1>8. ASSUME Settle PROVE TypeOK'
  <2>1. popped' \in Nat /\ applied' \in Nat /\ applied' <= popped' /\ popped' <= pushed'
        /\ pushed' - popped' <= Capacity
    BY <1>8 DEF Settle, TypeOK
  <2>2. dsp' \in DspSteps /\ dsp' # "process" /\ shutdown' \in BOOLEAN
    BY <1>8 DEF Settle, TypeOK, DspSteps
  <2> QED BY <1>8, <2>1, <2>2 DEF Settle, slotVars, tokenVars, controlVars, callerVars, TypeOK
<1>9. ASSUME ConfirmPause PROVE TypeOK'
  BY <1>9 DEF ConfirmPause, slotVars, tokenVars, commandVars, controlVars, callerVars, TypeOK,
      DspSteps
<1>10. ASSUME AcknowledgePause PROVE TypeOK'
  BY <1>10 DEF AcknowledgePause, slotVars, commandVars, controlVars, callerVars, TypeOK, DspSteps
<1>11. ASSUME PausedReadTransition PROVE TypeOK'
  BY <1>11 DEF PausedReadTransition, slotVars, tokenVars, commandVars, controlVars, callerVars,
      TypeOK, DspSteps
<1>12. ASSUME AcknowledgeAgain PROVE TypeOK'
  BY <1>12 DEF AcknowledgeAgain, slotVars, commandVars, controlVars, callerVars, TypeOK, DspSteps
<1>13. ASSUME ParkedWait PROVE TypeOK'
  BY <1>13 DEF ParkedWait, slotVars, tokenVars, commandVars, controlVars, callerVars, TypeOK,
      DspSteps
<1>14. ASSUME AcknowledgeResume PROVE TypeOK'
  BY <1>14 DEF AcknowledgeResume, slotVars, commandVars, controlVars, callerVars, TypeOK, DspSteps
<1>15. ASSUME Wake PROVE TypeOK'
  BY <1>15 DEF Wake, slotVars, tokenVars, commandVars, controlVars, callerVars, TypeOK, DspSteps
<1>16. ASSUME ScanSlot PROVE TypeOK'
  <2>1. state' \in [SlotIndex -> {"Free", "Claimed", "Ready", "Processing", "Done"}]
    BY <1>16 DEF ScanSlot, TypeOK
  <2>2. input' \in [SlotIndex -> Sequence \cup {NoBlock}] /\ block' \in Sequence \cup {NoBlock}
    BY <1>16 DEF ScanSlot, TypeOK
  <2>3. processed_any' \in BOOLEAN
    BY <1>16 DEF ScanSlot, TypeOK
  <2>4. index' \in 1 .. SlotCount + 1
    BY <1>16 DEF ScanSlot, TypeOK, SlotIndex
  <2>5. dsp' \in DspSteps /\ (dsp' = "process" => index' \in SlotIndex)
    BY <1>16 DEF ScanSlot, DspSteps
  <2> QED BY <1>16, <2>1, <2>2, <2>3, <2>4, <2>5 DEF ScanSlot, tokenVars, commandVars,
      controlVars, callerVars, TypeOK
<1>17. ASSUME ProcessBlock PROVE TypeOK'
  <2>1. state' \in [SlotIndex -> {"Free", "Claimed", "Ready", "Processing", "Done"}]
        /\ output' \in [SlotIndex -> Sequence \cup {NoBlock}]
        /\ result' \in [SlotIndex -> {"Ok", "VstProcessError"}]
        /\ block' \in Sequence \cup {NoBlock} /\ shutdown' \in BOOLEAN
    BY <1>17 DEF ProcessBlock, TypeOK
  <2>2. index' \in 1 .. SlotCount + 1
    BY <1>17 DEF ProcessBlock, TypeOK, SlotIndex
  <2>3. applied' \in Nat /\ applied' <= popped
    BY <1>17 DEF ProcessBlock, TypeOK
  <2>4. dsp' \in DspSteps /\ dsp' # "process"
    BY <1>17 DEF ProcessBlock, DspSteps
  <2> QED BY <1>17, <2>1, <2>2, <2>3, <2>4 DEF ProcessBlock, tokenVars, controlVars, callerVars,
      TypeOK
<1>18. ASSUME DrainCommands PROVE TypeOK'
  <2>1. popped' \in Nat /\ applied' \in Nat /\ applied' <= popped' /\ popped' <= pushed'
        /\ pushed' - popped' <= Capacity
    BY <1>18 DEF DrainCommands, Smaller, TypeOK
  <2>2. dsp' \in DspSteps /\ dsp' # "process" /\ shutdown' \in BOOLEAN
    BY <1>18 DEF DrainCommands, TypeOK, DspSteps
  <2>3. dsp_event' \in BOOLEAN
    BY <1>18 DEF DrainCommands, TypeOK
  <2>4. index' = 1 /\ processed_any' \in BOOLEAN
    BY <1>18 DEF DrainCommands
  <2>5. index' \in 1 .. SlotCount + 1
    BY <2>4
  <2> QED BY <1>18, <2>1, <2>2, <2>3, <2>4, <2>5 DEF DrainCommands, slotVars, tokenVars,
      controlVars, callerVars, TypeOK
<1>19. ASSUME PushCommand PROVE TypeOK'
  BY <1>19 DEF PushCommand, slotVars, tokenVars, dspVars, controlVars, callerVars, TypeOK
<1>20. ASSUME BeginPause PROVE TypeOK'
  <2>1. generation \in Nat
    BY DEF TypeOK
  <2>2. Token(generation, TRUE) \in Nat /\ generation + 1 \in Nat
    BY <2>1 DEF Token
  <2> QED BY <1>20, <2>2 DEF BeginPause, RequestTransition, slotVars, commandVars, dspVars,
      callerVars, TypeOK, ControlSteps
<1>21. ASSUME RequestShutdown PROVE TypeOK'
  BY <1>21 DEF RequestShutdown, slotVars, tokenVars, commandVars, dspVars, controlVars,
      callerVars, TypeOK
<1>22. ASSUME PauseAcknowledged PROVE TypeOK'
  BY <1>22 DEF PauseAcknowledged, slotVars, tokenVars, commandVars, dspVars, callerVars, TypeOK,
      ControlSteps
<1>23. ASSUME PauseTimeout PROVE TypeOK'
  <2>1. generation \in Nat
    BY DEF TypeOK
  <2>2. Token(generation, FALSE) \in Nat /\ generation + 1 \in Nat
    BY <2>1 DEF Token
  <2> QED BY <1>23, <2>2 DEF PauseTimeout, RequestTransition, slotVars, commandVars, dspVars,
      callerVars, TypeOK, ControlSteps
<1>24. ASSUME BeginResume PROVE TypeOK'
  <2>1. generation \in Nat
    BY DEF TypeOK
  <2>2. Token(generation, FALSE) \in Nat /\ generation + 1 \in Nat
    BY <2>1 DEF Token
  <2> QED BY <1>24, <2>2 DEF BeginResume, RequestTransition, slotVars, commandVars, dspVars,
      callerVars, TypeOK, ControlSteps
<1>25. ASSUME ResumeAcknowledged PROVE TypeOK'
  BY <1>25 DEF ResumeAcknowledged, slotVars, tokenVars, commandVars, dspVars, callerVars,
      TypeOK, ControlSteps
<1>26. ASSUME ResumeTimeout PROVE TypeOK'
  BY <1>26 DEF ResumeTimeout, slotVars, tokenVars, commandVars, dspVars, callerVars, TypeOK,
      ControlSteps
<1>27. ASSUME JoinWorker PROVE TypeOK'
  BY <1>27 DEF JoinWorker, slotVars, tokenVars, commandVars, dspVars, callerVars, TypeOK,
      ControlSteps
<1>28. ASSUME CloseEngine PROVE TypeOK'
  BY <1>28 DEF CloseEngine, slotVars, tokenVars, commandVars, dspVars, callerVars, TypeOK,
      ControlSteps
<1>29. ASSUME UNCHANGED vars PROVE TypeOK'
  BY <1>29 DEF vars, slotVars, tokenVars, commandVars, dspVars, controlVars, callerVars, TypeOK,
      SlotIndex, NoBlock, DspSteps, ControlSteps
<1> QED BY <1>1, <1>2, <1>3, <1>4, <1>5, <1>6, <1>7, <1>8, <1>9, <1>10, <1>11, <1>12, <1>13,
    <1>14, <1>15, <1>16, <1>17, <1>18, <1>19, <1>20, <1>21, <1>22, <1>23, <1>24, <1>25, <1>26,
    <1>27, <1>28, <1>29 DEF Next, CallerStep, DspStep, ControlStep

(* Tokens are acknowledged in order. *)
LEMMA TokenStep ==
  ASSUME TypeOK, TokenInv, [Next]_vars
  PROVE  TokenInv'
<1>1. ASSUME ReadTransition PROVE TokenInv'
  BY <1>1 DEF ReadTransition, slotVars, tokenVars, commandVars, controlVars, callerVars,
      TokenInv, TypeOK
<1>2. ASSUME AcknowledgeRun PROVE TokenInv'
  BY <1>2 DEF AcknowledgeRun, slotVars, commandVars, controlVars, callerVars, TokenInv, TypeOK
<1>3. ASSUME Settle PROVE TokenInv'
  BY <1>3 DEF Settle, slotVars, tokenVars, controlVars, callerVars, TokenInv, TypeOK
<1>4. ASSUME ConfirmPause PROVE TokenInv'
  BY <1>4 DEF ConfirmPause, slotVars, tokenVars, commandVars, controlVars, callerVars, TokenInv,
      TypeOK
<1>5. ASSUME AcknowledgePause PROVE TokenInv'
  BY <1>5 DEF AcknowledgePause, slotVars, commandVars, controlVars, callerVars, TokenInv, TypeOK
<1>6. ASSUME PausedReadTransition PROVE TokenInv'
  BY <1>6 DEF PausedReadTransition, slotVars, tokenVars, commandVars, controlVars, callerVars,
      TokenInv, TypeOK
<1>7. ASSUME AcknowledgeAgain PROVE TokenInv'
  BY <1>7 DEF AcknowledgeAgain, slotVars, commandVars, controlVars, callerVars, TokenInv, TypeOK
<1>8. ASSUME ParkedWait PROVE TokenInv'
  BY <1>8 DEF ParkedWait, slotVars, tokenVars, commandVars, controlVars, callerVars, TokenInv,
      TypeOK
<1>9. ASSUME AcknowledgeResume PROVE TokenInv'
  BY <1>9 DEF AcknowledgeResume, slotVars, commandVars, controlVars, callerVars, TokenInv, TypeOK
<1>10. ASSUME Wake PROVE TokenInv'
  BY <1>10 DEF Wake, slotVars, tokenVars, commandVars, controlVars, callerVars, TokenInv, TypeOK
<1>11. ASSUME ScanSlot PROVE TokenInv'
  BY <1>11 DEF ScanSlot, tokenVars, commandVars, controlVars, callerVars, TokenInv, TypeOK
<1>12. ASSUME ProcessBlock PROVE TokenInv'
  BY <1>12 DEF ProcessBlock, tokenVars, controlVars, callerVars, TokenInv, TypeOK
<1>13. ASSUME DrainCommands PROVE TokenInv'
  BY <1>13 DEF DrainCommands, slotVars, tokenVars, controlVars, callerVars, TokenInv, TypeOK
<1>14. ASSUME BeginPause PROVE TokenInv'
  <2>1. requested' = Token(generation, TRUE) /\ token' = requested' /\ generation' = generation + 1
        /\ UNCHANGED <<acknowledged, dsp, seen>>
    BY <1>14 DEF BeginPause, RequestTransition, dspVars
  <2>2. generation \in Nat /\ requested \in Nat /\ acknowledged \in Nat /\ seen \in Nat
    BY DEF TypeOK
  <2>3. requested' \in Nat /\ 2 * generation <= requested' /\ requested' <= 2 * generation + 1
    BY <2>1, <2>2 DEF Token
  <2>4. 2 * generation' = 2 * generation + 2
    BY <2>1, <2>2
  <2>5. requested < 2 * generation
    BY DEF TokenInv
  <2>6. requested' < 2 * generation' /\ requested < requested'
    BY <2>4, <2>5, <2>2, <2>3
  <2>7. acknowledged <= requested' /\ seen <= requested'
    BY <2>2, <2>3, <2>6 DEF TokenInv
  <2> QED BY <2>1, <2>6, <2>7 DEF TokenInv
<1>15. ASSUME PauseTimeout PROVE TokenInv'
  <2>1. requested' = Token(generation, FALSE) /\ token' = requested' /\ generation' = generation + 1
        /\ UNCHANGED <<acknowledged, dsp, seen>>
    BY <1>15 DEF PauseTimeout, RequestTransition, dspVars
  <2>2. generation \in Nat /\ requested \in Nat /\ acknowledged \in Nat /\ seen \in Nat
    BY DEF TypeOK
  <2>3. requested' \in Nat /\ 2 * generation <= requested' /\ requested' <= 2 * generation + 1
    BY <2>1, <2>2 DEF Token
  <2>4. 2 * generation' = 2 * generation + 2
    BY <2>1, <2>2
  <2>5. requested < 2 * generation
    BY DEF TokenInv
  <2>6. requested' < 2 * generation' /\ requested < requested'
    BY <2>4, <2>5, <2>2, <2>3
  <2>7. acknowledged <= requested' /\ seen <= requested'
    BY <2>2, <2>3, <2>6 DEF TokenInv
  <2> QED BY <2>1, <2>6, <2>7 DEF TokenInv
<1>16. ASSUME BeginResume PROVE TokenInv'
  <2>1. requested' = Token(generation, FALSE) /\ token' = requested' /\ generation' = generation + 1
        /\ UNCHANGED <<acknowledged, dsp, seen>>
    BY <1>16 DEF BeginResume, RequestTransition, dspVars
  <2>2. generation \in Nat /\ requested \in Nat /\ acknowledged \in Nat /\ seen \in Nat
    BY DEF TypeOK
  <2>3. requested' \in Nat /\ 2 * generation <= requested' /\ requested' <= 2 * generation + 1
    BY <2>1, <2>2 DEF Token
  <2>4. 2 * generation' = 2 * generation + 2
    BY <2>1, <2>2
  <2>5. requested < 2 * generation
    BY DEF TokenInv
  <2>6. requested' < 2 * generation' /\ requested < requested'
    BY <2>4, <2>5, <2>2, <2>3
  <2>7. acknowledged <= requested' /\ seen <= requested'
    BY <2>2, <2>3, <2>6 DEF TokenInv
  <2> QED BY <2>1, <2>6, <2>7 DEF TokenInv
<1>17. ASSUME BeginBlock \/ AcquireSlot \/ PublishBlock \/ CollectBlock \/ MissDeadline \/
            PushCommand \/ RequestShutdown \/ PauseAcknowledged \/ ResumeAcknowledged \/
            ResumeTimeout \/ JoinWorker \/ CloseEngine PROVE TokenInv'
  BY <1>17 DEF BeginBlock, slotVars, tokenVars, commandVars, dspVars, controlVars, AcquireSlot,
      PublishBlock, CollectBlock, Return, MissDeadline, PushCommand, callerVars,
      RequestShutdown, PauseAcknowledged, ResumeAcknowledged, ResumeTimeout, JoinWorker,
      CloseEngine, TokenInv, TypeOK
<1>18. ASSUME UNCHANGED vars PROVE TokenInv'
  BY <1>18 DEF vars, slotVars, tokenVars, commandVars, dspVars, controlVars, callerVars,
      TokenInv, TypeOK
<1> QED BY <1>1, <1>2, <1>3, <1>4, <1>5, <1>6, <1>7, <1>8, <1>9, <1>10, <1>11, <1>12, <1>13,
    <1>14, <1>15, <1>16, <1>17, <1>18 DEF Next, CallerStep, DspStep, ControlStep

(* The worker is parked exactly between the acknowledgements of a pause and of a run. *)
LEMMA ParkStep ==
  ASSUME TypeOK, TokenInv, ParkInv, [Next]_vars
  PROVE  ParkInv'
<1>1. ASSUME ReadTransition PROVE ParkInv'
  BY <1>1 DEF ReadTransition, slotVars, tokenVars, commandVars, controlVars, callerVars,
      ParkInv, TypeOK
<1>2. ASSUME AcknowledgeRun PROVE ParkInv'
  BY <1>2 DEF AcknowledgeRun, slotVars, commandVars, controlVars, callerVars, ParkInv, TypeOK
<1>3. ASSUME Settle PROVE ParkInv'
  BY <1>3 DEF Settle, slotVars, tokenVars, controlVars, callerVars, ParkInv, TypeOK
<1>4. ASSUME ConfirmPause PROVE ParkInv'
  BY <1>4 DEF ConfirmPause, slotVars, tokenVars, commandVars, controlVars, callerVars, ParkInv,
      TypeOK
<1>5. ASSUME AcknowledgePause PROVE ParkInv'
  BY <1>5 DEF AcknowledgePause, slotVars, commandVars, controlVars, callerVars, ParkInv, TypeOK
<1>6. ASSUME PausedReadTransition PROVE ParkInv'
  BY <1>6 DEF PausedReadTransition, slotVars, tokenVars, commandVars, controlVars, callerVars,
      ParkInv, TypeOK
<1>7. ASSUME AcknowledgeAgain PROVE ParkInv'
  BY <1>7 DEF AcknowledgeAgain, slotVars, commandVars, controlVars, callerVars, ParkInv, TypeOK
<1>8. ASSUME ParkedWait PROVE ParkInv'
  BY <1>8 DEF ParkedWait, slotVars, tokenVars, commandVars, controlVars, callerVars, ParkInv,
      TypeOK
<1>9. ASSUME AcknowledgeResume PROVE ParkInv'
  BY <1>9 DEF AcknowledgeResume, slotVars, commandVars, controlVars, callerVars, ParkInv, TypeOK
<1>10. ASSUME Wake PROVE ParkInv'
  BY <1>10 DEF Wake, slotVars, tokenVars, commandVars, controlVars, callerVars, ParkInv, TypeOK
<1>11. ASSUME ScanSlot PROVE ParkInv'
  BY <1>11 DEF ScanSlot, tokenVars, commandVars, controlVars, callerVars, ParkInv, TypeOK
<1>12. ASSUME ProcessBlock PROVE ParkInv'
  BY <1>12 DEF ProcessBlock, tokenVars, controlVars, callerVars, ParkInv, TypeOK
<1>13. ASSUME DrainCommands PROVE ParkInv'
  BY <1>13 DEF DrainCommands, slotVars, tokenVars, controlVars, callerVars, ParkInv, TypeOK
<1>14. ASSUME RequestShutdown PROVE ParkInv'
  BY <1>14 DEF RequestShutdown, slotVars, tokenVars, commandVars, dspVars, controlVars,
      callerVars, ParkInv, TypeOK
<1>15. ASSUME BeginBlock \/ AcquireSlot \/ PublishBlock \/ CollectBlock \/ MissDeadline \/
            PushCommand \/ BeginPause \/ PauseAcknowledged \/ PauseTimeout \/ BeginResume \/
            ResumeAcknowledged \/ ResumeTimeout \/ JoinWorker \/ CloseEngine PROVE ParkInv'
  BY <1>15 DEF BeginBlock, slotVars, tokenVars, commandVars, dspVars, controlVars, AcquireSlot,
      PublishBlock, CollectBlock, Return, MissDeadline, PushCommand, callerVars, BeginPause,
      RequestTransition, PauseAcknowledged, PauseTimeout, BeginResume, ResumeAcknowledged,
      ResumeTimeout, JoinWorker, CloseEngine, ParkInv, TypeOK
<1>16. ASSUME UNCHANGED vars PROVE ParkInv'
  BY <1>16 DEF vars, slotVars, tokenVars, commandVars, dspVars, controlVars, callerVars,
      ParkInv, TypeOK
<1> QED BY <1>1, <1>2, <1>3, <1>4, <1>5, <1>6, <1>7, <1>8, <1>9, <1>10, <1>11, <1>12, <1>13,
    <1>14, <1>15, <1>16 DEF Next, CallerStep, DspStep, ControlStep

(* The control thread has the pause it has been granted until it asks for its end. *)
LEMMA ControlStepInv ==
  ASSUME TypeOK, TokenInv, ParkInv, ControlInv, [Next]_vars
  PROVE  ControlInv'
<1>1. ASSUME ReadTransition PROVE ControlInv'
  BY <1>1 DEF ReadTransition, slotVars, tokenVars, commandVars, controlVars, callerVars,
      ControlInv, TypeOK
<1>2. ASSUME AcknowledgeRun PROVE ControlInv'
  <2>1. control # "paused"
    BY <1>2 DEF AcknowledgeRun, ParkInv, ControlInv
  <2> QED BY <1>2, <2>1 DEF AcknowledgeRun, controlVars, ControlInv
<1>3. ASSUME Settle PROVE ControlInv'
  BY <1>3 DEF Settle, slotVars, tokenVars, controlVars, callerVars, ControlInv, TypeOK
<1>4. ASSUME ConfirmPause PROVE ControlInv'
  BY <1>4 DEF ConfirmPause, slotVars, tokenVars, commandVars, controlVars, callerVars,
      ControlInv, TypeOK
<1>5. ASSUME AcknowledgePause PROVE ControlInv'
  <2>1. control # "paused"
    BY <1>5 DEF AcknowledgePause, ParkInv, ControlInv
  <2> QED BY <1>5, <2>1 DEF AcknowledgePause, controlVars, ControlInv
<1>6. ASSUME PausedReadTransition PROVE ControlInv'
  BY <1>6 DEF PausedReadTransition, slotVars, tokenVars, commandVars, controlVars, callerVars,
      ControlInv, TypeOK
<1>7. ASSUME AcknowledgeAgain PROVE ControlInv'
  <2>1. control # "paused"
    BY <1>7 DEF AcknowledgeAgain, TypeOK, TokenInv, ControlInv
  <2> QED BY <1>7, <2>1 DEF AcknowledgeAgain, controlVars, ControlInv
<1>8. ASSUME ParkedWait PROVE ControlInv'
  BY <1>8 DEF ParkedWait, slotVars, tokenVars, commandVars, controlVars, callerVars, ControlInv,
      TypeOK
<1>9. ASSUME AcknowledgeResume PROVE ControlInv'
  <2>1. control # "paused"
    BY <1>9 DEF AcknowledgeResume, TypeOK, TokenInv, ControlInv
  <2> QED BY <1>9, <2>1 DEF AcknowledgeResume, controlVars, ControlInv
<1>10. ASSUME Wake PROVE ControlInv'
  BY <1>10 DEF Wake, slotVars, tokenVars, commandVars, controlVars, callerVars, ControlInv, TypeOK
<1>11. ASSUME ScanSlot PROVE ControlInv'
  BY <1>11 DEF ScanSlot, tokenVars, commandVars, controlVars, callerVars, ControlInv, TypeOK
<1>12. ASSUME ProcessBlock PROVE ControlInv'
  BY <1>12 DEF ProcessBlock, tokenVars, controlVars, callerVars, ControlInv, TypeOK
<1>13. ASSUME DrainCommands PROVE ControlInv'
  BY <1>13 DEF DrainCommands, slotVars, tokenVars, controlVars, callerVars, ControlInv, TypeOK
<1>14. ASSUME BeginPause PROVE ControlInv'
  BY <1>14, TokenParity DEF BeginPause, RequestTransition, slotVars, commandVars, dspVars,
      callerVars, TypeOK, ControlInv
<1>15. ASSUME PauseAcknowledged PROVE ControlInv'
  BY <1>15 DEF PauseAcknowledged, slotVars, tokenVars, commandVars, dspVars, callerVars,
      ControlInv, TypeOK
<1>16. ASSUME PauseTimeout PROVE ControlInv'
  BY <1>16, TokenParity DEF PauseTimeout, RequestTransition, slotVars, commandVars, dspVars,
      callerVars, TypeOK, ControlInv
<1>17. ASSUME BeginResume PROVE ControlInv'
  BY <1>17, TokenParity DEF BeginResume, RequestTransition, slotVars, commandVars, dspVars,
      callerVars, TypeOK, ControlInv
<1>18. ASSUME ResumeAcknowledged PROVE ControlInv'
  BY <1>18 DEF ResumeAcknowledged, slotVars, tokenVars, commandVars, dspVars, callerVars,
      ControlInv, TypeOK
<1>19. ASSUME ResumeTimeout PROVE ControlInv'
  BY <1>19 DEF ResumeTimeout, slotVars, tokenVars, commandVars, dspVars, callerVars, ControlInv,
      TypeOK
<1>20. ASSUME JoinWorker PROVE ControlInv'
  BY <1>20 DEF JoinWorker, slotVars, tokenVars, commandVars, dspVars, callerVars, ControlInv,
      TypeOK
<1>21. ASSUME CloseEngine PROVE ControlInv'
  BY <1>21 DEF CloseEngine, slotVars, tokenVars, commandVars, dspVars, callerVars, ControlInv,
      TypeOK
<1>22. ASSUME BeginBlock \/ AcquireSlot \/ PublishBlock \/ CollectBlock \/ MissDeadline \/
            PushCommand \/ RequestShutdown PROVE ControlInv'
  BY <1>22 DEF BeginBlock, slotVars, tokenVars, commandVars, dspVars, controlVars, AcquireSlot,
      PublishBlock, CollectBlock, Return, MissDeadline, PushCommand, callerVars,
      RequestShutdown, ControlInv, TypeOK
<1>23. ASSUME UNCHANGED vars PROVE ControlInv'
  BY <1>23 DEF vars, slotVars, tokenVars, commandVars, dspVars, controlVars, callerVars,
      ControlInv, TypeOK
<1> QED BY <1>1, <1>2, <1>3, <1>4, <1>5, <1>6, <1>7, <1>8, <1>9, <1>10, <1>11, <1>12, <1>13,
    <1>14, <1>15, <1>16, <1>17, <1>18, <1>19, <1>20, <1>21, <1>22, <1>23 DEF Next, CallerStep,
    DspStep, ControlStep

(* The drain before a pause is the one of the request that is waited for. *)
LEMMA FrontierStep ==
  ASSUME TypeOK, TokenInv, ParkInv, ControlInv, FrontierInv, [Next]_vars
  PROVE  FrontierInv'
<1>1. ASSUME ReadTransition PROVE FrontierInv'
  BY <1>1, TokenParity DEF ReadTransition, slotVars, tokenVars, commandVars, controlVars,
      callerVars, FrontierInv, TypeOK, TokenInv, ParkInv, ControlInv
<1>2. ASSUME AcknowledgeRun PROVE FrontierInv'
  BY <1>2, TokenParity DEF AcknowledgeRun, slotVars, commandVars, controlVars, callerVars,
      FrontierInv, TypeOK, TokenInv, ParkInv, ControlInv
<1>3. ASSUME Settle PROVE FrontierInv'
  BY <1>3, TokenParity DEF Settle, slotVars, tokenVars, controlVars, callerVars, FrontierInv,
      TypeOK, TokenInv, ParkInv, ControlInv
<1>4. ASSUME ConfirmPause PROVE FrontierInv'
  BY <1>4, TokenParity DEF ConfirmPause, slotVars, tokenVars, commandVars, controlVars,
      callerVars, FrontierInv, TypeOK, TokenInv, ParkInv, ControlInv
<1>5. ASSUME AcknowledgePause PROVE FrontierInv'
  BY <1>5, TokenParity DEF AcknowledgePause, slotVars, commandVars, controlVars, callerVars,
      FrontierInv, TypeOK, TokenInv, ParkInv, ControlInv
<1>6. ASSUME PausedReadTransition PROVE FrontierInv'
  BY <1>6, TokenParity DEF PausedReadTransition, slotVars, tokenVars, commandVars, controlVars,
      callerVars, FrontierInv, TypeOK, TokenInv, ParkInv, ControlInv
<1>7. ASSUME AcknowledgeAgain PROVE FrontierInv'
  BY <1>7, TokenParity DEF AcknowledgeAgain, slotVars, commandVars, controlVars, callerVars,
      FrontierInv, TypeOK, TokenInv, ParkInv, ControlInv
<1>8. ASSUME ParkedWait PROVE FrontierInv'
  BY <1>8, TokenParity DEF ParkedWait, slotVars, tokenVars, commandVars, controlVars,
      callerVars, FrontierInv, TypeOK, TokenInv, ParkInv, ControlInv
<1>9. ASSUME AcknowledgeResume PROVE FrontierInv'
  BY <1>9, TokenParity DEF AcknowledgeResume, slotVars, commandVars, controlVars, callerVars,
      FrontierInv, TypeOK, TokenInv, ParkInv, ControlInv
<1>10. ASSUME Wake PROVE FrontierInv'
  BY <1>10, TokenParity DEF Wake, slotVars, tokenVars, commandVars, controlVars, callerVars,
      FrontierInv, TypeOK, TokenInv, ParkInv, ControlInv
<1>11. ASSUME ScanSlot PROVE FrontierInv'
  BY <1>11, TokenParity DEF ScanSlot, tokenVars, commandVars, controlVars, callerVars,
      FrontierInv, TypeOK, TokenInv, ParkInv, ControlInv
<1>12. ASSUME ProcessBlock PROVE FrontierInv'
  BY <1>12, TokenParity DEF ProcessBlock, tokenVars, controlVars, callerVars, FrontierInv,
      TypeOK, TokenInv, ParkInv, ControlInv
<1>13. ASSUME DrainCommands PROVE FrontierInv'
  BY <1>13, TokenParity DEF DrainCommands, slotVars, tokenVars, controlVars, callerVars,
      FrontierInv, TypeOK, TokenInv, ParkInv, ControlInv
<1>14. ASSUME PushCommand PROVE FrontierInv'
  BY <1>14, TokenParity DEF PushCommand, slotVars, tokenVars, dspVars, controlVars, callerVars,
      FrontierInv, TypeOK, TokenInv, ParkInv, ControlInv
<1>15. ASSUME BeginPause PROVE FrontierInv'
  BY <1>15, TokenParity DEF BeginPause, RequestTransition, slotVars, commandVars, dspVars,
      callerVars, FrontierInv, TypeOK, TokenInv, ParkInv, ControlInv
<1>16. ASSUME PauseAcknowledged PROVE FrontierInv'
  BY <1>16, TokenParity DEF PauseAcknowledged, slotVars, tokenVars, commandVars, dspVars,
      callerVars, FrontierInv, TypeOK, TokenInv, ParkInv, ControlInv
<1>17. ASSUME PauseTimeout PROVE FrontierInv'
  BY <1>17, TokenParity DEF PauseTimeout, RequestTransition, slotVars, commandVars, dspVars,
      callerVars, FrontierInv, TypeOK, TokenInv, ParkInv, ControlInv
<1>18. ASSUME BeginResume PROVE FrontierInv'
  BY <1>18, TokenParity DEF BeginResume, RequestTransition, slotVars, commandVars, dspVars,
      callerVars, FrontierInv, TypeOK, TokenInv, ParkInv, ControlInv
<1>19. ASSUME ResumeAcknowledged PROVE FrontierInv'
  BY <1>19, TokenParity DEF ResumeAcknowledged, slotVars, tokenVars, commandVars, dspVars,
      callerVars, FrontierInv, TypeOK, TokenInv, ParkInv, ControlInv
<1>20. ASSUME ResumeTimeout PROVE FrontierInv'
  BY <1>20, TokenParity DEF ResumeTimeout, slotVars, tokenVars, commandVars, dspVars,
      callerVars, FrontierInv, TypeOK, TokenInv, ParkInv, ControlInv
<1>21. ASSUME JoinWorker PROVE FrontierInv'
  BY <1>21, TokenParity DEF JoinWorker, slotVars, tokenVars, commandVars, dspVars, callerVars,
      FrontierInv, TypeOK, TokenInv, ParkInv, ControlInv
<1>22. ASSUME CloseEngine PROVE FrontierInv'
  BY <1>22, TokenParity DEF CloseEngine, slotVars, tokenVars, commandVars, dspVars, callerVars,
      FrontierInv, TypeOK, TokenInv, ParkInv, ControlInv
<1>23. ASSUME BeginBlock \/ AcquireSlot \/ PublishBlock \/ CollectBlock \/ MissDeadline \/
            RequestShutdown PROVE FrontierInv'
  BY <1>23, TokenParity DEF BeginBlock, slotVars, tokenVars, commandVars, dspVars, controlVars,
      AcquireSlot, PublishBlock, CollectBlock, Return, MissDeadline, RequestShutdown,
      callerVars, FrontierInv, TypeOK, TokenInv, ParkInv, ControlInv
<1>24. ASSUME UNCHANGED vars PROVE FrontierInv'
  BY <1>24 DEF vars, slotVars, tokenVars, commandVars, dspVars, controlVars, callerVars,
      FrontierInv, TypeOK, TokenInv, ParkInv, ControlInv
<1> QED BY <1>1, <1>2, <1>3, <1>4, <1>5, <1>6, <1>7, <1>8, <1>9, <1>10, <1>11, <1>12, <1>13,
    <1>14, <1>15, <1>16, <1>17, <1>18, <1>19, <1>20, <1>21, <1>22, <1>23, <1>24 DEF Next,
    CallerStep, DspStep, ControlStep

(* Slots change hands one owner at a time. *)
LEMMA SlotStep ==
  ASSUME TypeOK, SlotInv, [Next]_vars
  PROVE  SlotInv'
<1>1. ASSUME BeginBlock PROVE SlotInv'
  BY <1>1 DEF BeginBlock, slotVars, tokenVars, commandVars, dspVars, controlVars, SlotInv,
      WetIsOwnBlock, TypeOK, SlotIndex
<1>2. ASSUME AcquireSlot PROVE SlotInv'
  BY <1>2 DEF AcquireSlot, tokenVars, commandVars, dspVars, controlVars, SlotInv, WetIsOwnBlock,
      TypeOK, SlotIndex
<1>3. ASSUME PublishBlock PROVE SlotInv'
  BY <1>3 DEF PublishBlock, tokenVars, commandVars, dspVars, controlVars, SlotInv,
      WetIsOwnBlock, TypeOK, SlotIndex
<1>4. ASSUME CollectBlock PROVE SlotInv'
  BY <1>4 DEF CollectBlock, Return, tokenVars, commandVars, dspVars, controlVars, SlotInv,
      WetIsOwnBlock, TypeOK, SlotIndex
<1>5. ASSUME MissDeadline PROVE SlotInv'
  BY <1>5 DEF MissDeadline, Return, tokenVars, commandVars, dspVars, controlVars, SlotInv,
      WetIsOwnBlock, TypeOK, SlotIndex
<1>6. ASSUME ReadTransition PROVE SlotInv'
  BY <1>6 DEF ReadTransition, slotVars, tokenVars, commandVars, controlVars, callerVars,
      SlotInv, WetIsOwnBlock, TypeOK, SlotIndex
<1>7. ASSUME AcknowledgeRun PROVE SlotInv'
  BY <1>7 DEF AcknowledgeRun, slotVars, commandVars, controlVars, callerVars, SlotInv,
      WetIsOwnBlock, TypeOK, SlotIndex
<1>8. ASSUME Settle PROVE SlotInv'
  BY <1>8 DEF Settle, slotVars, tokenVars, controlVars, callerVars, SlotInv, WetIsOwnBlock,
      TypeOK, SlotIndex
<1>9. ASSUME ConfirmPause PROVE SlotInv'
  BY <1>9 DEF ConfirmPause, slotVars, tokenVars, commandVars, controlVars, callerVars, SlotInv,
      WetIsOwnBlock, TypeOK, SlotIndex
<1>10. ASSUME AcknowledgePause PROVE SlotInv'
  BY <1>10 DEF AcknowledgePause, slotVars, commandVars, controlVars, callerVars, SlotInv,
      WetIsOwnBlock, TypeOK, SlotIndex
<1>11. ASSUME PausedReadTransition PROVE SlotInv'
  BY <1>11 DEF PausedReadTransition, slotVars, tokenVars, commandVars, controlVars, callerVars,
      SlotInv, WetIsOwnBlock, TypeOK, SlotIndex
<1>12. ASSUME AcknowledgeAgain PROVE SlotInv'
  BY <1>12 DEF AcknowledgeAgain, slotVars, commandVars, controlVars, callerVars, SlotInv,
      WetIsOwnBlock, TypeOK, SlotIndex
<1>13. ASSUME ParkedWait PROVE SlotInv'
  BY <1>13 DEF ParkedWait, slotVars, tokenVars, commandVars, controlVars, callerVars, SlotInv,
      WetIsOwnBlock, TypeOK, SlotIndex
<1>14. ASSUME AcknowledgeResume PROVE SlotInv'
  BY <1>14 DEF AcknowledgeResume, slotVars, commandVars, controlVars, callerVars, SlotInv,
      WetIsOwnBlock, TypeOK, SlotIndex
<1>15. ASSUME Wake PROVE SlotInv'
  BY <1>15 DEF Wake, slotVars, tokenVars, commandVars, controlVars, callerVars, SlotInv,
      WetIsOwnBlock, TypeOK, SlotIndex
<1>16. ASSUME ScanSlot PROVE SlotInv'
  BY <1>16 DEF ScanSlot, tokenVars, commandVars, controlVars, callerVars, SlotInv,
      WetIsOwnBlock, TypeOK, SlotIndex
<1>17. ASSUME ProcessBlock PROVE SlotInv'
  BY <1>17 DEF ProcessBlock, tokenVars, controlVars, callerVars, SlotInv, WetIsOwnBlock, TypeOK,
      SlotIndex
<1>18. ASSUME DrainCommands PROVE SlotInv'
  BY <1>18 DEF DrainCommands, slotVars, tokenVars, controlVars, callerVars, SlotInv,
      WetIsOwnBlock, TypeOK, SlotIndex
<1>19. ASSUME PushCommand \/ BeginPause \/ RequestShutdown \/ PauseAcknowledged \/ PauseTimeout \/
            BeginResume \/ ResumeAcknowledged \/ ResumeTimeout \/ JoinWorker \/ CloseEngine PROVE
            SlotInv'
  BY <1>19 DEF PushCommand, slotVars, tokenVars, dspVars, controlVars, callerVars, BeginPause,
      RequestTransition, commandVars, RequestShutdown, PauseAcknowledged, PauseTimeout,
      BeginResume, ResumeAcknowledged, ResumeTimeout, JoinWorker, CloseEngine, SlotInv,
      WetIsOwnBlock, TypeOK, SlotIndex
<1>20. ASSUME UNCHANGED vars PROVE SlotInv'
  BY <1>20 DEF vars, slotVars, tokenVars, commandVars, dspVars, controlVars, callerVars,
      SlotInv, WetIsOwnBlock, TypeOK, SlotIndex
<1> QED BY <1>1, <1>2, <1>3, <1>4, <1>5, <1>6, <1>7, <1>8, <1>9, <1>10, <1>11, <1>12, <1>13,
    <1>14, <1>15, <1>16, <1>17, <1>18, <1>19, <1>20 DEF Next, CallerStep, DspStep, ControlStep

(* The scan of the caller loses sight of no busy slot. *)
LEMMA ClaimStep ==
  ASSUME TypeOK, SlotInv, ClaimInv, [Next]_vars
  PROVE  ClaimInv'
<1>1. ASSUME BeginBlock PROVE ClaimInv'
  BY <1>1 DEF BeginBlock, slotVars, tokenVars, commandVars, dspVars, controlVars, ClaimInv,
      SlotInv, TypeOK, SlotIndex
<1>2. ASSUME AcquireSlot PROVE ClaimInv'
  BY <1>2 DEF AcquireSlot, tokenVars, commandVars, dspVars, controlVars, ClaimInv, SlotInv,
      TypeOK, SlotIndex
<1>3. ASSUME PublishBlock PROVE ClaimInv'
  BY <1>3 DEF PublishBlock, tokenVars, commandVars, dspVars, controlVars, ClaimInv, SlotInv,
      TypeOK, SlotIndex
<1>4. ASSUME CollectBlock PROVE ClaimInv'
  BY <1>4 DEF CollectBlock, Return, tokenVars, commandVars, dspVars, controlVars, ClaimInv,
      SlotInv, TypeOK, SlotIndex
<1>5. ASSUME MissDeadline PROVE ClaimInv'
  BY <1>5 DEF MissDeadline, Return, tokenVars, commandVars, dspVars, controlVars, ClaimInv,
      SlotInv, TypeOK, SlotIndex
<1>6. ASSUME ScanSlot PROVE ClaimInv'
  BY <1>6 DEF ScanSlot, tokenVars, commandVars, controlVars, callerVars, ClaimInv, SlotInv,
      TypeOK, SlotIndex
<1>7. ASSUME ProcessBlock PROVE ClaimInv'
  BY <1>7 DEF ProcessBlock, tokenVars, controlVars, callerVars, ClaimInv, SlotInv, TypeOK,
      SlotIndex
<1>8. ASSUME ReadTransition \/ AcknowledgeRun \/ Settle \/ ConfirmPause \/ AcknowledgePause \/
            PausedReadTransition \/ AcknowledgeAgain \/ ParkedWait \/ AcknowledgeResume \/ Wake \/
            DrainCommands \/ PushCommand \/ BeginPause \/ RequestShutdown \/ PauseAcknowledged \/
            PauseTimeout \/ BeginResume \/ ResumeAcknowledged \/ ResumeTimeout \/ JoinWorker \/
            CloseEngine PROVE ClaimInv'
  BY <1>8 DEF ReadTransition, slotVars, tokenVars, commandVars, controlVars, callerVars,
      AcknowledgeRun, Settle, ConfirmPause, AcknowledgePause, PausedReadTransition,
      AcknowledgeAgain, ParkedWait, AcknowledgeResume, Wake, DrainCommands, PushCommand,
      dspVars, BeginPause, RequestTransition, RequestShutdown, PauseAcknowledged,
      PauseTimeout, BeginResume, ResumeAcknowledged, ResumeTimeout, JoinWorker, CloseEngine,
      ClaimInv, SlotInv, TypeOK, SlotIndex
<1>9. ASSUME UNCHANGED vars PROVE ClaimInv'
  BY <1>9 DEF vars, slotVars, tokenVars, commandVars, dspVars, controlVars, callerVars,
      ClaimInv, SlotInv, TypeOK, SlotIndex
<1> QED BY <1>1, <1>2, <1>3, <1>4, <1>5, <1>6, <1>7, <1>8, <1>9 DEF Next, CallerStep, DspStep,
    ControlStep

(* The initial state has every part of the invariant. *)
LEMMA InitHolds == Init => SafetyInv
<1> SUFFICES ASSUME Init PROVE SafetyInv
  OBVIOUS
<1>1. 0 \in Sequence /\ 1 \in SlotIndex /\ 1 \in 1 .. SlotCount + 1 /\ 0 <= Capacity
  BY DEF Sequence, SlotIndex
<1>2. TypeOK
  <2>1. /\ pushed \in Nat /\ popped \in Nat /\ applied \in Nat
        /\ applied <= popped /\ popped <= pushed /\ pushed - popped <= Capacity
        /\ requested \in Nat /\ acknowledged \in Nat /\ generation \in Nat /\ seen \in Nat
        /\ token \in Nat
    BY <1>1 DEF Init
  <2>2. /\ index \in 1 .. SlotCount + 1 /\ mine \in SlotIndex /\ next_sequence \in Sequence
        /\ block \in Sequence \cup {NoBlock}
    BY <1>1 DEF Init
  <2>3. /\ state \in [SlotIndex -> {"Free", "Claimed", "Ready", "Processing", "Done"}]
        /\ input \in [SlotIndex -> Sequence \cup {NoBlock}]
        /\ output \in [SlotIndex -> Sequence \cup {NoBlock}]
        /\ result \in [SlotIndex -> {"Ok", "VstProcessError"}]
    BY DEF Init
  <2>4. /\ dsp_event \in BOOLEAN /\ shutdown \in BOOLEAN /\ processed_any \in BOOLEAN
        /\ late \in BOOLEAN
    BY DEF Init
  <2>5. /\ dsp \in DspSteps /\ dsp # "process" /\ control \in ControlSteps
        /\ caller \in {"idle", "claim", "write", "wait"}
    BY DEF Init, DspSteps, ControlSteps
  <2> QED BY <2>1, <2>2, <2>3, <2>4, <2>5 DEF TypeOK
<1>3. SlotInv /\ ClaimInv
  BY DEF Init, SlotInv, WetIsOwnBlock, ClaimInv
<1>4. TokenInv /\ ParkInv /\ ControlInv /\ FrontierInv
  BY DEF Init, TokenInv, ParkInv, ControlInv, FrontierInv, RequestsPause
<1> QED BY <1>2, <1>3, <1>4 DEF SafetyInv

(* The invariant is inductive: it needs no fact about earlier states. *)
LEMMA StepHolds == SafetyInv /\ [Next]_vars => SafetyInv'
BY TypeStep, TokenStep, ParkStep, ControlStepInv, FrontierStep, SlotStep, ClaimStep DEF SafetyInv

(* Every reachable state of the realtime path, for every number of slots,   *)
(* commands and requests, has the inductive invariant.                      *)
THEOREM HostSafety == Spec => []SafetyInv
BY InitHolds, StepHolds, PTL DEF Spec

(* The variables stay in range: slots, tokens and ring of DspWorker, for any *)
(* number of each.                                                          *)
THEOREM HostTypes == Spec => []TypeOK
<1>1. SafetyInv => TypeOK
  BY DEF SafetyInv
<1> QED BY <1>1, HostSafety, PTL

(* A worker inside the engine has acknowledged a run last, and a control    *)
(* thread that has a pause has had exactly that pause acknowledged.         *)
LEMMA ExclusiveInState == SafetyInv => EngineExclusive
BY DEF SafetyInv, ParkInv, ControlInv, EngineExclusive, DspInEngine, ControlInEngine

(* The vendor's processor is never entered by the worker and the control    *)
(* thread at once (DspWorker::run, pause, resume and wmain).                *)
THEOREM HostEngineExclusive == Spec => []EngineExclusive
BY HostSafety, ExclusiveInState, PTL

(* WinObsBridge::process returns wet samples of its own block only.         *)
THEOREM HostWetIsOwnBlock == Spec => []WetIsOwnBlock
<1>1. SafetyInv => WetIsOwnBlock
  BY DEF SafetyInv, SlotInv
<1> QED BY <1>1, HostSafety, PTL

(* acquire_slot finds a slot whenever it gets to the last one, because the  *)
(* worker is busy with one slot only and the caller has published none.     *)
THEOREM HostSlotLeft == Spec => []SlotLeft
<1>1. SafetyInv => SlotLeft
  <2> SUFFICES ASSUME SafetyInv, caller = "claim", mine = SlotCount
               PROVE  state[mine] \in {"Free", "Done"}
    BY DEF SlotLeft
  <2>1. mine \in SlotIndex /\ mine > 1
    BY DEF SafetyInv, TypeOK, SlotIndex
  <2>2. state[mine] # "Processing"
    BY <2>1 DEF SafetyInv, ClaimInv, SlotIndex
  <2>3. state[mine] \in {"Free", "Claimed", "Ready", "Processing", "Done"}
    BY <2>1 DEF SafetyInv, TypeOK
  <2>4. state[mine] \notin {"Claimed", "Ready"}
    BY <2>1 DEF SafetyInv, SlotInv
  <2> QED BY <2>2, <2>3, <2>4
<1> QED BY <1>1, HostSafety, PTL

(* DspWorker::run never takes a block whose deadline has passed.            *)
THEOREM HostProcessesNewest == Spec => ProcessesNewest
<1>1. SafetyInv => \A s \in SlotIndex : (state[s] = "Ready" /\ state'[s] = "Processing")
                                           => (caller = "wait" /\ mine = s)
  BY DEF SafetyInv, SlotInv
<1> QED BY <1>1, HostSafety, PTL DEF ProcessesNewest

(* A pause granted with no late answer before it finds every queued command *)
(* in the plug-in: acknowledging a pause follows the drain of that pause.   *)
THEOREM HostFrontierUnlessLate == Spec => FrontierUnlessLate
<1>1. SafetyInv /\ [Next]_vars
        => ((control = "wait_pause" /\ control' = "paused" /\ ~late) => applied = pushed)
  <2> SUFFICES ASSUME SafetyInv, [Next]_vars, control = "wait_pause", control' = "paused", ~late
               PROVE  applied = pushed
    OBVIOUS
  <2>1. acknowledged = token
    BY DEF Next, vars, CallerStep, DspStep, ControlStep, controlVars,
        BeginBlock, AcquireSlot, PublishBlock, CollectBlock, MissDeadline, ReadTransition,
        AcknowledgeRun, Settle, ConfirmPause, AcknowledgePause, PausedReadTransition,
        AcknowledgeAgain, ParkedWait, AcknowledgeResume, Wake, ScanSlot, ProcessBlock,
        DrainCommands, PushCommand, BeginPause, RequestShutdown, PauseAcknowledged,
        PauseTimeout, BeginResume, ResumeAcknowledged, ResumeTimeout, JoinWorker, CloseEngine,
        Return, RequestTransition
  <2>2. RequestsPause(acknowledged)
    BY <2>1, Zenon DEF SafetyInv, ControlInv
  <2> QED BY <2>2 DEF SafetyInv, FrontierInv
<1> QED BY <1>1, HostSafety, PTL DEF FrontierUnlessLate, Spec

(* Whatever the tokens do, the engine passes between the two threads as a    *)
(* lock does: it is taken when free and given back by its owner.            *)
THEOREM HostEngineIsLocked == Spec => EngineIsLocked
<1>1. Init => Lock!Init
  BY DEF Init, Lock!Init, EngineOwner, DspInEngine, ControlInEngine
<1>2. SafetyInv /\ SafetyInv' /\ [Next]_vars => [Lock!Next]_EngineOwner
  <2> SUFFICES ASSUME SafetyInv, SafetyInv', [Next]_vars
               PROVE  [Lock!Next]_EngineOwner
    OBVIOUS
  <2>1. EngineExclusive /\ EngineExclusive'
    BY ExclusiveInState, PTL
  <2>2. UNCHANGED dsp \/ UNCHANGED control
    BY DEF Next, vars, CallerStep, DspStep, ControlStep, dspVars, controlVars,
        BeginBlock, AcquireSlot, PublishBlock, CollectBlock, MissDeadline, ReadTransition,
        AcknowledgeRun, Settle, ConfirmPause, AcknowledgePause, PausedReadTransition,
        AcknowledgeAgain, ParkedWait, AcknowledgeResume, Wake, ScanSlot, ProcessBlock,
        DrainCommands, PushCommand, BeginPause, RequestShutdown, PauseAcknowledged,
        PauseTimeout, BeginResume, ResumeAcknowledged, ResumeTimeout, JoinWorker, CloseEngine,
        Return, RequestTransition
  <2>3. CASE UNCHANGED dsp
    BY <2>1, <2>3 DEF EngineExclusive, EngineOwner, DspInEngine, ControlInEngine, Lock!Next,
        Lock!Acquire, Lock!Release
  <2>4. CASE UNCHANGED control
    BY <2>1, <2>4 DEF EngineExclusive, EngineOwner, DspInEngine, ControlInEngine, Lock!Next,
        Lock!Acquire, Lock!Release
  <2> QED BY <2>2, <2>3, <2>4
<1> QED BY <1>1, <1>2, HostSafety, PTL DEF Spec, EngineIsLocked, Lock!Spec
=============================================================================
