----------------------------- MODULE HostAudio -----------------------------
(***************************************************************************)
(* The realtime path of the Single Host.  Three threads share the engine    *)
(* and the audio slots of one helper:                                       *)
(*   - the OBS audio thread in WinObsBridge::process (win_ipc.cpp), which    *)
(*     hands a block over in a slot and waits for it up to a deadline;       *)
(*   - DspWorker::run (host/main.cpp), which processes the slots, drains the *)
(*     processor commands and parks itself while the control thread needs    *)
(*     the engine;                                                          *)
(*   - the control thread (wmain), which queues commands and pauses the      *)
(*     worker for state requests, resynchronisation and restarts.            *)
(*                                                                          *)
(* Samples, parameters and plug-in state are not modelled: a block is its    *)
(* sequence number, a command its position in the stream of commands, and a  *)
(* deadline or a timeout may pass at any moment.  A store and the SetEvent    *)
(* that announces it are one step: every wait has a timeout, and a signal    *)
(* that comes late only causes a wake-up that finds nothing new.             *)
(***************************************************************************)
EXTENDS Naturals

CONSTANTS
    SlotCount,      \* kSlotCount
    SequenceModulus,\* 2^32 in the code: next_sequence_ wraps
    Capacity,       \* kParameterTransferCapacity
    PerWake,        \* kMaxProcessorCommandsPerWake
    MaxCommands,    \* bound: the commands the control thread queues
    MaxGeneration   \* bound: next_transition_generation_

ASSUME SlotCountAssumption == SlotCount \in Nat \ {0, 1}
ASSUME SequenceAssumption == SequenceModulus \in Nat \ {0}
ASSUME CapacityAssumption == Capacity \in Nat \ {0}
ASSUME PerWakeAssumption == PerWake \in Nat \ {0}
ASSUME BoundsAssumption == MaxCommands \in Nat /\ MaxGeneration \in Nat

SlotIndex == 1 .. SlotCount
Sequence == 0 .. SequenceModulus - 1
NoBlock == SequenceModulus

VARIABLES
    state,        \* AudioSlot::state
    input,        \* the block in AudioSlot::input, until the worker takes it
    output,       \* the block AudioSlot::output was computed from, until it is collected
    result,       \* AudioSlot::result
    dsp_event,    \* auto-reset
    shutdown,     \* shutdown_requested, or the stop token of the worker
    requested,    \* requested_transition_
    acknowledged, \* acknowledged_transition_
    generation,   \* next_transition_generation_
    pushed,       \* commands pushed to control_to_dsp,
    popped,       \* popped from it and given to queue_processor_parameter,
    applied,      \* and handed to the plug-in by a process call
    dsp,          \* the next step of DspWorker::run
    seen,         \* the token it has read
    index,        \* i of its slot loop
    processed_any,
    block,        \* the block engine.process is working on
    control,      \* the next step of the control thread
    token,        \* the token it waits for
    late,         \* a pause or a resume has timed out since the last one that was resumed
    caller,       \* the next step of WinObsBridge::process
    mine,         \* the slot it tries or owns
    next_sequence \* of the block at hand, else of the next one

slotVars == <<state, input, output, result>>
tokenVars == <<requested, acknowledged, generation>>
commandVars == <<pushed, popped, applied>>
dspVars == <<dsp, seen, index, processed_any, block>>
controlVars == <<control, token, late>>
callerVars == <<caller, mine, next_sequence>>
vars == <<slotVars, dsp_event, shutdown, tokenVars, commandVars, dspVars, controlVars, callerVars>>

Token(g, paused) == 2 * g + (IF paused THEN 1 ELSE 0)
RequestsPause(t) == t % 2 = 1

Smaller(a, b) == IF a < b THEN a ELSE b

Init ==
    /\ state = [s \in SlotIndex |-> "Free"]
    /\ input = [s \in SlotIndex |-> NoBlock]
    /\ output = [s \in SlotIndex |-> NoBlock]
    /\ result = [s \in SlotIndex |-> "Ok"]
    /\ dsp_event = FALSE
    /\ shutdown = FALSE
    /\ requested = 0
    /\ acknowledged = 0
    /\ generation = 1
    /\ pushed = 0
    /\ popped = 0
    /\ applied = 0
    /\ dsp = "top"
    /\ seen = 0
    /\ index = 1
    /\ processed_any = FALSE
    /\ block = NoBlock
    /\ control = "idle"
    /\ token = 0
    /\ late = FALSE
    /\ caller = "idle"
    /\ mine = 1
    /\ next_sequence = 0

-----------------------------------------------------------------------------
(* The OBS audio thread. *)

BeginBlock ==
    /\ caller = "idle"
    /\ caller' = "claim"
    /\ UNCHANGED <<slotVars, dsp_event, shutdown, tokenVars, commandVars, dspVars, controlVars,
                   mine, next_sequence>>

(* Mutant: a slot whose late answer nobody collected is not taken again. *)
ClaimFreeOnly ==
    /\ caller = "claim"
    /\ \/ /\ state[mine] = "Free"
          /\ state' = [state EXCEPT ![mine] = "Claimed"]
          /\ caller' = "write"
          /\ UNCHANGED mine
       \/ /\ state[mine] # "Free"
          /\ caller' = IF mine = SlotCount THEN "idle" ELSE "claim"
          /\ mine' = IF mine = SlotCount THEN 1 ELSE mine + 1
          /\ UNCHANGED state
    /\ UNCHANGED <<input, output, result, dsp_event, shutdown, tokenVars, commandVars, dspVars,
                   controlVars, next_sequence>>

(* One turn of acquire_slot.  Without a slot the block stays dry. *)
AcquireSlot ==
    /\ caller = "claim"
    /\ \/ /\ state[mine] \in {"Free", "Done"}
          /\ state' = [state EXCEPT ![mine] = "Claimed"]
          /\ output' = [output EXCEPT ![mine] = NoBlock]
          /\ caller' = "write"
          /\ UNCHANGED mine
       \/ /\ state[mine] \notin {"Free", "Done"}
          /\ caller' = IF mine = SlotCount THEN "idle" ELSE "claim"
          /\ mine' = IF mine = SlotCount THEN 1 ELSE mine + 1
          /\ UNCHANGED <<state, output>>
    /\ UNCHANGED <<input, result, dsp_event, shutdown, tokenVars, commandVars, dspVars,
                   controlVars, next_sequence>>

(* The slot is filled and published, and the worker woken. *)
PublishBlock ==
    /\ caller = "write"
    /\ input' = [input EXCEPT ![mine] = next_sequence]
    /\ result' = [result EXCEPT ![mine] = "Ok"]
    /\ state' = [state EXCEPT ![mine] = "Ready"]
    /\ dsp_event' = TRUE
    /\ caller' = "wait"
    /\ UNCHANGED <<output, shutdown, tokenVars, commandVars, dspVars, controlVars,
                   mine, next_sequence>>

(* process returns; the next block has the next number. *)
Return ==
    /\ caller' = "idle"
    /\ mine' = 1
    /\ next_sequence' = (next_sequence + 1) % SequenceModulus
    /\ UNCHANGED <<dsp_event, shutdown, tokenVars, commandVars, dspVars, controlVars>>

(* Wet output, or dry when the plug-in failed on the block. *)
CollectBlock ==
    /\ caller = "wait"
    /\ state[mine] = "Done"
    /\ state' = [state EXCEPT ![mine] = "Free"]
    /\ output' = [output EXCEPT ![mine] = NoBlock]
    /\ Return
    /\ UNCHANGED <<input, result>>

(* Mutant: the slot is freed whoever has it by now. *)
FreeAtDeadline ==
    /\ caller = "wait"
    /\ state' = [state EXCEPT ![mine] = "Free"]
    /\ Return
    /\ UNCHANGED <<input, output, result>>

(* Mutant: the block that missed its deadline stays published. *)
LeaveAtDeadline ==
    /\ caller = "wait"
    /\ Return
    /\ UNCHANGED slotVars

(* The deadline withdraws the block only when the worker has not taken it. *)
MissDeadline ==
    /\ caller = "wait"
    /\ \/ /\ state[mine] = "Ready"
          /\ state' = [state EXCEPT ![mine] = "Free"]
          /\ input' = [input EXCEPT ![mine] = NoBlock]
       \/ state[mine] # "Ready" /\ UNCHANGED <<state, input>>
    /\ Return
    /\ UNCHANGED <<output, result>>

-----------------------------------------------------------------------------
(* DspWorker::run. *)

(* The outer loop head reads the requested token once. *)
ReadTransition ==
    /\ dsp = "top"
    /\ \/ /\ shutdown
          /\ dsp' = "exited"
          /\ UNCHANGED seen
       \/ /\ ~shutdown
          /\ seen' = requested
          /\ dsp' = IF requested = acknowledged THEN "wait"
                    ELSE IF RequestsPause(requested) THEN "settle" ELSE "ack_run"
    /\ UNCHANGED <<slotVars, dsp_event, shutdown, tokenVars, commandVars, index, processed_any,
                   block, controlVars, callerVars>>

AcknowledgeRun ==
    /\ dsp = "ack_run"
    /\ acknowledged' = seen
    /\ dsp' = "wait"
    /\ UNCHANGED <<slotVars, dsp_event, shutdown, requested, generation, commandVars,
                   seen, index, processed_any, block, controlVars, callerVars>>

(* Mutant: the pause flushes what the engine has and leaves the ring alone. *)
SettleWithoutDrain ==
    /\ dsp = "settle"
    /\ applied' = popped
    /\ dsp' = "confirm"
    /\ UNCHANGED <<slotVars, dsp_event, shutdown, tokenVars, pushed, popped,
                   seen, index, processed_any, block, controlVars, callerVars>>

(* Before a pause every queued command is drained and flushed. *)
Settle ==
    /\ dsp = "settle"
    /\ \/ /\ popped' = pushed
          /\ applied' = pushed
          /\ dsp' = "confirm"
          /\ UNCHANGED shutdown
       \/ /\ shutdown' = TRUE
          /\ dsp' = "exited"
          /\ UNCHANGED <<popped, applied>>
    /\ UNCHANGED <<slotVars, dsp_event, tokenVars, pushed,
                   seen, index, processed_any, block, controlVars, callerVars>>

ConfirmPause ==
    /\ dsp = "confirm"
    /\ dsp' = IF requested = seen THEN "ack_pause" ELSE "top"
    /\ UNCHANGED <<slotVars, dsp_event, shutdown, tokenVars, commandVars,
                   seen, index, processed_any, block, controlVars, callerVars>>

AcknowledgePause ==
    /\ dsp = "ack_pause"
    /\ acknowledged' = seen
    /\ dsp' = "paused"
    /\ UNCHANGED <<slotVars, dsp_event, shutdown, requested, generation, commandVars,
                   seen, index, processed_any, block, controlVars, callerVars>>

(* Mutant: any new token ends the pause. *)
LeaveOnAnyToken ==
    /\ dsp = "paused"
    /\ seen' = requested
    /\ dsp' = IF requested = acknowledged THEN "parked" ELSE "ack_resume"
    /\ UNCHANGED <<slotVars, dsp_event, shutdown, tokenVars, commandVars,
                   index, processed_any, block, controlVars, callerVars>>

(* The loop head of the paused worker.  A newer pause request is            *)
(* acknowledged from here, without another drain.                           *)
PausedReadTransition ==
    /\ dsp = "paused"
    /\ \/ /\ shutdown
          /\ dsp' = "top"
          /\ UNCHANGED seen
       \/ /\ ~shutdown
          /\ seen' = requested
          /\ dsp' = IF requested = acknowledged THEN "parked"
                    ELSE IF RequestsPause(requested) THEN "ack_again" ELSE "ack_resume"
    /\ UNCHANGED <<slotVars, dsp_event, shutdown, tokenVars, commandVars, index, processed_any,
                   block, controlVars, callerVars>>

AcknowledgeAgain ==
    /\ dsp = "ack_again"
    /\ acknowledged' = seen
    /\ dsp' = "parked"
    /\ UNCHANGED <<slotVars, dsp_event, shutdown, requested, generation, commandVars,
                   seen, index, processed_any, block, controlVars, callerVars>>

(* Up to 100 ms on dsp_event, whose signal this wait consumes. *)
ParkedWait ==
    /\ dsp = "parked"
    /\ dsp_event' = FALSE
    /\ dsp' = "paused"
    /\ UNCHANGED <<slotVars, shutdown, tokenVars, commandVars,
                   seen, index, processed_any, block, controlVars, callerVars>>

AcknowledgeResume ==
    /\ dsp = "ack_resume"
    /\ acknowledged' = seen
    /\ dsp' = "top"
    /\ UNCHANGED <<slotVars, dsp_event, shutdown, requested, generation, commandVars,
                   seen, index, processed_any, block, controlVars, callerVars>>

(* The 250 ms wait of the running worker, after which the stop token of    *)
(* JoinWorker ends it at once.                                              *)
Wake ==
    /\ dsp = "wait"
    /\ \/ dsp' = IF dsp_event THEN "scan" ELSE "top"
       \/ shutdown /\ dsp' = "exited"
    /\ dsp_event' = FALSE
    /\ UNCHANGED <<slotVars, shutdown, tokenVars, commandVars, seen, index, processed_any, block,
                   controlVars, callerVars>>

(* One turn of the slot loop. *)
ScanSlot ==
    /\ dsp = "scan"
    /\ \/ /\ index > SlotCount
          /\ dsp' = "drain"
          /\ UNCHANGED <<state, input, index, processed_any, block>>
       \/ /\ index \in SlotIndex
          /\ state[index] = "Ready"
          /\ state' = [state EXCEPT ![index] = "Processing"]
          /\ input' = [input EXCEPT ![index] = NoBlock]
          /\ block' = input[index]
          /\ processed_any' = TRUE
          /\ dsp' = "process"
          /\ UNCHANGED index
       \/ /\ index \in SlotIndex
          /\ state[index] # "Ready"
          /\ index' = index + 1
          /\ UNCHANGED <<state, input, processed_any, block, dsp>>
    /\ UNCHANGED <<output, result, dsp_event, shutdown, tokenVars, commandVars,
                   seen, controlVars, callerVars>>

(* Mutant: a wake-up that had a block to process drains no command. *)
ProcessAndWait ==
    /\ dsp = "process"
    /\ applied' = popped
    /\ output' = [output EXCEPT ![index] = block]
    /\ state' = [state EXCEPT ![index] = "Done"]
    /\ dsp' = "top"
    /\ index' = 1
    /\ processed_any' = FALSE
    /\ block' = NoBlock
    /\ UNCHANGED <<input, result, dsp_event, shutdown, tokenVars, pushed, popped,
                   seen, controlVars, callerVars>>

(* engine.process, which takes the parameters queued so far, and the answer. *)
(* A failure taints the helper and ends the worker.                          *)
ProcessBlock ==
    /\ dsp = "process"
    /\ state' = [state EXCEPT ![index] = "Done"]
    /\ block' = NoBlock
    /\ \/ /\ applied' = popped
          /\ output' = [output EXCEPT ![index] = block]
          /\ index' = index + 1
          /\ dsp' = "scan"
          /\ UNCHANGED <<result, shutdown>>
       \/ /\ result' = [result EXCEPT ![index] = "VstProcessError"]
          /\ shutdown' = TRUE
          /\ dsp' = "exited"
          /\ UNCHANGED <<applied, output, index>>
    /\ UNCHANGED <<input, dsp_event, tokenVars, pushed, popped, seen, processed_any,
                   controlVars, callerVars>>

(* A bounded share of the ring; a zero-sample flush when the wake-up had no *)
(* block, and another wake-up when the share was used up.                   *)
DrainCommands ==
    /\ dsp = "drain"
    /\ \/ LET drained == Smaller(pushed - popped, PerWake)
          IN /\ popped' = popped + drained
             /\ applied' = IF drained > 0 /\ ~processed_any THEN popped + drained ELSE applied
             /\ dsp_event' = (dsp_event \/ drained = PerWake)
             /\ dsp' = "top"
             /\ UNCHANGED shutdown
       \/ /\ pushed > popped
          /\ shutdown' = TRUE
          /\ dsp' = "exited"
          /\ UNCHANGED <<popped, applied, dsp_event>>
    /\ index' = 1
    /\ processed_any' = FALSE
    /\ UNCHANGED <<slotVars, tokenVars, pushed, seen, block, controlVars, callerVars>>

-----------------------------------------------------------------------------
(* The control thread. *)

(* request_transition. *)
RequestTransition(paused, step) ==
    /\ generation < MaxGeneration
    /\ generation' = generation + 1
    /\ requested' = Token(generation, paused)
    /\ token' = Token(generation, paused)
    /\ dsp_event' = TRUE
    /\ control' = step
    /\ UNCHANGED <<slotVars, shutdown, acknowledged, commandVars, dspVars, callerVars>>

(* Mutant: the ring takes one item too many. *)
PushPastCapacity ==
    /\ control \in {"idle", "paused"}
    /\ pushed < MaxCommands
    /\ pushed - popped <= Capacity
    /\ pushed' = pushed + 1
    /\ dsp_event' = TRUE
    /\ UNCHANGED <<slotVars, shutdown, tokenVars, popped, applied, dspVars, controlVars, callerVars>>

(* A host parameter, or performEdit called by the vendor's controller: from *)
(* the message loop, or while the control thread works on the paused engine. *)
PushCommand ==
    /\ control \in {"idle", "paused"}
    /\ pushed < MaxCommands
    /\ pushed - popped < Capacity
    /\ pushed' = pushed + 1
    /\ dsp_event' = TRUE
    /\ UNCHANGED <<slotVars, shutdown, tokenVars, popped, applied, dspVars, controlVars, callerVars>>

(* The generations left always suffice to end the pause. *)
BeginPause ==
    /\ control = "idle"
    /\ ~shutdown
    /\ generation + 1 < MaxGeneration
    /\ RequestTransition(TRUE, "wait_pause")
    /\ UNCHANGED late

(* Mutant: any acknowledged pause will do. *)
PauseAnyToken ==
    /\ control = "wait_pause"
    /\ RequestsPause(acknowledged)
    /\ control' = "paused"
    /\ UNCHANGED <<slotVars, dsp_event, shutdown, tokenVars, commandVars, dspVars,
                   token, late, callerVars>>

PauseAcknowledged ==
    /\ control = "wait_pause"
    /\ acknowledged = token
    /\ control' = "paused"
    /\ UNCHANGED <<slotVars, dsp_event, shutdown, tokenVars, commandVars, dspVars,
                   token, late, callerVars>>

(* Mutant: the timed-out request is left standing. *)
PauseGivenUp ==
    /\ control = "wait_pause"
    /\ late' = TRUE
    /\ control' = "idle"
    /\ UNCHANGED <<slotVars, dsp_event, shutdown, tokenVars, commandVars, dspVars,
                   token, callerVars>>

(* The worker did not answer in time: the request is withdrawn by a newer one. *)
PauseTimeout ==
    /\ control = "wait_pause"
    /\ late' = TRUE
    /\ RequestTransition(FALSE, "idle")

BeginResume ==
    /\ control = "paused"
    /\ RequestTransition(FALSE, "wait_resume")
    /\ UNCHANGED late

ResumeAcknowledged ==
    /\ control = "wait_resume"
    /\ acknowledged = token
    /\ control' = "idle"
    /\ late' = FALSE
    /\ UNCHANGED <<slotVars, dsp_event, shutdown, tokenVars, commandVars, dspVars,
                   token, callerVars>>

ResumeTimeout ==
    /\ control = "wait_resume"
    /\ late' = TRUE
    /\ control' = "idle"
    /\ UNCHANGED <<slotVars, dsp_event, shutdown, tokenVars, commandVars, dspVars,
                   token, callerVars>>

(* OBS stops the bridge, or a restart transaction fails on the paused       *)
(* engine and asks for recovery without resuming the worker.                *)
RequestShutdown ==
    /\ ~shutdown
    /\ shutdown' = TRUE
    /\ UNCHANGED <<slotVars, dsp_event, tokenVars, commandVars, dspVars, controlVars, callerVars>>

(* wmain leaves its loop, joins the worker and closes the engine. *)
JoinWorker ==
    /\ control \in {"idle", "paused"}
    /\ shutdown
    /\ control' = "join"
    /\ dsp_event' = TRUE
    /\ UNCHANGED <<slotVars, shutdown, tokenVars, commandVars, dspVars,
                   token, late, callerVars>>

CloseEngine ==
    /\ control = "join"
    /\ dsp = "exited"
    /\ control' = "close"
    /\ UNCHANGED <<slotVars, dsp_event, shutdown, tokenVars, commandVars, dspVars,
                   token, late, callerVars>>

-----------------------------------------------------------------------------
CallerStep ==
    \/ AcquireSlot
    \/ PublishBlock
    \/ CollectBlock
    \/ MissDeadline

DspStep ==
    \/ ReadTransition
    \/ AcknowledgeRun
    \/ Settle
    \/ ConfirmPause
    \/ AcknowledgePause
    \/ PausedReadTransition
    \/ AcknowledgeAgain
    \/ ParkedWait
    \/ AcknowledgeResume
    \/ Wake
    \/ ScanSlot
    \/ ProcessBlock
    \/ DrainCommands

(* What the control thread finishes once it has begun it. *)
ControlStep ==
    \/ PauseAcknowledged
    \/ PauseTimeout
    \/ BeginResume
    \/ ResumeAcknowledged
    \/ ResumeTimeout
    \/ JoinWorker
    \/ CloseEngine

Next ==
    \/ BeginBlock
    \/ CallerStep
    \/ DspStep
    \/ PushCommand
    \/ BeginPause
    \/ RequestShutdown
    \/ ControlStep

Spec == Init /\ [][Next]_vars

(* Every wait of the three threads has a timeout, so each goes on running. *)
Fairness ==
    /\ WF_vars(DspStep)
    /\ WF_vars(ControlStep)
    /\ WF_vars(CallerStep)

(* The filter may get no audio: nothing is assumed of BeginBlock. *)
FairSpec == Spec /\ Fairness

-----------------------------------------------------------------------------
DspSteps == {"top", "ack_run", "settle", "confirm", "ack_pause", "paused", "ack_again", "parked",
             "ack_resume", "wait", "scan", "process", "drain", "exited"}
ControlSteps == {"idle", "wait_pause", "paused", "wait_resume", "join", "close"}

TypeOK ==
    /\ state \in [SlotIndex -> {"Free", "Claimed", "Ready", "Processing", "Done"}]
    /\ input \in [SlotIndex -> Sequence \cup {NoBlock}]
    /\ output \in [SlotIndex -> Sequence \cup {NoBlock}]
    /\ result \in [SlotIndex -> {"Ok", "VstProcessError"}]
    /\ dsp_event \in BOOLEAN
    /\ shutdown \in BOOLEAN
    /\ requested \in Nat
    /\ acknowledged \in Nat
    /\ generation \in Nat
    /\ pushed \in Nat
    /\ popped \in Nat
    /\ applied \in Nat
    /\ applied <= popped
    /\ popped <= pushed
    /\ pushed - popped <= Capacity
    /\ dsp \in DspSteps
    /\ seen \in Nat
    /\ index \in 1 .. SlotCount + 1
    /\ dsp = "process" => index \in SlotIndex
    /\ processed_any \in BOOLEAN
    /\ block \in Sequence \cup {NoBlock}
    /\ control \in ControlSteps
    /\ token \in Nat
    /\ late \in BOOLEAN
    /\ caller \in {"idle", "claim", "write", "wait"}
    /\ mine \in SlotIndex
    /\ next_sequence \in Sequence

DspInEngine == dsp \in {"settle", "process", "drain"}
ControlInEngine == control \in {"paused", "close"}

(* The vendor's processor is never entered by both threads, whatever the    *)
(* order of late acknowledgements, withdrawn requests and shutdown          *)
(* (main.cpp 727-779 and 788-845).                                          *)
EngineExclusive == ~(DspInEngine /\ ControlInEngine)

(* A caller that finds its slot answered with Ok gets the output of its own *)
(* block, although earlier blocks were answered after their deadline and    *)
(* slots are taken again from any of those states (win_ipc.cpp 519-548).    *)
WetIsOwnBlock ==
    (caller = "wait" /\ state[mine] = "Done" /\ result[mine] = "Ok")
        => output[mine] = next_sequence

(* A block whose deadline has passed is never processed afterwards: the     *)
(* engine takes blocks in the order of the audio.                           *)
ProcessesNewest ==
    [][\A s \in SlotIndex : (state[s] = "Ready" /\ state'[s] = "Processing")
                               => (caller = "wait" /\ mine = s)]_vars

(* The last slot acquire_slot looks at is never busy: however many blocks   *)
(* are late, audio is not dropped for want of a slot.                       *)
SlotLeft == (caller = "claim" /\ mine = SlotCount) => state[mine] \in {"Free", "Done"}

(* A pause that no late answer precedes finds every command queued before it *)
(* inside the plug-in, so the state captured next contains them.  One        *)
(* granted from the late answer to an earlier pause may not: line 828        *)
(* acknowledges it without draining the ring again.                          *)
FrontierUnlessLate ==
    [][(control = "wait_pause" /\ control' = "paused" /\ ~late) => applied = pushed]_vars

(* The worker does not stay parked: a pause that succeeds, one that is      *)
(* withdrawn too late and one that meets a shutdown all end.                *)
PauseEnds == (dsp \in {"paused", "parked"}) ~> (dsp \notin {"paused", "parked", "ack_again"})

(* As long as the plug-in processes audio again and again, every command   *)
(* reaches it, whatever pauses and full rings it meets.                     *)
CommandsReachPlugin ==
    []<>(dsp = "process") => \A n \in 1 .. MaxCommands : (pushed >= n) ~> (applied >= n)


(* The tokens implement a lock of the engine. *)
EngineOwner == IF DspInEngine THEN "dsp" ELSE IF ControlInEngine THEN "control" ELSE "none"
Lock == INSTANCE EngineLock WITH owner <- EngineOwner
EngineIsLocked == Lock!Spec
-----------------------------------------------------------------------------
(* The inductive invariant behind the safety properties. *)

(* A slot is the caller's, the worker's or nobody's.  Only the newest block *)
(* is published, and the answer in a slot is the answer to what it held.    *)
SlotInv ==
    /\ \A s \in SlotIndex : (state[s] = "Claimed") <=> (caller = "write" /\ mine = s)
    /\ \A s \in SlotIndex : (state[s] = "Processing") <=> (dsp = "process" /\ index = s)
    /\ \A s \in SlotIndex : state[s] = "Ready"
          => (caller = "wait" /\ mine = s /\ input[s] = next_sequence)
    /\ caller = "wait" => state[mine] \in {"Ready", "Processing", "Done"}
    /\ (caller = "wait" /\ state[mine] = "Processing") => block = next_sequence
    /\ WetIsOwnBlock

(* A scan that has passed a slot has met the one the worker is busy with. *)
ClaimInv ==
    /\ caller = "idle" => mine = 1
    /\ (caller = "claim" /\ mine > 1)
          => \A s \in SlotIndex : s >= mine => state[s] # "Processing"

(* The worker acknowledges tokens in the order they are requested in. *)
TokenInv ==
    /\ token = requested
    /\ requested < 2 * generation
    /\ acknowledged <= requested
    /\ seen <= requested
    /\ dsp \in {"settle", "confirm", "ack_pause", "ack_again", "ack_run", "ack_resume"}
          => acknowledged < seen

(* The last acknowledged token tells whether the worker is parked. *)
ParkInv ==
    /\ dsp \in {"settle", "confirm", "ack_pause", "ack_again"} => RequestsPause(seen)
    /\ dsp \in {"ack_run", "ack_resume"} => ~RequestsPause(seen)
    /\ dsp \in {"paused", "ack_again", "parked", "ack_resume"} => RequestsPause(acknowledged)
    /\ dsp \in {"settle", "confirm", "ack_pause", "ack_run", "wait", "scan", "process", "drain"}
          => ~RequestsPause(acknowledged)
    /\ dsp = "top" => shutdown \/ ~RequestsPause(acknowledged)

ControlInv ==
    /\ control \in {"wait_pause", "paused"} => RequestsPause(token)
    /\ control = "wait_resume" => ~RequestsPause(token)
    /\ control = "paused" => acknowledged = token
    /\ control = "close" => dsp = "exited"

(* Without a late answer the worker has caught up with every request the    *)
(* control thread has finished with, and drains for the one it waits for.   *)
FrontierInv ==
    ~late =>
        /\ control = "idle" => acknowledged = requested /\ ~RequestsPause(requested)
        /\ (control = "wait_pause" /\ (RequestsPause(acknowledged) \/ dsp \in {"confirm", "ack_pause"}))
              => applied = pushed

SafetyInv ==
    /\ TypeOK
    /\ SlotInv
    /\ ClaimInv
    /\ TokenInv
    /\ ParkInv
    /\ ControlInv
    /\ FrontierInv
=============================================================================
