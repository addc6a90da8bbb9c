----------------------------- MODULE RackChain -----------------------------
(***************************************************************************)
(* The Rack helper's plug-ins between two threads (src/rack/):               *)
(*   - dsp_loop (main.cpp) processes each block of OBS through the plug-ins  *)
(*     of one of two generations, which it counts itself into;               *)
(*   - the command worker (main_r3_2.cpp, main_r3_4.cpp and                  *)
(*     main_r3_4_persistent.cpp) opens plug-ins, builds the unpublished      *)
(*     generation, publishes it, and closes what it has removed once the     *)
(*     generation it was in has no reader.                                   *)
(*                                                                          *)
(* A plug-in is the address of its HostedPlugin, which a later plug-in may   *)
(* get again.  Slot identifiers, their order and the slots without a plug-in *)
(* do not matter here: the state is the set of plug-ins in it.               *)
(***************************************************************************)
EXTENDS Naturals

CONSTANTS
    Plugins,
    Idle, Stopped,  \* of AtomicChain
    MaxAttempts,    \* kMaxAcquireAttempts
    MaxGeneration   \* bound: generation numbers, 2^64 - 1 in the code

ASSUME AttemptsAssumption == MaxAttempts \in Nat \ {0}
ASSUME BoundAssumption == MaxGeneration \in Nat \ {0}
ASSUME IdleAssumption ==
    /\ Idle # Stopped
    /\ Idle \notin [number : Nat, plugins : SUBSET Plugins]
    /\ Stopped \notin [number : Nat, plugins : SUBSET Plugins]

VARIABLES
    slots,           \* the plug-ins of DynamicRackState::slots
    bypassed,        \* those whose slot is bypassed
    retired,         \* std::vector<RetiredDynamicPlugin>
    unchecked,       \* the entries reap_retired_plugins has not come to
    draft,           \* the edit at hand: what slots and bypassed become
    worker,          \* the next step of the command worker
    generations,     \* GenerationStore
    readers,
    published_index,
    opened,          \* the plug-ins that exist
    shutdown,        \* shutdown_requested
    dsp,             \* the next step of dsp_loop
    index,           \* the generation it tries or has
    attempt,
    visited          \* the plug-ins of it the block has been through

stateVars == <<slots, bypassed, retired, unchecked, draft>>
storeVars == <<generations, published_index>>
dspVars == <<dsp, index, attempt, visited>>
vars == <<stateVars, worker, storeVars, readers, opened, shutdown, dspVars>>

Indices == {0, 1}
Other(i) == 1 - i
EmptyGeneration == [number |-> 0, plugins |-> {}]

(* An edit: what it leaves, what was opened for it, its generation, and      *)
(* whether reap_retired_plugins follows its publication.                    *)
Edit(s, b, fresh, number, reap) ==
    [slots |-> s, bypassed |-> b, fresh |-> fresh, number |-> number, reap |-> reap]
NoEdit == Edit({}, {}, {}, 0, FALSE)

(* initialize_empty_generation_store. *)
Init ==
    /\ slots = {}
    /\ bypassed = {}
    /\ retired = {}
    /\ unchecked = {}
    /\ draft = NoEdit
    /\ worker = "restore"
    /\ generations = [i \in Indices |-> IF i = 0 THEN [number |-> 1, plugins |-> {}] ELSE EmptyGeneration]
    /\ readers = [i \in Indices |-> 0]
    /\ published_index = 0
    /\ opened = {}
    /\ shutdown = FALSE
    /\ dsp = "wait"
    /\ index = 0
    /\ attempt = 0
    /\ visited = {}

-----------------------------------------------------------------------------
(* The command worker. *)

NextNumber == generations[published_index].number + 1

(* Opens the new plug-ins of an edit and leaves it for the reservation. *)
Prepare(s, b, fresh, number, reap) ==
    /\ number < MaxGeneration
    /\ fresh \cap opened = {}
    /\ draft' = Edit(s, b, fresh, number, reap)
    /\ opened' = opened \cup fresh
    /\ worker' = "reserve"
    /\ UNCHANGED <<slots, bypassed, retired, unchecked, storeVars, readers, shutdown, dspVars>>

(* restore_working_rack_session: the numbers go on from the saved one. *)
RestoreSession ==
    /\ worker = "restore"
    /\ \E restored \in SUBSET Plugins : \E b \in SUBSET restored : \E number \in 1 .. MaxGeneration :
          Prepare(restored, b, restored, number, FALSE)

SkipRestore ==
    /\ worker = "restore"
    /\ worker' = "idle"
    /\ UNCHANGED <<stateVars, storeVars, readers, opened, shutdown, dspVars>>

(* load_preset_into_rack replaces all slots. *)
LoadPreset ==
    /\ worker = "idle"
    /\ ~shutdown
    /\ \E loaded \in SUBSET Plugins : \E b \in SUBSET loaded :
          Prepare(loaded, b, loaded, NextNumber, TRUE)

(* execute_dynamic_command reaps first, and a removal again at its end. *)
BeginCommand ==
    /\ worker = "idle"
    /\ ~shutdown
    /\ worker' = "reap"
    /\ unchecked' = retired
    /\ UNCHANGED <<slots, bypassed, retired, draft, storeVars, readers, opened, shutdown, dspVars>>

(* One turn of reap_retired_plugins. *)
ReapEntry ==
    /\ worker \in {"reap", "reap_again"}
    /\ \E old \in unchecked :
          /\ unchecked' = unchecked \ {old}
          /\ \/ /\ readers[old.index] = 0
                /\ opened' = opened \ {old.plugin}
                /\ retired' = retired \ {old}
             \/ /\ readers[old.index] # 0
                /\ UNCHANGED <<opened, retired>>
    /\ UNCHANGED <<slots, bypassed, draft, worker, storeVars, readers, shutdown, dspVars>>

EndReap ==
    /\ worker \in {"reap", "reap_again"}
    /\ unchecked = {}
    /\ worker' = IF worker = "reap" THEN "execute" ELSE "idle"
    /\ UNCHANGED <<stateVars, storeVars, readers, opened, shutdown, dspVars>>

(* A command that is rejected, changes no chain, or cannot open its plug-in. *)
RejectCommand ==
    /\ worker = "execute"
    /\ worker' = "idle"
    /\ UNCHANGED <<stateVars, storeVars, readers, opened, shutdown, dspVars>>

AddSlot ==
    /\ worker = "execute"
    /\ \E p \in Plugins : Prepare(slots \cup {p}, bypassed, {p}, NextNumber, FALSE)

MoveSlot ==
    /\ worker = "execute"
    /\ Prepare(slots, bypassed, {}, NextNumber, FALSE)

SetBypass ==
    /\ worker = "execute"
    /\ \E p \in slots :
          Prepare(slots, IF p \in bypassed THEN bypassed \ {p} ELSE bypassed \cup {p}, {},
                  NextNumber, FALSE)

(* The removed slot may have no plug-in. *)
RemoveSlot ==
    /\ worker = "execute"
    /\ \E removed \in {{}} \cup {{p} : p \in slots} :
          Prepare(slots \ removed, bypassed \ removed, {}, NextNumber, TRUE)

(* The bypass is kept, of a slot without plug-in too. *)
ReplaceSlot ==
    /\ worker = "execute"
    /\ \E q \in Plugins :
          \/ \E p \in slots :
                Prepare((slots \ {p}) \cup {q},
                        IF p \in bypassed THEN (bypassed \ {p}) \cup {q} ELSE bypassed,
                        {q}, NextNumber, TRUE)
          \/ \E b \in {bypassed, bypassed \cup {q}} :
                Prepare(slots \cup {q}, b, {q}, NextNumber, TRUE)

(* wait_until_generation_unreachable. *)
ReserveCommit ==
    /\ worker = "reserve"
    /\ readers[Other(published_index)] = 0
    /\ worker' = "clear"
    /\ UNCHANGED <<stateVars, storeVars, readers, opened, shutdown, dspVars>>

(* Its timeout, or a shutdown: what was opened for the edit is closed. *)
ReserveTimeout ==
    /\ worker = "reserve"
    /\ readers[Other(published_index)] # 0
    /\ opened' = opened \ draft.fresh
    /\ draft' = NoEdit
    /\ worker' = "idle"
    /\ UNCHANGED <<slots, bypassed, retired, unchecked, storeVars, readers, shutdown, dspVars>>

(* build_active_generation, in two steps. *)
ClearGeneration ==
    /\ worker = "clear"
    /\ generations' = [generations EXCEPT ![Other(published_index)] = EmptyGeneration]
    /\ worker' = "build"
    /\ UNCHANGED <<stateVars, published_index, readers, opened, shutdown, dspVars>>

BuildGeneration ==
    /\ worker = "build"
    /\ generations' = [generations EXCEPT ![Other(published_index)] =
                          [number |-> draft.number, plugins |-> draft.slots \ draft.bypassed]]
    /\ worker' = "publish"
    /\ UNCHANGED <<stateVars, published_index, readers, opened, shutdown, dspVars>>

(* Mutant: the removed plug-ins are forgotten. *)
PublishAndForget ==
    /\ worker = "publish"
    /\ published_index' = Other(published_index)
    /\ slots' = draft.slots
    /\ bypassed' = draft.bypassed
    /\ draft' = NoEdit
    /\ worker' = "idle"
    /\ UNCHANGED <<retired, unchecked, generations, readers, opened, shutdown, dspVars>>

(* publish_dynamic_generation, whose barrier precedes the reaping, and the  *)
(* retirement of the plug-ins the edit has removed.                         *)
PublishGeneration ==
    /\ worker = "publish"
    /\ published_index' = Other(published_index)
    /\ slots' = draft.slots
    /\ bypassed' = draft.bypassed
    /\ retired' = retired \cup {[plugin |-> p, index |-> published_index] : p \in slots \ draft.slots}
    /\ draft' = NoEdit
    /\ \/ draft.reap /\ worker' = "reap_again" /\ unchecked' = retired'
       \/ ~draft.reap /\ worker' = "idle" /\ UNCHANGED unchecked
    /\ UNCHANGED <<generations, readers, opened, shutdown, dspVars>>

-----------------------------------------------------------------------------
(* dsp_loop. *)

BeginBlock ==
    /\ dsp = "wait"
    /\ ~shutdown
    /\ dsp' = "load"
    /\ attempt' = 0
    /\ UNCHANGED <<stateVars, worker, storeVars, readers, opened, shutdown, index, visited>>

(* acquire_published_generation: the index, the count, and the index again. *)
LoadIndex ==
    /\ dsp = "load"
    /\ index' = published_index
    /\ dsp' = "enter"
    /\ UNCHANGED <<stateVars, worker, storeVars, readers, opened, shutdown, attempt, visited>>

EnterGeneration ==
    /\ dsp = "enter"
    /\ readers' = [readers EXCEPT ![index] = @ + 1]
    /\ dsp' = "recheck"
    /\ UNCHANGED <<stateVars, worker, storeVars, opened, shutdown, index, attempt, visited>>

(* Mutant: the count alone protects the generation. *)
AcquireWithoutRecheck ==
    /\ dsp = "recheck"
    /\ dsp' = "walk"
    /\ visited' = {}
    /\ UNCHANGED <<stateVars, worker, storeVars, readers, opened, shutdown, index, attempt>>

RecheckIndex ==
    /\ dsp = "recheck"
    /\ \/ /\ published_index = index
          /\ dsp' = "walk"
          /\ visited' = {}
       \/ /\ published_index # index
          /\ dsp' = "leave"
          /\ UNCHANGED visited
    /\ UNCHANGED <<stateVars, worker, storeVars, readers, opened, shutdown, index, attempt>>

(* The last failed attempt leaves the block dry. *)
LeaveGeneration ==
    /\ dsp = "leave"
    /\ readers' = [readers EXCEPT ![index] = @ - 1]
    /\ attempt' = attempt + 1
    /\ dsp' = IF attempt' = MaxAttempts THEN "wait" ELSE "load"
    /\ UNCHANGED <<stateVars, worker, storeVars, opened, shutdown, index, visited>>

(* One turn of the slot loop: process of a plug-in, which may fail. *)
ProcessSlot ==
    /\ dsp = "walk"
    /\ \E p \in generations[index].plugins \ visited :
          \/ visited' = visited \cup {p} /\ UNCHANGED dsp
          \/ dsp' = "release" /\ UNCHANGED visited
    /\ UNCHANGED <<stateVars, worker, storeVars, readers, opened, shutdown, index, attempt>>

EndBlock ==
    /\ dsp = "walk"
    /\ generations[index].plugins \subseteq visited
    /\ dsp' = "release"
    /\ UNCHANGED <<stateVars, worker, storeVars, readers, opened, shutdown, index, attempt, visited>>

(* Mutant: a block that ends leaves its count behind. *)
KeepCount ==
    /\ dsp = "release"
    /\ dsp' = "wait"
    /\ UNCHANGED <<stateVars, worker, storeVars, readers, opened, shutdown, index, attempt, visited>>

(* release_generation. *)
ReleaseGeneration ==
    /\ dsp = "release"
    /\ readers' = [readers EXCEPT ![index] = @ - 1]
    /\ dsp' = "wait"
    /\ UNCHANGED <<stateVars, worker, storeVars, opened, shutdown, index, attempt, visited>>

-----------------------------------------------------------------------------
(* The end of the helper. *)

RequestShutdown ==
    /\ ~shutdown
    /\ shutdown' = TRUE
    /\ UNCHANGED <<stateVars, worker, storeVars, readers, opened, dspVars>>

DspExit ==
    /\ dsp = "wait"
    /\ shutdown
    /\ dsp' = "exited"
    /\ UNCHANGED <<stateVars, worker, storeVars, readers, opened, shutdown, index, attempt, visited>>

WorkerExit ==
    /\ worker = "idle"
    /\ shutdown
    /\ worker' = "exited"
    /\ UNCHANGED <<stateVars, storeVars, readers, opened, shutdown, dspVars>>

(* Mutant: the slots are closed, the retired plug-ins are not. *)
CloseSlotsOnly ==
    /\ worker = "exited"
    /\ dsp = "exited"
    /\ opened' = opened \ slots
    /\ slots' = {}
    /\ worker' = "closed"
    /\ UNCHANGED <<bypassed, retired, unchecked, draft, storeVars, readers, shutdown, dspVars>>

(* After both joins: the last reap_retired_plugins and close_dynamic_state. *)
CloseState ==
    /\ worker = "exited"
    /\ dsp = "exited"
    /\ opened' = opened \ (slots \cup {old.plugin : old \in retired})
    /\ slots' = {}
    /\ retired' = {}
    /\ worker' = "closed"
    /\ UNCHANGED <<bypassed, unchecked, draft, storeVars, readers, shutdown, dspVars>>

-----------------------------------------------------------------------------
WorkerStep ==
    \/ RestoreSession
    \/ SkipRestore
    \/ ReapEntry
    \/ EndReap
    \/ RejectCommand
    \/ AddSlot
    \/ MoveSlot
    \/ SetBypass
    \/ RemoveSlot
    \/ ReplaceSlot
    \/ ReserveCommit
    \/ ReserveTimeout
    \/ ClearGeneration
    \/ BuildGeneration
    \/ PublishGeneration
    \/ WorkerExit
    \/ CloseState

DspStep ==
    \/ LoadIndex
    \/ EnterGeneration
    \/ RecheckIndex
    \/ LeaveGeneration
    \/ ProcessSlot
    \/ EndBlock
    \/ ReleaseGeneration
    \/ DspExit

Next ==
    \/ WorkerStep
    \/ DspStep
    \/ LoadPreset
    \/ BeginCommand
    \/ BeginBlock
    \/ RequestShutdown

Spec == Init /\ [][Next]_vars

(* Waits of the worker are bounded, and the plug-ins return from process. *)
Fairness == WF_vars(WorkerStep) /\ WF_vars(DspStep)

FairSpec == Spec /\ Fairness

-----------------------------------------------------------------------------
Generation == [number : 0 .. MaxGeneration, plugins : SUBSET Plugins]

TypeOK ==
    /\ slots \in SUBSET Plugins
    /\ bypassed \in SUBSET Plugins
    /\ retired \in SUBSET [plugin : Plugins, index : Indices]
    /\ unchecked \in SUBSET retired
    /\ draft \in [slots : SUBSET Plugins, bypassed : SUBSET Plugins, fresh : SUBSET Plugins,
                  number : 0 .. MaxGeneration, reap : BOOLEAN]
    /\ worker \in {"restore", "idle", "reap", "execute", "reserve", "clear", "build", "publish",
                   "reap_again", "exited", "closed"}
    /\ generations \in [Indices -> Generation]
    /\ readers \in [Indices -> 0 .. 1]
    /\ published_index \in Indices
    /\ opened \in SUBSET Plugins
    /\ shutdown \in BOOLEAN
    /\ dsp \in {"wait", "load", "enter", "recheck", "leave", "walk", "release", "exited"}
    /\ index \in Indices
    /\ attempt \in 0 .. MaxAttempts
    /\ visited \in SUBSET Plugins

Retired == {old.plugin : old \in retired}

(* Every plug-in that exists is in the state, retired, or opened for the    *)
(* edit at hand, and in one of them only: a failed reservation, a preset     *)
(* that replaces everything and a reused address leak and double-close       *)
(* nothing (main_r3_2.cpp 140-152, main_r3_4.cpp 421-467).                  *)
OneOwner ==
    /\ opened = slots \cup Retired \cup draft.fresh
    /\ slots \cap Retired = {}
    /\ slots \cap draft.fresh = {}
    /\ Retired \cap draft.fresh = {}
    /\ \A a, b \in retired : a.plugin = b.plugin => a = b

(* A block is processed by one committed generation as a whole, in commit   *)
(* order, and none of its plug-ins is closed meanwhile.                     *)
Atomic == INSTANCE AtomicChain WITH
    committed <- generations[published_index],
    processing <- IF dsp = "walk" THEN generations[index] ELSE IF dsp = "exited" THEN Stopped ELSE Idle
ChainIsAtomic == Atomic!Spec

(* OBS can stop the helper at any moment: it ends, with every plug-in       *)
(* closed, whatever edit, block or reservation it was in.                   *)
ExitClosesAll == shutdown ~> (worker = "closed" /\ opened = {})
-----------------------------------------------------------------------------
(* The inductive invariant behind them. *)

(* The block is counted into exactly the generation it has or tries. *)
ReadersInv ==
    /\ \A i \in Indices :
          readers[i] = IF dsp \in {"recheck", "leave", "walk", "release"} /\ index = i THEN 1 ELSE 0
    /\ dsp \in {"load", "enter", "recheck", "leave"} => attempt < MaxAttempts

(* What an edit on its way to publication may be. *)
DraftInv ==
    /\ worker \notin {"reserve", "clear", "build", "publish"} => draft = NoEdit
    /\ worker \in {"reserve", "clear", "build", "publish"}
          => /\ draft.slots \subseteq slots \cup draft.fresh
             /\ draft.fresh \subseteq draft.slots
             /\ draft.number >= generations[published_index].number
    /\ worker = "restore" => generations[published_index].number = 1
    /\ worker = "publish" => generations[Other(published_index)] =
                                [number |-> draft.number, plugins |-> draft.slots \ draft.bypassed]
    /\ worker = "closed" => dsp = "exited"
    /\ worker \notin {"reap", "reap_again"} => unchecked = {}

(* The plug-ins of the published generation are in the state; those of the  *)
(* generation a block has are in the state, or retired from it.             *)
HoldInv ==
    /\ worker # "closed" => generations[published_index].plugins \subseteq slots
    /\ dsp = "walk" =>
          /\ worker \in {"clear", "build", "publish"} => index = published_index
          /\ \A p \in generations[index].plugins :
                p \in slots \/ [plugin |-> p, index |-> index] \in retired

SafetyInv ==
    /\ TypeOK
    /\ ReadersInv
    /\ OneOwner
    /\ DraftInv
    /\ HoldInv
=============================================================================
