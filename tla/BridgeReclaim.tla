--------------------------- MODULE BridgeReclaim ---------------------------
(***************************************************************************)
(* How obs-plugin/plugin.cpp replaces the helper bridge of a filter while   *)
(* OBS audio threads may be inside WinObsBridge::process.  A restart swaps  *)
(* the published pointer and parks the old bridge on a retired list; audio  *)
(* threads announce the pointer they are about to use in one of a few       *)
(* hazard slots; a reaper destroys the retired bridges that no slot names.  *)
(*                                                                          *)
(* A bridge is the address it is allocated at, so an address that has been  *)
(* freed may come back as a different bridge, of the same or of another     *)
(* filter: the comparison of two pointers cannot tell them apart.           *)
(* One step is one atomic operation of the code.                            *)
(***************************************************************************)
EXTENDS Naturals, FiniteSets

CONSTANTS
    Filters,    \* the filter instances; each has one BridgeRtState
    Addresses,  \* where a WinObsBridge may be allocated
    Threads,    \* the OBS threads that call filter_audio
    Reapers,    \* the threads that call reap_retired_bridges
    HazardSlots,\* kBridgeHazardSlots
    Null        \* nullptr, and "none" in a local variable

ASSUME HazardSlotsAssumption == HazardSlots \in Nat \ {0}
ASSUME NullAssumption == Null \notin Addresses

Slots == 1 .. HazardSlots
Pointers == Addresses \cup {Null}
Attempts == 2

(* One element of retired_bridges: the bridge and the state whose hazard    *)
(* slots may name it.                                                       *)
RetiredBridge == [bridge : Addresses, state : Filters]

VARIABLES
    alive,        \* the addresses that hold a constructed bridge
    bridge_owner, \* Filter::bridge_owner
    active,       \* BridgeRtState::active
    claimed,      \* the hazard slots of each filter whose flag is set
    hazard,       \* BridgeHazardSlot::bridge
    retired,      \* retired_bridges
    control,      \* the next step of the thread inside restart_mutex of each filter
    next,         \* the bridge it has built,
    previous,     \* and the one it has replaced
    reader,       \* the next step of each thread inside AudioBridgeRead
    filter,       \* the filter it was called for
    slot,         \* the hazard slot it tries or owns
    attempt,
    candidate,
    reaper,       \* the next step of each thread inside reap_retired_bridges
    todo,         \* the entries its iterator has not reached
    entry,        \* the entry it is looking at
    inspected,    \* the hazard slot it is about to look at
    ready         \* ready_to_destroy

controlVars == <<control, next, previous>>
readerVars == <<reader, filter, slot, attempt, candidate>>
reaperVars == <<reaper, todo, entry, inspected, ready>>
slotVars == <<claimed, hazard>>
vars == <<alive, bridge_owner, active, retired, slotVars, controlVars, readerVars, reaperVars>>

(* The reader is inside WinObsBridge::process of bridge b. *)
Using(t, b) == reader[t] = "use" /\ candidate[t] = b /\ b # Null

(* retired_bridges_mutex; publishers hold it for a single push_back only. *)
MutexFree == \A p \in Reapers : reaper[p] \notin {"scan", "inspect"}

Init ==
    /\ alive = {}
    /\ bridge_owner = [f \in Filters |-> Null]
    /\ active = [f \in Filters |-> Null]
    /\ retired = {}
    /\ claimed = [f \in Filters |-> {}]
    /\ hazard = [f \in Filters |-> [s \in Slots |-> Null]]
    /\ control = [f \in Filters |-> "idle"]
    /\ next = [f \in Filters |-> Null]
    /\ previous = [f \in Filters |-> Null]
    /\ reader = [t \in Threads |-> "idle"]
    /\ filter = [t \in Threads |-> Null]
    /\ slot = [t \in Threads |-> 1]
    /\ attempt = [t \in Threads |-> 1]
    /\ candidate = [t \in Threads |-> Null]
    /\ reaper = [p \in Reapers |-> "idle"]
    /\ todo = [p \in Reapers |-> {}]
    /\ entry = [p \in Reapers |-> Null]
    /\ inspected = [p \in Reapers |-> 1]
    /\ ready = [p \in Reapers |-> {}]

-----------------------------------------------------------------------------
(* The thread that holds restart_mutex of filter f. *)

(* restart_bridge allocates and starts a candidate. *)
StartCandidate(f, a) ==
    /\ control[f] = "idle"
    /\ a \notin alive
    /\ alive' = alive \cup {a}
    /\ control' = [control EXCEPT ![f] = "publish"]
    /\ next' = [next EXCEPT ![f] = a]
    /\ UNCHANGED <<bridge_owner, active, retired, slotVars, previous, readerVars, reaperVars>>

(* Start failed, was cancelled, or the restored state was rejected: the     *)
(* candidate was never published and its unique_ptr destroys it at once.    *)
DropCandidate(f) ==
    /\ control[f] = "publish"
    /\ alive' = alive \ {next[f]}
    /\ control' = [control EXCEPT ![f] = "idle"]
    /\ next' = [next EXCEPT ![f] = Null]
    /\ UNCHANGED <<bridge_owner, active, retired, slotVars, previous, readerVars, reaperVars>>

(* publish_bridge_locked, first the owner, then active, then the retirement. *)
(* Without a candidate it publishes nullptr: the filter is disabled, has no  *)
(* plug-in, could not start one or is being destroyed.                       *)
SwapOwner(f) ==
    /\ control[f] \in {"idle", "publish"}
    /\ control' = [control EXCEPT ![f] = "store"]
    /\ previous' = [previous EXCEPT ![f] = bridge_owner[f]]
    /\ bridge_owner' = [bridge_owner EXCEPT ![f] = next[f]]
    /\ next' = [next EXCEPT ![f] = Null]
    /\ UNCHANGED <<alive, active, retired, slotVars, readerVars, reaperVars>>

StoreActive(f) ==
    /\ control[f] = "store"
    /\ active' = [active EXCEPT ![f] = bridge_owner[f]]
    /\ control' = [control EXCEPT ![f] = "retire"]
    /\ UNCHANGED <<alive, bridge_owner, retired, slotVars, next, previous, readerVars, reaperVars>>

(* retire_bridge returns early when there was no bridge to replace. *)
RetireBridge(f) ==
    /\ control[f] = "retire"
    /\ \/ previous[f] = Null /\ UNCHANGED retired
       \/ /\ previous[f] # Null
          /\ MutexFree
          /\ retired' = retired \cup {[bridge |-> previous[f], state |-> f]}
    /\ control' = [control EXCEPT ![f] = "idle"]
    /\ previous' = [previous EXCEPT ![f] = Null]
    /\ UNCHANGED <<alive, bridge_owner, active, slotVars, next, readerVars, reaperVars>>

-----------------------------------------------------------------------------
(* An audio thread inside filter_audio of filter f. *)

BeginRead(t, f) ==
    /\ reader[t] = "idle"
    /\ reader' = [reader EXCEPT ![t] = "claim"]
    /\ filter' = [filter EXCEPT ![t] = f]
    /\ UNCHANGED <<alive, bridge_owner, active, retired, slotVars, controlVars,
                   slot, attempt, candidate, reaperVars>>

(* One test_and_set.  After the last slot the read has none: dry audio. *)
ClaimSlot(t) ==
    /\ reader[t] = "claim"
    /\ IF slot[t] \notin claimed[filter[t]]
       THEN /\ claimed' = [claimed EXCEPT ![filter[t]] = @ \cup {slot[t]}]
            /\ reader' = [reader EXCEPT ![t] = "load"]
            /\ UNCHANGED <<filter, slot>>
       ELSE /\ IF slot[t] < HazardSlots
               THEN slot' = [slot EXCEPT ![t] = @ + 1] /\ UNCHANGED <<reader, filter>>
               ELSE /\ reader' = [reader EXCEPT ![t] = "idle"]
                    /\ filter' = [filter EXCEPT ![t] = Null]
                    /\ slot' = [slot EXCEPT ![t] = 1]
            /\ UNCHANGED claimed
    /\ UNCHANGED <<alive, bridge_owner, active, retired, hazard, controlVars,
                   attempt, candidate, reaperVars>>

LoadActive(t) ==
    /\ reader[t] = "load"
    /\ candidate' = [candidate EXCEPT ![t] = active[filter[t]]]
    /\ reader' = [reader EXCEPT ![t] = "store"]
    /\ UNCHANGED <<alive, bridge_owner, active, retired, slotVars, controlVars,
                   filter, slot, attempt, reaperVars>>

StoreHazard(t) ==
    /\ reader[t] = "store"
    /\ hazard' = [hazard EXCEPT ![filter[t]][slot[t]] = candidate[t]]
    /\ reader' = [reader EXCEPT ![t] = "recheck"]
    /\ UNCHANGED <<alive, bridge_owner, active, retired, claimed, controlVars,
                   filter, slot, attempt, candidate, reaperVars>>

(* Mutant: the constructor trusts its first load. *)
UseWithoutRecheck(t) ==
    /\ reader[t] = "recheck"
    /\ reader' = [reader EXCEPT ![t] = "use"]
    /\ UNCHANGED <<alive, bridge_owner, active, retired, slotVars, controlVars,
                   filter, slot, attempt, candidate, reaperVars>>

RecheckActive(t) ==
    /\ reader[t] = "recheck"
    /\ \/ /\ candidate[t] = active[filter[t]]
          /\ reader' = [reader EXCEPT ![t] = "use"]
          /\ UNCHANGED attempt
       \/ /\ candidate[t] # active[filter[t]]
          /\ attempt[t] < Attempts
          /\ attempt' = [attempt EXCEPT ![t] = @ + 1]
          /\ reader' = [reader EXCEPT ![t] = "load"]
       \/ /\ candidate[t] # active[filter[t]]
          /\ attempt[t] = Attempts
          /\ reader' = [reader EXCEPT ![t] = "clear"]
          /\ UNCHANGED attempt
    /\ UNCHANGED <<alive, bridge_owner, active, retired, slotVars, controlVars,
                   filter, slot, candidate, reaperVars>>

(* Mutant: the slot is given back with the pointer still in it. *)
LeaveHazard(t) ==
    /\ reader[t] \in {"clear", "use"}
    /\ candidate' = [candidate EXCEPT ![t] = Null]
    /\ reader' = [reader EXCEPT ![t] = "unclaim"]
    /\ UNCHANGED <<alive, bridge_owner, active, retired, slotVars, controlVars,
                   filter, slot, attempt, reaperVars>>

(* The hazard is withdrawn before the slot is given back: by the            *)
(* constructor when both attempts met a new publication, and by             *)
(* ~AudioBridgeRead when filter_audio has got no bridge or process returned. *)
ClearHazard(t) ==
    /\ reader[t] \in {"clear", "use"}
    /\ hazard' = [hazard EXCEPT ![filter[t]][slot[t]] = Null]
    /\ candidate' = [candidate EXCEPT ![t] = Null]
    /\ reader' = [reader EXCEPT ![t] = "unclaim"]
    /\ UNCHANGED <<alive, bridge_owner, active, retired, claimed, controlVars,
                   filter, slot, attempt, reaperVars>>

ReleaseSlot(t) ==
    /\ reader[t] = "unclaim"
    /\ claimed' = [claimed EXCEPT ![filter[t]] = @ \ {slot[t]}]
    /\ reader' = [reader EXCEPT ![t] = "idle"]
    /\ filter' = [filter EXCEPT ![t] = Null]
    /\ slot' = [slot EXCEPT ![t] = 1]
    /\ attempt' = [attempt EXCEPT ![t] = 1]
    /\ UNCHANGED <<alive, bridge_owner, active, retired, hazard, controlVars,
                   candidate, reaperVars>>

-----------------------------------------------------------------------------
(* A thread inside reap_retired_bridges: the background reaper, the one that *)
(* destroys a filter, or the one that unloads the module.                    *)

BeginReap(p) ==
    /\ reaper[p] = "idle"
    /\ MutexFree
    /\ reaper' = [reaper EXCEPT ![p] = "scan"]
    /\ todo' = [todo EXCEPT ![p] = retired]
    /\ UNCHANGED <<alive, bridge_owner, active, retired, slotVars, controlVars, readerVars,
                   entry, inspected, ready>>

NextEntry(p, e) ==
    /\ reaper[p] = "scan"
    /\ e \in todo[p]
    /\ todo' = [todo EXCEPT ![p] = @ \ {e}]
    /\ entry' = [entry EXCEPT ![p] = e]
    /\ reaper' = [reaper EXCEPT ![p] = "inspect"]
    /\ UNCHANGED <<alive, bridge_owner, active, retired, slotVars, controlVars, readerVars,
                   inspected, ready>>

(* Mutant: the entry is copied to ready_to_destroy and not erased. *)
InspectWithoutErase(p) ==
    /\ reaper[p] = "inspect"
    /\ LET hazardous == hazard[entry[p].state][inspected[p]] = entry[p].bridge
           last == hazardous \/ inspected[p] = HazardSlots
       IN /\ ready' = IF last /\ ~hazardous
                      THEN [ready EXCEPT ![p] = @ \cup {entry[p]}] ELSE ready
          /\ reaper' = IF last THEN [reaper EXCEPT ![p] = "scan"] ELSE reaper
          /\ inspected' = [inspected EXCEPT ![p] = IF last THEN 1 ELSE @ + 1]
    /\ UNCHANGED <<alive, bridge_owner, active, retired, slotVars, controlVars, readerVars,
                   todo, entry>>

(* Mutant: the loop runs one slot past the array. *)
InspectPastEnd(p) ==
    /\ reaper[p] = "inspect"
    /\ hazard[entry[p].state][inspected[p]] # entry[p].bridge
    /\ inspected[p] <= HazardSlots
    /\ inspected' = [inspected EXCEPT ![p] = @ + 1]
    /\ UNCHANGED <<alive, bridge_owner, active, retired, slotVars, controlVars, readerVars,
                   reaper, todo, entry, ready>>

(* One turn of the loop of bridge_is_hazardous, and after the last one the  *)
(* move of the entry to ready_to_destroy.                                   *)
InspectSlot(p) ==
    /\ reaper[p] = "inspect"
    /\ \/ /\ hazard[entry[p].state][inspected[p]] = entry[p].bridge
          /\ reaper' = [reaper EXCEPT ![p] = "scan"]
          /\ inspected' = [inspected EXCEPT ![p] = 1]
          /\ UNCHANGED <<retired, ready>>
       \/ /\ hazard[entry[p].state][inspected[p]] # entry[p].bridge
          /\ inspected[p] < HazardSlots
          /\ inspected' = [inspected EXCEPT ![p] = @ + 1]
          /\ UNCHANGED <<retired, reaper, ready>>
       \/ /\ hazard[entry[p].state][inspected[p]] # entry[p].bridge
          /\ inspected[p] = HazardSlots
          /\ ready' = [ready EXCEPT ![p] = @ \cup {entry[p]}]
          /\ retired' = retired \ {entry[p]}
          /\ reaper' = [reaper EXCEPT ![p] = "scan"]
          /\ inspected' = [inspected EXCEPT ![p] = 1]
    /\ UNCHANGED <<alive, bridge_owner, active, slotVars, controlVars, readerVars, todo, entry>>

EndScan(p) ==
    /\ reaper[p] = "scan"
    /\ todo[p] = {}
    /\ reaper' = [reaper EXCEPT ![p] = "destroy"]
    /\ entry' = [entry EXCEPT ![p] = Null]
    /\ UNCHANGED <<alive, bridge_owner, active, retired, slotVars, controlVars, readerVars,
                   todo, inspected, ready>>

(* ready_to_destroy.clear(), outside the mutex, one destructor at a time. *)
DestroyBridge(p, e) ==
    /\ reaper[p] = "destroy"
    /\ e \in ready[p]
    /\ alive' = alive \ {e.bridge}
    /\ ready' = [ready EXCEPT ![p] = @ \ {e}]
    /\ UNCHANGED <<bridge_owner, active, retired, slotVars, controlVars, readerVars,
                   reaper, todo, entry, inspected>>

EndReap(p) ==
    /\ reaper[p] = "destroy"
    /\ ready[p] = {}
    /\ reaper' = [reaper EXCEPT ![p] = "idle"]
    /\ UNCHANGED <<alive, bridge_owner, active, retired, slotVars, controlVars, readerVars,
                   todo, entry, inspected, ready>>

-----------------------------------------------------------------------------
ControlStep(f) ==
    \/ \E a \in Addresses : StartCandidate(f, a)
    \/ DropCandidate(f)
    \/ SwapOwner(f)
    \/ StoreActive(f)
    \/ RetireBridge(f)

(* A read that has begun runs to its end without waiting for anyone. *)
ReaderStep(t) ==
    \/ ClaimSlot(t)
    \/ LoadActive(t)
    \/ StoreHazard(t)
    \/ RecheckActive(t)
    \/ ClearHazard(t)
    \/ ReleaseSlot(t)

ReaperStep(p) ==
    \/ BeginReap(p)
    \/ \E e \in RetiredBridge : NextEntry(p, e)
    \/ InspectSlot(p)
    \/ EndScan(p)
    \/ \E e \in RetiredBridge : DestroyBridge(p, e)
    \/ EndReap(p)

Next ==
    \/ \E f \in Filters : ControlStep(f)
    \/ \E t \in Threads, f \in Filters : BeginRead(t, f)
    \/ \E t \in Threads : ReaderStep(t)
    \/ \E p \in Reapers : ReaperStep(p)

Spec == Init /\ [][Next]_vars

(* WinObsBridge::process returns by its deadline, and the background reaper *)
(* runs every 100 ms until the module is unloaded.                          *)
Fairness ==
    /\ \A t \in Threads : WF_vars(ReaderStep(t))
    /\ \A p \in Reapers : WF_vars(ReaperStep(p))

FairSpec == Spec /\ Fairness

-----------------------------------------------------------------------------
TypeOK ==
    /\ alive \subseteq Addresses
    /\ bridge_owner \in [Filters -> Pointers]
    /\ active \in [Filters -> Pointers]
    /\ retired \subseteq RetiredBridge
    /\ claimed \in [Filters -> SUBSET Slots]
    /\ hazard \in [Filters -> [Slots -> Pointers]]
    /\ control \in [Filters -> {"idle", "publish", "store", "retire"}]
    /\ next \in [Filters -> Pointers]
    /\ previous \in [Filters -> Pointers]
    /\ reader \in [Threads -> {"idle", "claim", "load", "store", "recheck", "clear", "use", "unclaim"}]
    /\ filter \in [Threads -> Filters \cup {Null}]
    /\ \A t \in Threads : reader[t] # "idle" => filter[t] \in Filters
    /\ slot \in [Threads -> Slots]
    /\ attempt \in [Threads -> 1 .. Attempts]
    /\ candidate \in [Threads -> Pointers]
    /\ reaper \in [Reapers -> {"idle", "scan", "inspect", "destroy"}]
    /\ todo \in [Reapers -> SUBSET RetiredBridge]
    /\ entry \in [Reapers -> RetiredBridge \cup {Null}]
    /\ \A p \in Reapers : reaper[p] = "inspect" => entry[p] \in RetiredBridge
    /\ inspected \in [Reapers -> Slots]
    /\ ready \in [Reapers -> SUBSET RetiredBridge]

(* No audio thread is inside process() of a bridge that a reaper or a       *)
(* restart has destroyed (plugin.cpp 205-220 against 281-316).              *)
NoUseAfterDestroy ==
    \A t \in Threads, b \in Addresses : Using(t, b) => b \in alive

(* Address reuse never sends the audio of one filter into the helper of     *)
(* another: the bridge in use is one this filter published and still has.   *)
UsesOwnBridge ==
    \A t \in Threads, b \in Addresses : Using(t, b) =>
        LET f == filter[t]
        IN \/ b \in {bridge_owner[f], previous[f]}
           \/ [bridge |-> b, state |-> f] \in retired

(* The places that own the bridge at address b. *)
Owners(b) ==
    {<<"owner", f>> : f \in {g \in Filters : bridge_owner[g] = b}}
      \cup {<<"next", f>> : f \in {g \in Filters : next[g] = b}}
      \cup {<<"previous", f>> : f \in {g \in Filters : previous[g] = b}}
      \cup {<<"retired", f>> : f \in {g \in Filters : [bridge |-> b, state |-> g] \in retired}}
      \cup {<<"ready", p>> : p \in {q \in Reapers : \E e \in ready[q] : e.bridge = b}}

(* A bridge has exactly one owner while it exists and none afterwards, so   *)
(* none is leaked and none is destroyed twice, whichever of the publisher,  *)
(* the retired list and the concurrent reapers holds it.                    *)
OneOwner ==
    \A b \in Addresses : Cardinality(Owners(b)) = IF b \in alive THEN 1 ELSE 0

(* A retired bridge is destroyed, however often filters are restarted and   *)
(* whatever stale pointers readers still announce.                          *)
RetiredIsDestroyed ==
    \A f \in Filters, b \in Addresses :
        ([bridge |-> b, state |-> f] \in retired) ~> (b \notin alive)

-----------------------------------------------------------------------------
(* The inductive invariant behind the safety properties. *)

HoldsSlot(t) == reader[t] \in {"load", "store", "recheck", "clear", "use", "unclaim"}

(* A hazard slot is on the stack of one reader at a time, and from the      *)
(* store of the hazard to its removal it names that reader's candidate.     *)
SlotInv ==
    /\ \A t \in Threads : HoldsSlot(t) => slot[t] \in claimed[filter[t]]
    /\ \A t, u \in Threads :
          (t # u /\ HoldsSlot(t) /\ HoldsSlot(u) /\ filter[t] = filter[u])
            => slot[t] # slot[u]
    /\ \A t \in Threads : reader[t] \in {"recheck", "use"}
          => hazard[filter[t]][slot[t]] = candidate[t]

(* What the steps of publish_bridge_locked leave true of the filter. *)
PublishInv ==
    \A f \in Filters :
        /\ active[f] = IF control[f] = "store" THEN previous[f] ELSE bridge_owner[f]
        /\ control[f] \notin {"store", "retire"} => previous[f] = Null
        /\ control[f] = "publish" <=> next[f] # Null

(* Nothing owned is destroyed, nothing is owned twice. *)
OwnedAlive ==
    /\ \A f \in Filters : {bridge_owner[f], next[f], previous[f]}
                             \subseteq alive \cup {Null}
    /\ \A e \in retired : e.bridge \in alive
    /\ \A p \in Reapers : \A e \in ready[p] : e.bridge \in alive

FilterOwnsApart ==
    \A f, g \in Filters :
        /\ bridge_owner[f] # Null => bridge_owner[f] \notin {next[g], previous[g]}
        /\ next[f] # Null => next[f] # previous[g]
        /\ f # g => /\ bridge_owner[f] = bridge_owner[g] => bridge_owner[f] = Null
                    /\ next[f] = next[g] => next[f] = Null
                    /\ previous[f] = previous[g] => previous[f] = Null

RetiredApart ==
    /\ \A e \in retired, f \in Filters :
          e.bridge \notin {bridge_owner[f], next[f], previous[f]}
    /\ \A d, e \in retired : d.bridge = e.bridge => d = e

ReadyApart ==
    \A p \in Reapers : \A e \in ready[p] :
        /\ \A f \in Filters : e.bridge \notin {bridge_owner[f], next[f], previous[f]}
        /\ \A d \in retired : d.bridge # e.bridge
        /\ \A q \in Reapers : \A d \in ready[q] : d.bridge = e.bridge => (d = e /\ p = q)

(* No bridge is leaked. *)
AliveOwned ==
    \A b \in alive :
        \/ \E f \in Filters : b \in {bridge_owner[f], next[f], previous[f]}
        \/ \E e \in retired : e.bridge = b
        \/ \E p \in Reapers : \E e \in ready[p] : e.bridge = b

(* The scan works on entries that are still retired, under the mutex; the   *)
(* slots it has passed do not protect the entry it is looking at.           *)
ReapInv ==
    /\ \A p, q \in Reapers : (reaper[p] \in {"scan", "inspect"} /\ reaper[q] \in {"scan", "inspect"})
                                => p = q
    /\ \A p \in Reapers : reaper[p] \in {"scan", "inspect"} => todo[p] \subseteq retired
    /\ \A p \in Reapers : reaper[p] = "inspect"
          => entry[p] \in retired /\ entry[p] \notin todo[p]
    /\ \A p \in Reapers : reaper[p] # "inspect" => inspected[p] = 1
    /\ \A p \in Reapers, t \in Threads :
          (reaper[p] = "inspect" /\ Using(t, entry[p].bridge))
            => slot[t] >= inspected[p]

SafetyInv ==
    /\ TypeOK
    /\ SlotInv
    /\ PublishInv
    /\ OwnedAlive
    /\ FilterOwnsApart
    /\ RetiredApart
    /\ ReadyApart
    /\ AliveOwned
    /\ ReapInv
    /\ UsesOwnBridge
=============================================================================
