------------------------- MODULE BridgeReclaim_proofs -------------------------
EXTENDS BridgeReclaim, FiniteSetTheorems, TLAPS

USE HazardSlotsAssumption, NullAssumption

(* Every step keeps the types. *)
LEMMA TypeStep ==
  ASSUME TypeOK, [Next]_vars
  PROVE  TypeOK'
<1>1. ASSUME NEW f \in Filters, NEW a \in Addresses, StartCandidate(f, a) PROVE TypeOK'
  BY <1>1 DEF StartCandidate, TypeOK, RetiredBridge, Pointers, Slots, Attempts, slotVars,
      controlVars, readerVars, reaperVars, MutexFree
<1>2. ASSUME NEW f \in Filters, DropCandidate(f) PROVE TypeOK'
  BY <1>2 DEF DropCandidate, TypeOK, RetiredBridge, Pointers, Slots, Attempts, slotVars,
      controlVars, readerVars, reaperVars, MutexFree
<1>3. ASSUME NEW f \in Filters, SwapOwner(f) PROVE TypeOK'
  BY <1>3 DEF SwapOwner, TypeOK, RetiredBridge, Pointers, Slots, Attempts, slotVars, controlVars,
      readerVars, reaperVars, MutexFree
<1>4. ASSUME NEW f \in Filters, StoreActive(f) PROVE TypeOK'
  BY <1>4 DEF StoreActive, TypeOK, RetiredBridge, Pointers, Slots, Attempts, slotVars,
      controlVars, readerVars, reaperVars, MutexFree
<1>5. ASSUME NEW f \in Filters, RetireBridge(f) PROVE TypeOK'
  BY <1>5 DEF RetireBridge, TypeOK, RetiredBridge, Pointers, Slots, Attempts, slotVars,
      controlVars, readerVars, reaperVars, MutexFree
<1>6. ASSUME NEW t \in Threads, NEW f \in Filters, BeginRead(t, f) PROVE TypeOK'
  BY <1>6 DEF BeginRead, TypeOK, RetiredBridge, Pointers, Slots, Attempts, slotVars, controlVars,
      readerVars, reaperVars, MutexFree
<1>7. ASSUME NEW t \in Threads, ClaimSlot(t) PROVE TypeOK'
  <2>1. filter[t] \in Filters /\ slot[t] \in Slots
    BY <1>7 DEF ClaimSlot, TypeOK
  <2>2. slot' \in [Threads -> Slots]
    <3>1. CASE slot' = slot
      BY <3>1 DEF TypeOK
    <3>2. CASE slot[t] < HazardSlots /\ slot' = [slot EXCEPT ![t] = slot[t] + 1]
      <4>1. slot[t] + 1 \in Slots
        BY <3>2 DEF TypeOK, Slots
      <4> QED BY <3>2, <4>1 DEF TypeOK
    <3>3. CASE slot' = [slot EXCEPT ![t] = 1]
      <4>1. 1 \in Slots
        BY DEF Slots
      <4> QED BY <3>3, <4>1 DEF TypeOK
    <3> QED BY <1>7, <3>1, <3>2, <3>3 DEF ClaimSlot, TypeOK
  <2>3. claimed' \in [Filters -> SUBSET Slots]
    <3>1. CASE claimed' = claimed
      BY <3>1 DEF TypeOK
    <3>2. CASE claimed' = [claimed EXCEPT ![filter[t]] = @ \cup {slot[t]}]
      BY <2>1, <3>2 DEF TypeOK
    <3> QED BY <1>7, <3>1, <3>2 DEF ClaimSlot
  <2>4. /\ reader' \in [Threads -> {"idle", "claim", "load", "store", "recheck", "clear", "use", "unclaim"}]
        /\ filter' \in [Threads -> Filters \cup {Null}]
    BY <1>7, <2>1 DEF ClaimSlot, TypeOK
  <2>5. \A u \in Threads : reader'[u] # "idle" => filter'[u] \in Filters
    BY <1>7, <2>1 DEF ClaimSlot, TypeOK
  <2> QED BY <1>7, <2>2, <2>3, <2>4, <2>5 DEF ClaimSlot, TypeOK, controlVars, reaperVars
<1>8. ASSUME NEW t \in Threads, LoadActive(t) PROVE TypeOK'
  BY <1>8 DEF LoadActive, TypeOK, RetiredBridge, Pointers, Slots, Attempts, slotVars, controlVars,
      readerVars, reaperVars, MutexFree
<1>9. ASSUME NEW t \in Threads, StoreHazard(t) PROVE TypeOK'
  BY <1>9 DEF StoreHazard, TypeOK, RetiredBridge, Pointers, Slots, Attempts, slotVars,
      controlVars, readerVars, reaperVars, MutexFree
<1>10. ASSUME NEW t \in Threads, RecheckActive(t) PROVE TypeOK'
  <2>1. attempt' \in [Threads -> 1 .. Attempts]
    <3>1. CASE attempt' = attempt
      BY <3>1 DEF TypeOK
    <3>2. CASE attempt[t] < Attempts /\ attempt' = [attempt EXCEPT ![t] = attempt[t] + 1]
      <4>1. attempt[t] \in 1 .. Attempts
        BY DEF TypeOK
      <4>2. attempt[t] + 1 \in 1 .. Attempts
        BY <3>2, <4>1 DEF Attempts
      <4> QED BY <3>2, <4>2 DEF TypeOK
    <3> QED BY <1>10, <3>1, <3>2 DEF RecheckActive
  <2>2. /\ reader' \in [Threads -> {"idle", "claim", "load", "store", "recheck", "clear", "use", "unclaim"}]
        /\ \A u \in Threads : reader'[u] # "idle" => filter'[u] \in Filters
    BY <1>10 DEF RecheckActive, TypeOK
  <2> QED BY <1>10, <2>1, <2>2 DEF RecheckActive, TypeOK, slotVars, controlVars, reaperVars
<1>11. ASSUME NEW t \in Threads, ClearHazard(t) PROVE TypeOK'
  BY <1>11 DEF ClearHazard, TypeOK, RetiredBridge, Pointers, Slots, Attempts, slotVars,
      controlVars, readerVars, reaperVars, MutexFree
<1>12. ASSUME NEW t \in Threads, ReleaseSlot(t) PROVE TypeOK'
  BY <1>12 DEF ReleaseSlot, TypeOK, RetiredBridge, Pointers, Slots, Attempts, slotVars,
      controlVars, readerVars, reaperVars, MutexFree
<1>13. ASSUME NEW p \in Reapers, BeginReap(p) PROVE TypeOK'
  BY <1>13 DEF BeginReap, TypeOK, RetiredBridge, Pointers, Slots, Attempts, slotVars, controlVars,
      readerVars, reaperVars, MutexFree
<1>14. ASSUME NEW p \in Reapers, NEW e \in RetiredBridge, NextEntry(p, e) PROVE TypeOK'
  BY <1>14 DEF NextEntry, TypeOK, RetiredBridge, Pointers, Slots, Attempts, slotVars, controlVars,
      readerVars, reaperVars, MutexFree
<1>15. ASSUME NEW p \in Reapers, InspectSlot(p) PROVE TypeOK'
  <2>1. inspected' \in [Reapers -> Slots]
    <3>1. CASE inspected[p] < HazardSlots /\ inspected' = [inspected EXCEPT ![p] = inspected[p] + 1]
      <4>1. inspected[p] + 1 \in Slots
        BY <3>1 DEF TypeOK, Slots
      <4> QED BY <3>1, <4>1 DEF TypeOK
    <3>2. CASE inspected' = [inspected EXCEPT ![p] = 1]
      <4>1. 1 \in Slots
        BY DEF Slots
      <4> QED BY <3>2, <4>1 DEF TypeOK
    <3> QED BY <1>15, <3>1, <3>2 DEF InspectSlot
  <2>2. entry[p] \in RetiredBridge
    BY <1>15 DEF InspectSlot, TypeOK
  <2>3. ready' \in [Reapers -> SUBSET RetiredBridge]
    <3>1. CASE ready' = ready
      BY <3>1 DEF TypeOK
    <3>2. CASE ready' = [ready EXCEPT ![p] = @ \cup {entry[p]}]
      BY <2>2, <3>2 DEF TypeOK
    <3> QED BY <1>15, <3>1, <3>2 DEF InspectSlot
  <2>4. /\ retired' \subseteq RetiredBridge
        /\ reaper' \in [Reapers -> {"idle", "scan", "inspect", "destroy"}]
        /\ \A q \in Reapers : reaper'[q] = "inspect" => entry'[q] \in RetiredBridge
    BY <1>15 DEF InspectSlot, TypeOK
  <2> QED BY <1>15, <2>1, <2>3, <2>4 DEF InspectSlot, TypeOK, slotVars, controlVars, readerVars
<1>16. ASSUME NEW p \in Reapers, EndScan(p) PROVE TypeOK'
  BY <1>16 DEF EndScan, TypeOK, RetiredBridge, Pointers, Slots, Attempts, slotVars, controlVars,
      readerVars, reaperVars, MutexFree
<1>17. ASSUME NEW p \in Reapers, NEW e \in RetiredBridge, DestroyBridge(p, e) PROVE TypeOK'
  BY <1>17 DEF DestroyBridge, TypeOK, RetiredBridge, Pointers, Slots, Attempts, slotVars,
      controlVars, readerVars, reaperVars, MutexFree
<1>18. ASSUME NEW p \in Reapers, EndReap(p) PROVE TypeOK'
  BY <1>18 DEF EndReap, TypeOK, RetiredBridge, Pointers, Slots, Attempts, slotVars, controlVars,
      readerVars, reaperVars, MutexFree
<1>19. CASE UNCHANGED vars
  BY <1>19 DEF vars, TypeOK, RetiredBridge, Pointers, Slots, Attempts, slotVars, controlVars,
      readerVars, reaperVars, MutexFree
<1> QED
  BY <1>1, <1>2, <1>3, <1>4, <1>5, <1>6, <1>7, <1>8, <1>9, <1>10, <1>11, <1>12, <1>13, <1>14,
      <1>15, <1>16, <1>17, <1>18, <1>19 DEF Next, ControlStep, ReaderStep, ReaperStep

(* The test_and_set gives a hazard slot to one reader, and only that reader
   writes it until it clears the flag (plugin.cpp 287-316). *)
LEMMA SlotStep ==
  ASSUME TypeOK, SlotInv, [Next]_vars
  PROVE  SlotInv'
<1>1. ASSUME NEW f \in Filters, NEW a \in Addresses, StartCandidate(f, a) PROVE SlotInv'
  BY <1>1 DEF StartCandidate, TypeOK, slotVars, controlVars, readerVars, reaperVars, MutexFree,
      SlotInv, HoldsSlot
<1>2. ASSUME NEW f \in Filters, DropCandidate(f) PROVE SlotInv'
  BY <1>2 DEF DropCandidate, TypeOK, slotVars, controlVars, readerVars, reaperVars, MutexFree,
      SlotInv, HoldsSlot
<1>3. ASSUME NEW f \in Filters, SwapOwner(f) PROVE SlotInv'
  BY <1>3 DEF SwapOwner, TypeOK, slotVars, controlVars, readerVars, reaperVars, MutexFree,
      SlotInv, HoldsSlot
<1>4. ASSUME NEW f \in Filters, StoreActive(f) PROVE SlotInv'
  BY <1>4 DEF StoreActive, TypeOK, slotVars, controlVars, readerVars, reaperVars, MutexFree,
      SlotInv, HoldsSlot
<1>5. ASSUME NEW f \in Filters, RetireBridge(f) PROVE SlotInv'
  BY <1>5 DEF RetireBridge, TypeOK, slotVars, controlVars, readerVars, reaperVars, MutexFree,
      SlotInv, HoldsSlot
<1>6. ASSUME NEW t \in Threads, NEW f \in Filters, BeginRead(t, f) PROVE SlotInv'
  BY <1>6 DEF BeginRead, TypeOK, slotVars, controlVars, readerVars, reaperVars, MutexFree,
      SlotInv, HoldsSlot
<1>7. ASSUME NEW t \in Threads, ClaimSlot(t) PROVE SlotInv'
  <2>1. filter[t] \in Filters /\ slot[t] \in Slots
    BY <1>7 DEF ClaimSlot, TypeOK
  <2>2. CASE slot[t] \notin claimed[filter[t]]
    <3>1. /\ claimed' = [claimed EXCEPT ![filter[t]] = @ \cup {slot[t]}]
          /\ reader' = [reader EXCEPT ![t] = "load"]
          /\ UNCHANGED <<filter, slot, hazard, candidate>>
      BY <1>7, <2>2 DEF ClaimSlot
    <3> QED BY <1>7, <2>1, <2>2, <3>1 DEF ClaimSlot, TypeOK, SlotInv, HoldsSlot
  <2>3. CASE slot[t] \in claimed[filter[t]]
    <3>1. /\ UNCHANGED <<claimed, hazard, candidate>>
          /\ \A u \in Threads : u # t => /\ reader'[u] = reader[u]
                                         /\ filter'[u] = filter[u]
                                         /\ slot'[u] = slot[u]
          /\ reader'[t] \in {"claim", "idle"}
      BY <1>7, <2>3 DEF ClaimSlot, TypeOK
    <3>2. ~ HoldsSlot(t)' /\ reader'[t] \notin {"recheck", "use"}
      BY <3>1 DEF HoldsSlot
    <3>3. \A u \in Threads : HoldsSlot(u)' => u # t /\ HoldsSlot(u)
      BY <3>1, <3>2 DEF HoldsSlot
    <3>4. \A u \in Threads : reader'[u] \in {"recheck", "use"}
                              => u # t /\ reader[u] \in {"recheck", "use"}
      BY <3>1, <3>2
    <3> QED BY <3>1, <3>3, <3>4 DEF SlotInv
  <2> QED BY <2>2, <2>3
<1>8. ASSUME NEW t \in Threads, LoadActive(t) PROVE SlotInv'
  BY <1>8 DEF LoadActive, TypeOK, slotVars, controlVars, readerVars, reaperVars, MutexFree,
      SlotInv, HoldsSlot
<1>9. ASSUME NEW t \in Threads, StoreHazard(t) PROVE SlotInv'
  BY <1>9 DEF StoreHazard, TypeOK, slotVars, controlVars, readerVars, reaperVars, MutexFree,
      SlotInv, HoldsSlot
<1>10. ASSUME NEW t \in Threads, RecheckActive(t) PROVE SlotInv'
  <2>1. /\ UNCHANGED <<claimed, hazard, filter, slot, candidate>>
        /\ \A u \in Threads : u # t => reader'[u] = reader[u]
        /\ reader[t] = "recheck" /\ reader'[t] \in {"use", "load", "clear"}
    BY <1>10 DEF RecheckActive, TypeOK, slotVars
  <2>2. \A u \in Threads : HoldsSlot(u)' => HoldsSlot(u)
    BY <2>1 DEF HoldsSlot
  <2>3. \A u \in Threads : reader'[u] \in {"recheck", "use"} => reader[u] \in {"recheck", "use"}
    BY <2>1
  <2> QED BY <2>1, <2>2, <2>3 DEF SlotInv
<1>11. ASSUME NEW t \in Threads, ClearHazard(t) PROVE SlotInv'
  BY <1>11 DEF ClearHazard, TypeOK, slotVars, controlVars, readerVars, reaperVars, MutexFree,
      SlotInv, HoldsSlot
<1>12. ASSUME NEW t \in Threads, ReleaseSlot(t) PROVE SlotInv'
  BY <1>12 DEF ReleaseSlot, TypeOK, slotVars, controlVars, readerVars, reaperVars, MutexFree,
      SlotInv, HoldsSlot
<1>13. ASSUME NEW p \in Reapers, BeginReap(p) PROVE SlotInv'
  BY <1>13 DEF BeginReap, TypeOK, slotVars, controlVars, readerVars, reaperVars, MutexFree,
      SlotInv, HoldsSlot
<1>14. ASSUME NEW p \in Reapers, NEW e \in RetiredBridge, NextEntry(p, e) PROVE SlotInv'
  BY <1>14 DEF NextEntry, TypeOK, slotVars, controlVars, readerVars, reaperVars, MutexFree,
      SlotInv, HoldsSlot
<1>15. ASSUME NEW p \in Reapers, InspectSlot(p) PROVE SlotInv'
  BY <1>15 DEF InspectSlot, TypeOK, slotVars, controlVars, readerVars, reaperVars, MutexFree,
      SlotInv, HoldsSlot
<1>16. ASSUME NEW p \in Reapers, EndScan(p) PROVE SlotInv'
  BY <1>16 DEF EndScan, TypeOK, slotVars, controlVars, readerVars, reaperVars, MutexFree, SlotInv,
      HoldsSlot
<1>17. ASSUME NEW p \in Reapers, NEW e \in RetiredBridge, DestroyBridge(p, e) PROVE SlotInv'
  BY <1>17 DEF DestroyBridge, TypeOK, slotVars, controlVars, readerVars, reaperVars, MutexFree,
      SlotInv, HoldsSlot
<1>18. ASSUME NEW p \in Reapers, EndReap(p) PROVE SlotInv'
  BY <1>18 DEF EndReap, TypeOK, slotVars, controlVars, readerVars, reaperVars, MutexFree, SlotInv,
      HoldsSlot
<1>19. CASE UNCHANGED vars
  BY <1>19 DEF vars, TypeOK, slotVars, controlVars, readerVars, reaperVars, MutexFree, SlotInv,
      HoldsSlot
<1> QED
  BY <1>1, <1>2, <1>3, <1>4, <1>5, <1>6, <1>7, <1>8, <1>9, <1>10, <1>11, <1>12, <1>13, <1>14,
      <1>15, <1>16, <1>17, <1>18, <1>19 DEF Next, ControlStep, ReaderStep, ReaperStep

(* publish_bridge_locked leaves active equal to the owner, except between its
   two stores, when active still names the bridge it is about to retire. *)
LEMMA PublishStep ==
  ASSUME TypeOK, PublishInv, [Next]_vars
  PROVE  PublishInv'
<1>1. ASSUME NEW f \in Filters, NEW a \in Addresses, StartCandidate(f, a) PROVE PublishInv'
  BY <1>1 DEF StartCandidate, TypeOK, slotVars, controlVars, readerVars, reaperVars, MutexFree,
      PublishInv, Pointers
<1>2. ASSUME NEW f \in Filters, DropCandidate(f) PROVE PublishInv'
  BY <1>2 DEF DropCandidate, TypeOK, slotVars, controlVars, readerVars, reaperVars, MutexFree,
      PublishInv, Pointers
<1>3. ASSUME NEW f \in Filters, SwapOwner(f) PROVE PublishInv'
  BY <1>3 DEF SwapOwner, TypeOK, slotVars, controlVars, readerVars, reaperVars, MutexFree,
      PublishInv, Pointers
<1>4. ASSUME NEW f \in Filters, StoreActive(f) PROVE PublishInv'
  BY <1>4 DEF StoreActive, TypeOK, slotVars, controlVars, readerVars, reaperVars, MutexFree,
      PublishInv, Pointers
<1>5. ASSUME NEW f \in Filters, RetireBridge(f) PROVE PublishInv'
  BY <1>5 DEF RetireBridge, TypeOK, slotVars, controlVars, readerVars, reaperVars, MutexFree,
      PublishInv, Pointers
<1>6. ASSUME NEW t \in Threads, NEW f \in Filters, BeginRead(t, f) PROVE PublishInv'
  BY <1>6 DEF BeginRead, TypeOK, slotVars, controlVars, readerVars, reaperVars, MutexFree,
      PublishInv, Pointers
<1>7. ASSUME NEW t \in Threads, ClaimSlot(t) PROVE PublishInv'
  BY <1>7 DEF ClaimSlot, TypeOK, slotVars, controlVars, readerVars, reaperVars, MutexFree,
      PublishInv, Pointers
<1>8. ASSUME NEW t \in Threads, LoadActive(t) PROVE PublishInv'
  BY <1>8 DEF LoadActive, TypeOK, slotVars, controlVars, readerVars, reaperVars, MutexFree,
      PublishInv, Pointers
<1>9. ASSUME NEW t \in Threads, StoreHazard(t) PROVE PublishInv'
  BY <1>9 DEF StoreHazard, TypeOK, slotVars, controlVars, readerVars, reaperVars, MutexFree,
      PublishInv, Pointers
<1>10. ASSUME NEW t \in Threads, RecheckActive(t) PROVE PublishInv'
  BY <1>10 DEF RecheckActive, TypeOK, slotVars, controlVars, readerVars, reaperVars, MutexFree,
      PublishInv, Pointers
<1>11. ASSUME NEW t \in Threads, ClearHazard(t) PROVE PublishInv'
  BY <1>11 DEF ClearHazard, TypeOK, slotVars, controlVars, readerVars, reaperVars, MutexFree,
      PublishInv, Pointers
<1>12. ASSUME NEW t \in Threads, ReleaseSlot(t) PROVE PublishInv'
  BY <1>12 DEF ReleaseSlot, TypeOK, slotVars, controlVars, readerVars, reaperVars, MutexFree,
      PublishInv, Pointers
<1>13. ASSUME NEW p \in Reapers, BeginReap(p) PROVE PublishInv'
  BY <1>13 DEF BeginReap, TypeOK, slotVars, controlVars, readerVars, reaperVars, MutexFree,
      PublishInv, Pointers
<1>14. ASSUME NEW p \in Reapers, NEW e \in RetiredBridge, NextEntry(p, e) PROVE PublishInv'
  BY <1>14 DEF NextEntry, TypeOK, slotVars, controlVars, readerVars, reaperVars, MutexFree,
      PublishInv, Pointers
<1>15. ASSUME NEW p \in Reapers, InspectSlot(p) PROVE PublishInv'
  BY <1>15 DEF InspectSlot, TypeOK, slotVars, controlVars, readerVars, reaperVars, MutexFree,
      PublishInv, Pointers
<1>16. ASSUME NEW p \in Reapers, EndScan(p) PROVE PublishInv'
  BY <1>16 DEF EndScan, TypeOK, slotVars, controlVars, readerVars, reaperVars, MutexFree,
      PublishInv, Pointers
<1>17. ASSUME NEW p \in Reapers, NEW e \in RetiredBridge, DestroyBridge(p, e) PROVE PublishInv'
  BY <1>17 DEF DestroyBridge, TypeOK, slotVars, controlVars, readerVars, reaperVars, MutexFree,
      PublishInv, Pointers
<1>18. ASSUME NEW p \in Reapers, EndReap(p) PROVE PublishInv'
  BY <1>18 DEF EndReap, TypeOK, slotVars, controlVars, readerVars, reaperVars, MutexFree,
      PublishInv, Pointers
<1>19. CASE UNCHANGED vars
  BY <1>19 DEF vars, TypeOK, slotVars, controlVars, readerVars, reaperVars, MutexFree, PublishInv,
      Pointers
<1> QED
  BY <1>1, <1>2, <1>3, <1>4, <1>5, <1>6, <1>7, <1>8, <1>9, <1>10, <1>11, <1>12, <1>13, <1>14,
      <1>15, <1>16, <1>17, <1>18, <1>19 DEF Next, ControlStep, ReaderStep, ReaperStep

(* The two destructors of a bridge (a dropped candidate, a reaped entry) run on
   a bridge that has no other owner. *)
LEMMA OwnedAliveStep ==
  ASSUME TypeOK, PublishInv, OwnedAlive, FilterOwnsApart, RetiredApart, ReadyApart, ReapInv, [Next]_vars
  PROVE  OwnedAlive'
<1>1. ASSUME NEW f \in Filters, NEW a \in Addresses, StartCandidate(f, a) PROVE OwnedAlive'
  BY <1>1 DEF StartCandidate, TypeOK, slotVars, controlVars, readerVars, reaperVars, MutexFree,
      PublishInv, OwnedAlive, FilterOwnsApart, RetiredApart, ReadyApart, ReapInv, Pointers,
      RetiredBridge
<1>2. ASSUME NEW f \in Filters, DropCandidate(f) PROVE OwnedAlive'
  <2>1. next[f] # Null /\ next[f] \in Addresses
    BY <1>2 DEF DropCandidate, PublishInv, TypeOK, Pointers
  <2>2. \A g \in Filters :
          /\ next[f] \notin {bridge_owner[g], previous[g]}
          /\ g # f => next[f] # next[g]
    BY <2>1 DEF FilterOwnsApart
  <2>3. \A e \in retired : e.bridge # next[f]
    BY DEF RetiredApart
  <2>4. \A p \in Reapers : \A e \in ready[p] : e.bridge # next[f]
    BY DEF ReadyApart
  <2>5. /\ alive' = alive \ {next[f]}
        /\ bridge_owner' = bridge_owner /\ previous' = previous
        /\ retired' = retired /\ ready' = ready
        /\ next'[f] = Null
        /\ \A g \in Filters : g # f => next'[g] = next[g]
    BY <1>2 DEF DropCandidate, TypeOK, reaperVars
  <2>6. \A g \in Filters : {bridge_owner'[g], next'[g], previous'[g]} \subseteq alive' \cup {Null}
    <3>1. \A g \in Filters : {bridge_owner[g], next[g], previous[g]} \subseteq alive \cup {Null}
      BY DEF OwnedAlive
    <3>2. ASSUME NEW g \in Filters PROVE {bridge_owner'[g], next'[g], previous'[g]} \subseteq
        alive' \cup {Null}
      <4>1. CASE g = f
        BY <2>2, <2>5, <3>1, <4>1
      <4>2. CASE g # f
        BY <2>2, <2>5, <3>1, <4>2
      <4> QED BY <4>1, <4>2
    <3> QED BY <3>2
  <2>7. \A e \in retired' : e.bridge \in alive'
    BY <2>3, <2>5 DEF OwnedAlive
  <2>8. \A p \in Reapers : \A e \in ready'[p] : e.bridge \in alive'
    BY <2>4, <2>5 DEF OwnedAlive
  <2> QED BY <2>6, <2>7, <2>8 DEF OwnedAlive
<1>3. ASSUME NEW f \in Filters, SwapOwner(f) PROVE OwnedAlive'
  BY <1>3 DEF SwapOwner, TypeOK, slotVars, controlVars, readerVars, reaperVars, MutexFree,
      PublishInv, OwnedAlive, FilterOwnsApart, RetiredApart, ReadyApart, ReapInv, Pointers,
      RetiredBridge
<1>4. ASSUME NEW f \in Filters, StoreActive(f) PROVE OwnedAlive'
  BY <1>4 DEF StoreActive, TypeOK, slotVars, controlVars, readerVars, reaperVars, MutexFree,
      PublishInv, OwnedAlive, FilterOwnsApart, RetiredApart, ReadyApart, ReapInv, Pointers,
      RetiredBridge
<1>5. ASSUME NEW f \in Filters, RetireBridge(f) PROVE OwnedAlive'
  BY <1>5 DEF RetireBridge, TypeOK, slotVars, controlVars, readerVars, reaperVars, MutexFree,
      PublishInv, OwnedAlive, FilterOwnsApart, RetiredApart, ReadyApart, ReapInv, Pointers,
      RetiredBridge
<1>6. ASSUME NEW t \in Threads, NEW f \in Filters, BeginRead(t, f) PROVE OwnedAlive'
  BY <1>6 DEF BeginRead, TypeOK, slotVars, controlVars, readerVars, reaperVars, MutexFree,
      PublishInv, OwnedAlive, FilterOwnsApart, RetiredApart, ReadyApart, ReapInv, Pointers,
      RetiredBridge
<1>7. ASSUME NEW t \in Threads, ClaimSlot(t) PROVE OwnedAlive'
  BY <1>7 DEF ClaimSlot, TypeOK, slotVars, controlVars, readerVars, reaperVars, MutexFree,
      PublishInv, OwnedAlive, FilterOwnsApart, RetiredApart, ReadyApart, ReapInv, Pointers,
      RetiredBridge
<1>8. ASSUME NEW t \in Threads, LoadActive(t) PROVE OwnedAlive'
  BY <1>8 DEF LoadActive, TypeOK, slotVars, controlVars, readerVars, reaperVars, MutexFree,
      PublishInv, OwnedAlive, FilterOwnsApart, RetiredApart, ReadyApart, ReapInv, Pointers,
      RetiredBridge
<1>9. ASSUME NEW t \in Threads, StoreHazard(t) PROVE OwnedAlive'
  BY <1>9 DEF StoreHazard, TypeOK, slotVars, controlVars, readerVars, reaperVars, MutexFree,
      PublishInv, OwnedAlive, FilterOwnsApart, RetiredApart, ReadyApart, ReapInv, Pointers,
      RetiredBridge
<1>10. ASSUME NEW t \in Threads, RecheckActive(t) PROVE OwnedAlive'
  BY <1>10 DEF RecheckActive, TypeOK, slotVars, controlVars, readerVars, reaperVars, MutexFree,
      PublishInv, OwnedAlive, FilterOwnsApart, RetiredApart, ReadyApart, ReapInv, Pointers,
      RetiredBridge
<1>11. ASSUME NEW t \in Threads, ClearHazard(t) PROVE OwnedAlive'
  BY <1>11 DEF ClearHazard, TypeOK, slotVars, controlVars, readerVars, reaperVars, MutexFree,
      PublishInv, OwnedAlive, FilterOwnsApart, RetiredApart, ReadyApart, ReapInv, Pointers,
      RetiredBridge
<1>12. ASSUME NEW t \in Threads, ReleaseSlot(t) PROVE OwnedAlive'
  BY <1>12 DEF ReleaseSlot, TypeOK, slotVars, controlVars, readerVars, reaperVars, MutexFree,
      PublishInv, OwnedAlive, FilterOwnsApart, RetiredApart, ReadyApart, ReapInv, Pointers,
      RetiredBridge
<1>13. ASSUME NEW p \in Reapers, BeginReap(p) PROVE OwnedAlive'
  BY <1>13 DEF BeginReap, TypeOK, slotVars, controlVars, readerVars, reaperVars, MutexFree,
      PublishInv, OwnedAlive, FilterOwnsApart, RetiredApart, ReadyApart, ReapInv, Pointers,
      RetiredBridge
<1>14. ASSUME NEW p \in Reapers, NEW e \in RetiredBridge, NextEntry(p, e) PROVE OwnedAlive'
  BY <1>14 DEF NextEntry, TypeOK, slotVars, controlVars, readerVars, reaperVars, MutexFree,
      PublishInv, OwnedAlive, FilterOwnsApart, RetiredApart, ReadyApart, ReapInv, Pointers,
      RetiredBridge
<1>15. ASSUME NEW p \in Reapers, InspectSlot(p) PROVE OwnedAlive'
  <2>1. entry[p] \in retired
    BY <1>15 DEF InspectSlot, ReapInv
  <2>2. /\ UNCHANGED <<alive, bridge_owner, next, previous>>
        /\ retired' \subseteq retired
        /\ \A q \in Reapers : ready'[q] \subseteq ready[q] \cup {entry[p]}
    BY <1>15 DEF InspectSlot, TypeOK, controlVars
  <2> QED BY <2>1, <2>2 DEF OwnedAlive
<1>16. ASSUME NEW p \in Reapers, EndScan(p) PROVE OwnedAlive'
  BY <1>16 DEF EndScan, TypeOK, slotVars, controlVars, readerVars, reaperVars, MutexFree,
      PublishInv, OwnedAlive, FilterOwnsApart, RetiredApart, ReadyApart, ReapInv, Pointers,
      RetiredBridge
<1>17. ASSUME NEW p \in Reapers, NEW e \in RetiredBridge, DestroyBridge(p, e) PROVE OwnedAlive'
  BY <1>17 DEF DestroyBridge, TypeOK, slotVars, controlVars, readerVars, reaperVars, MutexFree,
      PublishInv, OwnedAlive, FilterOwnsApart, RetiredApart, ReadyApart, ReapInv, Pointers,
      RetiredBridge
<1>18. ASSUME NEW p \in Reapers, EndReap(p) PROVE OwnedAlive'
  BY <1>18 DEF EndReap, TypeOK, slotVars, controlVars, readerVars, reaperVars, MutexFree,
      PublishInv, OwnedAlive, FilterOwnsApart, RetiredApart, ReadyApart, ReapInv, Pointers,
      RetiredBridge
<1>19. CASE UNCHANGED vars
  BY <1>19 DEF vars, TypeOK, slotVars, controlVars, readerVars, reaperVars, MutexFree, PublishInv,
      OwnedAlive, FilterOwnsApart, RetiredApart, ReadyApart, ReapInv, Pointers, RetiredBridge
<1> QED
  BY <1>1, <1>2, <1>3, <1>4, <1>5, <1>6, <1>7, <1>8, <1>9, <1>10, <1>11, <1>12, <1>13, <1>14,
      <1>15, <1>16, <1>17, <1>18, <1>19 DEF Next, ControlStep, ReaderStep, ReaperStep

(* A filter's owner, candidate and replaced bridge differ, from each other and
   from those of the other filters: a new bridge is built at a free address. *)
LEMMA FilterOwnsApartStep ==
  ASSUME TypeOK, PublishInv, OwnedAlive, FilterOwnsApart, [Next]_vars
  PROVE  FilterOwnsApart'
<1>1. ASSUME NEW f \in Filters, NEW a \in Addresses, StartCandidate(f, a) PROVE FilterOwnsApart'
  BY <1>1 DEF StartCandidate, TypeOK, slotVars, controlVars, readerVars, reaperVars, MutexFree,
      PublishInv, OwnedAlive, FilterOwnsApart, Pointers
<1>2. ASSUME NEW f \in Filters, DropCandidate(f) PROVE FilterOwnsApart'
  BY <1>2 DEF DropCandidate, TypeOK, slotVars, controlVars, readerVars, reaperVars, MutexFree,
      PublishInv, OwnedAlive, FilterOwnsApart, Pointers
<1>3. ASSUME NEW f \in Filters, SwapOwner(f) PROVE FilterOwnsApart'
  <2>1. previous[f] = Null
    BY <1>3 DEF SwapOwner, PublishInv
  <2>2. /\ bridge_owner'[f] = next[f] /\ next'[f] = Null /\ previous'[f] = bridge_owner[f]
        /\ \A g \in Filters \ {f} : /\ bridge_owner'[g] = bridge_owner[g]
                                    /\ next'[g] = next[g]
                                    /\ previous'[g] = previous[g]
    BY <1>3 DEF SwapOwner, TypeOK
  <2>3. ASSUME NEW g \in Filters, NEW h \in Filters
        PROVE  /\ bridge_owner'[g] # Null => bridge_owner'[g] \notin {next'[h], previous'[h]}
               /\ next'[g] # Null => next'[g] # previous'[h]
               /\ g # h => /\ bridge_owner'[g] = bridge_owner'[h] => bridge_owner'[g] = Null
                           /\ next'[g] = next'[h] => next'[g] = Null
                           /\ previous'[g] = previous'[h] => previous'[g] = Null
    <3>1. CASE g = f /\ h = f
      BY <2>1, <2>2, <3>1 DEF FilterOwnsApart
    <3>2. CASE g = f /\ h # f
      BY <2>1, <2>2, <3>2 DEF FilterOwnsApart
    <3>3. CASE g # f /\ h = f
      BY <2>1, <2>2, <3>3 DEF FilterOwnsApart
    <3>4. CASE g # f /\ h # f
      BY <2>2, <3>4 DEF FilterOwnsApart
    <3> QED BY <3>1, <3>2, <3>3, <3>4
  <2> QED BY <2>3 DEF FilterOwnsApart
<1>4. ASSUME NEW f \in Filters, StoreActive(f) PROVE FilterOwnsApart'
  BY <1>4 DEF StoreActive, TypeOK, slotVars, controlVars, readerVars, reaperVars, MutexFree,
      PublishInv, OwnedAlive, FilterOwnsApart, Pointers
<1>5. ASSUME NEW f \in Filters, RetireBridge(f) PROVE FilterOwnsApart'
  BY <1>5 DEF RetireBridge, TypeOK, slotVars, controlVars, readerVars, reaperVars, MutexFree,
      PublishInv, OwnedAlive, FilterOwnsApart, Pointers
<1>6. ASSUME NEW t \in Threads, NEW f \in Filters, BeginRead(t, f) PROVE FilterOwnsApart'
  BY <1>6 DEF BeginRead, TypeOK, slotVars, controlVars, readerVars, reaperVars, MutexFree,
      PublishInv, OwnedAlive, FilterOwnsApart, Pointers
<1>7. ASSUME NEW t \in Threads, ClaimSlot(t) PROVE FilterOwnsApart'
  BY <1>7 DEF ClaimSlot, TypeOK, slotVars, controlVars, readerVars, reaperVars, MutexFree,
      PublishInv, OwnedAlive, FilterOwnsApart, Pointers
<1>8. ASSUME NEW t \in Threads, LoadActive(t) PROVE FilterOwnsApart'
  BY <1>8 DEF LoadActive, TypeOK, slotVars, controlVars, readerVars, reaperVars, MutexFree,
      PublishInv, OwnedAlive, FilterOwnsApart, Pointers
<1>9. ASSUME NEW t \in Threads, StoreHazard(t) PROVE FilterOwnsApart'
  BY <1>9 DEF StoreHazard, TypeOK, slotVars, controlVars, readerVars, reaperVars, MutexFree,
      PublishInv, OwnedAlive, FilterOwnsApart, Pointers
<1>10. ASSUME NEW t \in Threads, RecheckActive(t) PROVE FilterOwnsApart'
  BY <1>10 DEF RecheckActive, TypeOK, slotVars, controlVars, readerVars, reaperVars, MutexFree,
      PublishInv, OwnedAlive, FilterOwnsApart, Pointers
<1>11. ASSUME NEW t \in Threads, ClearHazard(t) PROVE FilterOwnsApart'
  BY <1>11 DEF ClearHazard, TypeOK, slotVars, controlVars, readerVars, reaperVars, MutexFree,
      PublishInv, OwnedAlive, FilterOwnsApart, Pointers
<1>12. ASSUME NEW t \in Threads, ReleaseSlot(t) PROVE FilterOwnsApart'
  BY <1>12 DEF ReleaseSlot, TypeOK, slotVars, controlVars, readerVars, reaperVars, MutexFree,
      PublishInv, OwnedAlive, FilterOwnsApart, Pointers
<1>13. ASSUME NEW p \in Reapers, BeginReap(p) PROVE FilterOwnsApart'
  BY <1>13 DEF BeginReap, TypeOK, slotVars, controlVars, readerVars, reaperVars, MutexFree,
      PublishInv, OwnedAlive, FilterOwnsApart, Pointers
<1>14. ASSUME NEW p \in Reapers, NEW e \in RetiredBridge, NextEntry(p, e) PROVE FilterOwnsApart'
  BY <1>14 DEF NextEntry, TypeOK, slotVars, controlVars, readerVars, reaperVars, MutexFree,
      PublishInv, OwnedAlive, FilterOwnsApart, Pointers
<1>15. ASSUME NEW p \in Reapers, InspectSlot(p) PROVE FilterOwnsApart'
  BY <1>15 DEF InspectSlot, TypeOK, slotVars, controlVars, readerVars, reaperVars, MutexFree,
      PublishInv, OwnedAlive, FilterOwnsApart, Pointers
<1>16. ASSUME NEW p \in Reapers, EndScan(p) PROVE FilterOwnsApart'
  BY <1>16 DEF EndScan, TypeOK, slotVars, controlVars, readerVars, reaperVars, MutexFree,
      PublishInv, OwnedAlive, FilterOwnsApart, Pointers
<1>17. ASSUME NEW p \in Reapers, NEW e \in RetiredBridge, DestroyBridge(p, e) PROVE FilterOwnsApart'
  BY <1>17 DEF DestroyBridge, TypeOK, slotVars, controlVars, readerVars, reaperVars, MutexFree,
      PublishInv, OwnedAlive, FilterOwnsApart, Pointers
<1>18. ASSUME NEW p \in Reapers, EndReap(p) PROVE FilterOwnsApart'
  BY <1>18 DEF EndReap, TypeOK, slotVars, controlVars, readerVars, reaperVars, MutexFree,
      PublishInv, OwnedAlive, FilterOwnsApart, Pointers
<1>19. CASE UNCHANGED vars
  BY <1>19 DEF vars, TypeOK, slotVars, controlVars, readerVars, reaperVars, MutexFree, PublishInv,
      OwnedAlive, FilterOwnsApart, Pointers
<1> QED
  BY <1>1, <1>2, <1>3, <1>4, <1>5, <1>6, <1>7, <1>8, <1>9, <1>10, <1>11, <1>12, <1>13, <1>14,
      <1>15, <1>16, <1>17, <1>18, <1>19 DEF Next, ControlStep, ReaderStep, ReaperStep

(* A bridge is retired once, when its filter no longer owns it. *)
LEMMA RetiredApartStep ==
  ASSUME TypeOK, PublishInv, OwnedAlive, FilterOwnsApart, RetiredApart, [Next]_vars
  PROVE  RetiredApart'
<1>1. ASSUME NEW f \in Filters, NEW a \in Addresses, StartCandidate(f, a) PROVE RetiredApart'
  BY <1>1 DEF StartCandidate, TypeOK, slotVars, controlVars, readerVars, reaperVars, MutexFree,
      PublishInv, OwnedAlive, FilterOwnsApart, RetiredApart, Pointers, RetiredBridge
<1>2. ASSUME NEW f \in Filters, DropCandidate(f) PROVE RetiredApart'
  BY <1>2 DEF DropCandidate, TypeOK, slotVars, controlVars, readerVars, reaperVars, MutexFree,
      PublishInv, OwnedAlive, FilterOwnsApart, RetiredApart, Pointers, RetiredBridge
<1>3. ASSUME NEW f \in Filters, SwapOwner(f) PROVE RetiredApart'
  BY <1>3 DEF SwapOwner, TypeOK, slotVars, controlVars, readerVars, reaperVars, MutexFree,
      PublishInv, OwnedAlive, FilterOwnsApart, RetiredApart, Pointers, RetiredBridge
<1>4. ASSUME NEW f \in Filters, StoreActive(f) PROVE RetiredApart'
  BY <1>4 DEF StoreActive, TypeOK, slotVars, controlVars, readerVars, reaperVars, MutexFree,
      PublishInv, OwnedAlive, FilterOwnsApart, RetiredApart, Pointers, RetiredBridge
<1>5. ASSUME NEW f \in Filters, RetireBridge(f) PROVE RetiredApart'
  <2>1. CASE previous[f] = Null
    BY <1>5, <2>1 DEF RetireBridge, RetiredApart, TypeOK
  <2>2. CASE previous[f] # Null
    <3> DEFINE r == [bridge |-> previous[f], state |-> f]
    <3>1. retired' = retired \cup {r} /\ r.bridge = previous[f]
      BY <1>5, <2>2 DEF RetireBridge
    <3>2. \A g \in Filters :
            /\ bridge_owner'[g] = bridge_owner[g]
            /\ next'[g] = next[g]
            /\ previous'[g] = IF g = f THEN Null ELSE previous[g]
      BY <1>5 DEF RetireBridge, TypeOK
    <3>3. \A g \in Filters :
            /\ previous[f] \notin {bridge_owner[g], next[g]}
            /\ g # f => previous[f] # previous[g]
      BY <2>2 DEF FilterOwnsApart
    <3>4. \A d \in retired, g \in Filters : d.bridge \notin {bridge_owner[g], next[g], previous[g]}
      BY DEF RetiredApart
    <3>5. \A d \in retired' : d.bridge # Null /\ (d.bridge = previous[f] => d = r)
      BY <2>2, <3>1, <3>4 DEF TypeOK, RetiredBridge
    <3>6. \A d \in retired', g \in Filters : d.bridge \notin {bridge_owner'[g], next'[g], previous'[g]}
      <4>1. ASSUME NEW g \in Filters PROVE r.bridge \notin {bridge_owner'[g], next'[g], previous'[g]}
        <5>1. CASE g = f
          BY <2>2, <3>1, <3>2, <3>3, <5>1
        <5>2. CASE g # f
          BY <3>1, <3>2, <3>3, <5>2
        <5> QED BY <5>1, <5>2
      <4>2. ASSUME NEW d \in retired, NEW g \in Filters
            PROVE  d.bridge \notin {bridge_owner'[g], next'[g], previous'[g]}
        BY <3>1, <3>2, <3>4, <3>5
      <4> QED BY <3>1, <4>1, <4>2
    <3>7. \A d, e \in retired' : d.bridge = e.bridge => d = e
      BY <3>1, <3>5 DEF RetiredApart
    <3> QED BY <3>6, <3>7 DEF RetiredApart
  <2> QED BY <2>1, <2>2
<1>6. ASSUME NEW t \in Threads, NEW f \in Filters, BeginRead(t, f) PROVE RetiredApart'
  BY <1>6 DEF BeginRead, TypeOK, slotVars, controlVars, readerVars, reaperVars, MutexFree,
      PublishInv, OwnedAlive, FilterOwnsApart, RetiredApart, Pointers, RetiredBridge
<1>7. ASSUME NEW t \in Threads, ClaimSlot(t) PROVE RetiredApart'
  BY <1>7 DEF ClaimSlot, TypeOK, slotVars, controlVars, readerVars, reaperVars, MutexFree,
      PublishInv, OwnedAlive, FilterOwnsApart, RetiredApart, Pointers, RetiredBridge
<1>8. ASSUME NEW t \in Threads, LoadActive(t) PROVE RetiredApart'
  BY <1>8 DEF LoadActive, TypeOK, slotVars, controlVars, readerVars, reaperVars, MutexFree,
      PublishInv, OwnedAlive, FilterOwnsApart, RetiredApart, Pointers, RetiredBridge
<1>9. ASSUME NEW t \in Threads, StoreHazard(t) PROVE RetiredApart'
  BY <1>9 DEF StoreHazard, TypeOK, slotVars, controlVars, readerVars, reaperVars, MutexFree,
      PublishInv, OwnedAlive, FilterOwnsApart, RetiredApart, Pointers, RetiredBridge
<1>10. ASSUME NEW t \in Threads, RecheckActive(t) PROVE RetiredApart'
  BY <1>10 DEF RecheckActive, TypeOK, slotVars, controlVars, readerVars, reaperVars, MutexFree,
      PublishInv, OwnedAlive, FilterOwnsApart, RetiredApart, Pointers, RetiredBridge
<1>11. ASSUME NEW t \in Threads, ClearHazard(t) PROVE RetiredApart'
  BY <1>11 DEF ClearHazard, TypeOK, slotVars, controlVars, readerVars, reaperVars, MutexFree,
      PublishInv, OwnedAlive, FilterOwnsApart, RetiredApart, Pointers, RetiredBridge
<1>12. ASSUME NEW t \in Threads, ReleaseSlot(t) PROVE RetiredApart'
  BY <1>12 DEF ReleaseSlot, TypeOK, slotVars, controlVars, readerVars, reaperVars, MutexFree,
      PublishInv, OwnedAlive, FilterOwnsApart, RetiredApart, Pointers, RetiredBridge
<1>13. ASSUME NEW p \in Reapers, BeginReap(p) PROVE RetiredApart'
  BY <1>13 DEF BeginReap, TypeOK, slotVars, controlVars, readerVars, reaperVars, MutexFree,
      PublishInv, OwnedAlive, FilterOwnsApart, RetiredApart, Pointers, RetiredBridge
<1>14. ASSUME NEW p \in Reapers, NEW e \in RetiredBridge, NextEntry(p, e) PROVE RetiredApart'
  BY <1>14 DEF NextEntry, TypeOK, slotVars, controlVars, readerVars, reaperVars, MutexFree,
      PublishInv, OwnedAlive, FilterOwnsApart, RetiredApart, Pointers, RetiredBridge
<1>15. ASSUME NEW p \in Reapers, InspectSlot(p) PROVE RetiredApart'
  BY <1>15 DEF InspectSlot, TypeOK, slotVars, controlVars, readerVars, reaperVars, MutexFree,
      PublishInv, OwnedAlive, FilterOwnsApart, RetiredApart, Pointers, RetiredBridge
<1>16. ASSUME NEW p \in Reapers, EndScan(p) PROVE RetiredApart'
  BY <1>16 DEF EndScan, TypeOK, slotVars, controlVars, readerVars, reaperVars, MutexFree,
      PublishInv, OwnedAlive, FilterOwnsApart, RetiredApart, Pointers, RetiredBridge
<1>17. ASSUME NEW p \in Reapers, NEW e \in RetiredBridge, DestroyBridge(p, e) PROVE RetiredApart'
  BY <1>17 DEF DestroyBridge, TypeOK, slotVars, controlVars, readerVars, reaperVars, MutexFree,
      PublishInv, OwnedAlive, FilterOwnsApart, RetiredApart, Pointers, RetiredBridge
<1>18. ASSUME NEW p \in Reapers, EndReap(p) PROVE RetiredApart'
  BY <1>18 DEF EndReap, TypeOK, slotVars, controlVars, readerVars, reaperVars, MutexFree,
      PublishInv, OwnedAlive, FilterOwnsApart, RetiredApart, Pointers, RetiredBridge
<1>19. CASE UNCHANGED vars
  BY <1>19 DEF vars, TypeOK, slotVars, controlVars, readerVars, reaperVars, MutexFree, PublishInv,
      OwnedAlive, FilterOwnsApart, RetiredApart, Pointers, RetiredBridge
<1> QED
  BY <1>1, <1>2, <1>3, <1>4, <1>5, <1>6, <1>7, <1>8, <1>9, <1>10, <1>11, <1>12, <1>13, <1>14,
      <1>15, <1>16, <1>17, <1>18, <1>19 DEF Next, ControlStep, ReaderStep, ReaperStep

(* What a reaper moved out of the retired list is in no other list. *)
LEMMA ReadyApartStep ==
  ASSUME TypeOK, PublishInv, OwnedAlive, FilterOwnsApart, RetiredApart, ReadyApart, ReapInv, [Next]_vars
  PROVE  ReadyApart'
<1>1. ASSUME NEW f \in Filters, NEW a \in Addresses, StartCandidate(f, a) PROVE ReadyApart'
  BY <1>1 DEF StartCandidate, TypeOK, slotVars, controlVars, readerVars, reaperVars, MutexFree,
      PublishInv, OwnedAlive, FilterOwnsApart, RetiredApart, ReadyApart, ReapInv, Pointers,
      RetiredBridge
<1>2. ASSUME NEW f \in Filters, DropCandidate(f) PROVE ReadyApart'
  BY <1>2 DEF DropCandidate, TypeOK, slotVars, controlVars, readerVars, reaperVars, MutexFree,
      PublishInv, OwnedAlive, FilterOwnsApart, RetiredApart, ReadyApart, ReapInv, Pointers,
      RetiredBridge
<1>3. ASSUME NEW f \in Filters, SwapOwner(f) PROVE ReadyApart'
  BY <1>3 DEF SwapOwner, TypeOK, slotVars, controlVars, readerVars, reaperVars, MutexFree,
      PublishInv, OwnedAlive, FilterOwnsApart, RetiredApart, ReadyApart, ReapInv, Pointers,
      RetiredBridge
<1>4. ASSUME NEW f \in Filters, StoreActive(f) PROVE ReadyApart'
  BY <1>4 DEF StoreActive, TypeOK, slotVars, controlVars, readerVars, reaperVars, MutexFree,
      PublishInv, OwnedAlive, FilterOwnsApart, RetiredApart, ReadyApart, ReapInv, Pointers,
      RetiredBridge
<1>5. ASSUME NEW f \in Filters, RetireBridge(f) PROVE ReadyApart'
  BY <1>5 DEF RetireBridge, TypeOK, slotVars, controlVars, readerVars, reaperVars, MutexFree,
      PublishInv, OwnedAlive, FilterOwnsApart, RetiredApart, ReadyApart, ReapInv, Pointers,
      RetiredBridge
<1>6. ASSUME NEW t \in Threads, NEW f \in Filters, BeginRead(t, f) PROVE ReadyApart'
  BY <1>6 DEF BeginRead, TypeOK, slotVars, controlVars, readerVars, reaperVars, MutexFree,
      PublishInv, OwnedAlive, FilterOwnsApart, RetiredApart, ReadyApart, ReapInv, Pointers,
      RetiredBridge
<1>7. ASSUME NEW t \in Threads, ClaimSlot(t) PROVE ReadyApart'
  BY <1>7 DEF ClaimSlot, TypeOK, slotVars, controlVars, readerVars, reaperVars, MutexFree,
      PublishInv, OwnedAlive, FilterOwnsApart, RetiredApart, ReadyApart, ReapInv, Pointers,
      RetiredBridge
<1>8. ASSUME NEW t \in Threads, LoadActive(t) PROVE ReadyApart'
  BY <1>8 DEF LoadActive, TypeOK, slotVars, controlVars, readerVars, reaperVars, MutexFree,
      PublishInv, OwnedAlive, FilterOwnsApart, RetiredApart, ReadyApart, ReapInv, Pointers,
      RetiredBridge
<1>9. ASSUME NEW t \in Threads, StoreHazard(t) PROVE ReadyApart'
  BY <1>9 DEF StoreHazard, TypeOK, slotVars, controlVars, readerVars, reaperVars, MutexFree,
      PublishInv, OwnedAlive, FilterOwnsApart, RetiredApart, ReadyApart, ReapInv, Pointers,
      RetiredBridge
<1>10. ASSUME NEW t \in Threads, RecheckActive(t) PROVE ReadyApart'
  BY <1>10 DEF RecheckActive, TypeOK, slotVars, controlVars, readerVars, reaperVars, MutexFree,
      PublishInv, OwnedAlive, FilterOwnsApart, RetiredApart, ReadyApart, ReapInv, Pointers,
      RetiredBridge
<1>11. ASSUME NEW t \in Threads, ClearHazard(t) PROVE ReadyApart'
  BY <1>11 DEF ClearHazard, TypeOK, slotVars, controlVars, readerVars, reaperVars, MutexFree,
      PublishInv, OwnedAlive, FilterOwnsApart, RetiredApart, ReadyApart, ReapInv, Pointers,
      RetiredBridge
<1>12. ASSUME NEW t \in Threads, ReleaseSlot(t) PROVE ReadyApart'
  BY <1>12 DEF ReleaseSlot, TypeOK, slotVars, controlVars, readerVars, reaperVars, MutexFree,
      PublishInv, OwnedAlive, FilterOwnsApart, RetiredApart, ReadyApart, ReapInv, Pointers,
      RetiredBridge
<1>13. ASSUME NEW p \in Reapers, BeginReap(p) PROVE ReadyApart'
  BY <1>13 DEF BeginReap, TypeOK, slotVars, controlVars, readerVars, reaperVars, MutexFree,
      PublishInv, OwnedAlive, FilterOwnsApart, RetiredApart, ReadyApart, ReapInv, Pointers,
      RetiredBridge
<1>14. ASSUME NEW p \in Reapers, NEW e \in RetiredBridge, NextEntry(p, e) PROVE ReadyApart'
  BY <1>14 DEF NextEntry, TypeOK, slotVars, controlVars, readerVars, reaperVars, MutexFree,
      PublishInv, OwnedAlive, FilterOwnsApart, RetiredApart, ReadyApart, ReapInv, Pointers,
      RetiredBridge
<1>15. ASSUME NEW p \in Reapers, InspectSlot(p) PROVE ReadyApart'
  <2>1. entry[p] \in retired
    BY <1>15 DEF InspectSlot, ReapInv
  <2>2. UNCHANGED <<bridge_owner, next, previous>>
    BY <1>15 DEF InspectSlot, controlVars
  <2>3. CASE ready' = ready /\ retired' = retired
    BY <2>2, <2>3 DEF ReadyApart
  <2>4. CASE ready' = [ready EXCEPT ![p] = @ \cup {entry[p]}] /\ retired' = retired \ {entry[p]}
    <3>1. \A q \in Reapers : \A e \in ready'[q] : e \in ready[q] \/ (q = p /\ e = entry[p])
      BY <2>4 DEF TypeOK
    <3>2. \A q \in Reapers : \A e \in ready[q] : e.bridge # entry[p].bridge
      BY <2>1 DEF ReadyApart
    <3>3. /\ \A f \in Filters : entry[p].bridge \notin {bridge_owner[f], next[f], previous[f]}
          /\ \A d \in retired \ {entry[p]} : d.bridge # entry[p].bridge
      BY <2>1 DEF RetiredApart
    <3> QED BY <2>2, <2>4, <3>1, <3>2, <3>3 DEF ReadyApart
  <2> QED BY <1>15, <2>3, <2>4 DEF InspectSlot
<1>16. ASSUME NEW p \in Reapers, EndScan(p) PROVE ReadyApart'
  BY <1>16 DEF EndScan, TypeOK, slotVars, controlVars, readerVars, reaperVars, MutexFree,
      PublishInv, OwnedAlive, FilterOwnsApart, RetiredApart, ReadyApart, ReapInv, Pointers,
      RetiredBridge
<1>17. ASSUME NEW p \in Reapers, NEW e \in RetiredBridge, DestroyBridge(p, e) PROVE ReadyApart'
  BY <1>17 DEF DestroyBridge, TypeOK, slotVars, controlVars, readerVars, reaperVars, MutexFree,
      PublishInv, OwnedAlive, FilterOwnsApart, RetiredApart, ReadyApart, ReapInv, Pointers,
      RetiredBridge
<1>18. ASSUME NEW p \in Reapers, EndReap(p) PROVE ReadyApart'
  BY <1>18 DEF EndReap, TypeOK, slotVars, controlVars, readerVars, reaperVars, MutexFree,
      PublishInv, OwnedAlive, FilterOwnsApart, RetiredApart, ReadyApart, ReapInv, Pointers,
      RetiredBridge
<1>19. CASE UNCHANGED vars
  BY <1>19 DEF vars, TypeOK, slotVars, controlVars, readerVars, reaperVars, MutexFree, PublishInv,
      OwnedAlive, FilterOwnsApart, RetiredApart, ReadyApart, ReapInv, Pointers, RetiredBridge
<1> QED
  BY <1>1, <1>2, <1>3, <1>4, <1>5, <1>6, <1>7, <1>8, <1>9, <1>10, <1>11, <1>12, <1>13, <1>14,
      <1>15, <1>16, <1>17, <1>18, <1>19 DEF Next, ControlStep, ReaderStep, ReaperStep

(* A bridge passes from owner to owner until it is destroyed. *)
LEMMA AliveOwnedStep ==
  ASSUME TypeOK, PublishInv, ReapInv, AliveOwned, [Next]_vars
  PROVE  AliveOwned'
<1>1. ASSUME NEW f \in Filters, NEW a \in Addresses, StartCandidate(f, a) PROVE AliveOwned'
  <2>1. /\ alive' = alive \cup {a} /\ next'[f] = a
        /\ UNCHANGED <<bridge_owner, previous, retired, ready>>
        /\ \A g \in Filters : g # f => next'[g] = next[g]
    BY <1>1 DEF StartCandidate, TypeOK, reaperVars
  <2>2. next[f] = Null
    BY <1>1 DEF StartCandidate, PublishInv
  <2>3. Null \notin alive
    BY DEF TypeOK
  <2> QED BY <2>1, <2>2, <2>3 DEF AliveOwned
<1>2. ASSUME NEW f \in Filters, DropCandidate(f) PROVE AliveOwned'
  BY <1>2 DEF DropCandidate, TypeOK, slotVars, controlVars, readerVars, reaperVars, MutexFree,
      PublishInv, ReapInv, AliveOwned, Pointers, RetiredBridge
<1>3. ASSUME NEW f \in Filters, SwapOwner(f) PROVE AliveOwned'
  BY <1>3 DEF SwapOwner, TypeOK, slotVars, controlVars, readerVars, reaperVars, MutexFree,
      PublishInv, ReapInv, AliveOwned, Pointers, RetiredBridge
<1>4. ASSUME NEW f \in Filters, StoreActive(f) PROVE AliveOwned'
  BY <1>4 DEF StoreActive, TypeOK, slotVars, controlVars, readerVars, reaperVars, MutexFree,
      PublishInv, ReapInv, AliveOwned, Pointers, RetiredBridge
<1>5. ASSUME NEW f \in Filters, RetireBridge(f) PROVE AliveOwned'
  <2>1. CASE previous[f] = Null
    BY <1>5, <2>1 DEF RetireBridge, AliveOwned, TypeOK, reaperVars
  <2>2. CASE previous[f] # Null
    <3>1. retired' = retired \cup {[bridge |-> previous[f], state |-> f]}
      BY <1>5, <2>2 DEF RetireBridge
    <3>2. /\ UNCHANGED <<alive, bridge_owner, next, ready>>
          /\ \A g \in Filters : g # f => previous'[g] = previous[g]
      BY <1>5 DEF RetireBridge, TypeOK, reaperVars
    <3>3. \E e \in retired' : e.bridge = previous[f]
      <4> DEFINE r == [bridge |-> previous[f], state |-> f]
      <4>1. r \in retired' /\ r.bridge = previous[f]
        BY <3>1
      <4> HIDE DEF r
      <4> QED BY <4>1
    <3>4. retired \subseteq retired'
      BY <3>1
    <3> QED BY <3>2, <3>3, <3>4 DEF AliveOwned
  <2> QED BY <2>1, <2>2
<1>6. ASSUME NEW t \in Threads, NEW f \in Filters, BeginRead(t, f) PROVE AliveOwned'
  BY <1>6 DEF BeginRead, TypeOK, slotVars, controlVars, readerVars, reaperVars, MutexFree,
      PublishInv, ReapInv, AliveOwned, Pointers, RetiredBridge
<1>7. ASSUME NEW t \in Threads, ClaimSlot(t) PROVE AliveOwned'
  BY <1>7 DEF ClaimSlot, TypeOK, slotVars, controlVars, readerVars, reaperVars, MutexFree,
      PublishInv, ReapInv, AliveOwned, Pointers, RetiredBridge
<1>8. ASSUME NEW t \in Threads, LoadActive(t) PROVE AliveOwned'
  BY <1>8 DEF LoadActive, TypeOK, slotVars, controlVars, readerVars, reaperVars, MutexFree,
      PublishInv, ReapInv, AliveOwned, Pointers, RetiredBridge
<1>9. ASSUME NEW t \in Threads, StoreHazard(t) PROVE AliveOwned'
  BY <1>9 DEF StoreHazard, TypeOK, slotVars, controlVars, readerVars, reaperVars, MutexFree,
      PublishInv, ReapInv, AliveOwned, Pointers, RetiredBridge
<1>10. ASSUME NEW t \in Threads, RecheckActive(t) PROVE AliveOwned'
  BY <1>10 DEF RecheckActive, TypeOK, slotVars, controlVars, readerVars, reaperVars, MutexFree,
      PublishInv, ReapInv, AliveOwned, Pointers, RetiredBridge
<1>11. ASSUME NEW t \in Threads, ClearHazard(t) PROVE AliveOwned'
  BY <1>11 DEF ClearHazard, TypeOK, slotVars, controlVars, readerVars, reaperVars, MutexFree,
      PublishInv, ReapInv, AliveOwned, Pointers, RetiredBridge
<1>12. ASSUME NEW t \in Threads, ReleaseSlot(t) PROVE AliveOwned'
  BY <1>12 DEF ReleaseSlot, TypeOK, slotVars, controlVars, readerVars, reaperVars, MutexFree,
      PublishInv, ReapInv, AliveOwned, Pointers, RetiredBridge
<1>13. ASSUME NEW p \in Reapers, BeginReap(p) PROVE AliveOwned'
  BY <1>13 DEF BeginReap, TypeOK, slotVars, controlVars, readerVars, reaperVars, MutexFree,
      PublishInv, ReapInv, AliveOwned, Pointers, RetiredBridge
<1>14. ASSUME NEW p \in Reapers, NEW e \in RetiredBridge, NextEntry(p, e) PROVE AliveOwned'
  BY <1>14 DEF NextEntry, TypeOK, slotVars, controlVars, readerVars, reaperVars, MutexFree,
      PublishInv, ReapInv, AliveOwned, Pointers, RetiredBridge
<1>15. ASSUME NEW p \in Reapers, InspectSlot(p) PROVE AliveOwned'
  <2>1. UNCHANGED <<alive, bridge_owner, next, previous>>
    BY <1>15 DEF InspectSlot, controlVars
  <2>2. CASE retired' = retired /\ ready' = ready
    BY <2>1, <2>2 DEF AliveOwned
  <2>3. CASE retired' = retired \ {entry[p]} /\ ready' = [ready EXCEPT ![p] = @ \cup {entry[p]}]
    <3>1. \A q \in Reapers : ready[q] \subseteq ready'[q]
      BY <2>3 DEF TypeOK
    <3>2. entry[p] \in ready'[p]
      BY <2>3 DEF TypeOK
    <3>3. \A e \in retired : e \in retired' \/ e = entry[p]
      BY <2>3
    <3> QED BY <2>1, <3>1, <3>2, <3>3 DEF AliveOwned
  <2> QED BY <1>15, <2>2, <2>3 DEF InspectSlot
<1>16. ASSUME NEW p \in Reapers, EndScan(p) PROVE AliveOwned'
  BY <1>16 DEF EndScan, TypeOK, slotVars, controlVars, readerVars, reaperVars, MutexFree,
      PublishInv, ReapInv, AliveOwned, Pointers, RetiredBridge
<1>17. ASSUME NEW p \in Reapers, NEW e \in RetiredBridge, DestroyBridge(p, e) PROVE AliveOwned'
  BY <1>17 DEF DestroyBridge, TypeOK, slotVars, controlVars, readerVars, reaperVars, MutexFree,
      PublishInv, ReapInv, AliveOwned, Pointers, RetiredBridge
<1>18. ASSUME NEW p \in Reapers, EndReap(p) PROVE AliveOwned'
  BY <1>18 DEF EndReap, TypeOK, slotVars, controlVars, readerVars, reaperVars, MutexFree,
      PublishInv, ReapInv, AliveOwned, Pointers, RetiredBridge
<1>19. CASE UNCHANGED vars
  BY <1>19 DEF vars, TypeOK, slotVars, controlVars, readerVars, reaperVars, MutexFree, PublishInv,
      ReapInv, AliveOwned, Pointers, RetiredBridge
<1> QED
  BY <1>1, <1>2, <1>3, <1>4, <1>5, <1>6, <1>7, <1>8, <1>9, <1>10, <1>11, <1>12, <1>13, <1>14,
      <1>15, <1>16, <1>17, <1>18, <1>19 DEF Next, ControlStep, ReaderStep, ReaperStep

(* A reader that validated its candidate keeps it owned by its filter: the
   reaper does not move an entry whose slots it has all inspected while the
   hazard of that reader is in one of them. *)
LEMMA UsesOwnStep ==
  ASSUME TypeOK, SlotInv, PublishInv, ReapInv, UsesOwnBridge, [Next]_vars
  PROVE  UsesOwnBridge'
<1>1. ASSUME NEW f \in Filters, NEW a \in Addresses, StartCandidate(f, a) PROVE UsesOwnBridge'
  BY <1>1 DEF StartCandidate, TypeOK, slotVars, controlVars, readerVars, reaperVars, MutexFree,
      SlotInv, HoldsSlot, PublishInv, ReapInv, UsesOwnBridge, Using, Pointers, RetiredBridge,
      Slots
<1>2. ASSUME NEW f \in Filters, DropCandidate(f) PROVE UsesOwnBridge'
  BY <1>2 DEF DropCandidate, TypeOK, slotVars, controlVars, readerVars, reaperVars, MutexFree,
      SlotInv, HoldsSlot, PublishInv, ReapInv, UsesOwnBridge, Using, Pointers, RetiredBridge,
      Slots
<1>3. ASSUME NEW f \in Filters, SwapOwner(f) PROVE UsesOwnBridge'
  BY <1>3 DEF SwapOwner, TypeOK, slotVars, controlVars, readerVars, reaperVars, MutexFree,
      SlotInv, HoldsSlot, PublishInv, ReapInv, UsesOwnBridge, Using, Pointers, RetiredBridge,
      Slots
<1>4. ASSUME NEW f \in Filters, StoreActive(f) PROVE UsesOwnBridge'
  BY <1>4 DEF StoreActive, TypeOK, slotVars, controlVars, readerVars, reaperVars, MutexFree,
      SlotInv, HoldsSlot, PublishInv, ReapInv, UsesOwnBridge, Using, Pointers, RetiredBridge,
      Slots
<1>5. ASSUME NEW f \in Filters, RetireBridge(f) PROVE UsesOwnBridge'
  BY <1>5 DEF RetireBridge, TypeOK, slotVars, controlVars, readerVars, reaperVars, MutexFree,
      SlotInv, HoldsSlot, PublishInv, ReapInv, UsesOwnBridge, Using, Pointers, RetiredBridge,
      Slots
<1>6. ASSUME NEW t \in Threads, NEW f \in Filters, BeginRead(t, f) PROVE UsesOwnBridge'
  BY <1>6 DEF BeginRead, TypeOK, slotVars, controlVars, readerVars, reaperVars, MutexFree,
      SlotInv, HoldsSlot, PublishInv, ReapInv, UsesOwnBridge, Using, Pointers, RetiredBridge,
      Slots
<1>7. ASSUME NEW t \in Threads, ClaimSlot(t) PROVE UsesOwnBridge'
  BY <1>7 DEF ClaimSlot, TypeOK, slotVars, controlVars, readerVars, reaperVars, MutexFree,
      SlotInv, HoldsSlot, PublishInv, ReapInv, UsesOwnBridge, Using, Pointers, RetiredBridge,
      Slots
<1>8. ASSUME NEW t \in Threads, LoadActive(t) PROVE UsesOwnBridge'
  BY <1>8 DEF LoadActive, TypeOK, slotVars, controlVars, readerVars, reaperVars, MutexFree,
      SlotInv, HoldsSlot, PublishInv, ReapInv, UsesOwnBridge, Using, Pointers, RetiredBridge,
      Slots
<1>9. ASSUME NEW t \in Threads, StoreHazard(t) PROVE UsesOwnBridge'
  BY <1>9 DEF StoreHazard, TypeOK, slotVars, controlVars, readerVars, reaperVars, MutexFree,
      SlotInv, HoldsSlot, PublishInv, ReapInv, UsesOwnBridge, Using, Pointers, RetiredBridge,
      Slots
<1>10. ASSUME NEW t \in Threads, RecheckActive(t) PROVE UsesOwnBridge'
  BY <1>10 DEF RecheckActive, TypeOK, slotVars, controlVars, readerVars, reaperVars, MutexFree,
      SlotInv, HoldsSlot, PublishInv, ReapInv, UsesOwnBridge, Using, Pointers, RetiredBridge,
      Slots
<1>11. ASSUME NEW t \in Threads, ClearHazard(t) PROVE UsesOwnBridge'
  BY <1>11 DEF ClearHazard, TypeOK, slotVars, controlVars, readerVars, reaperVars, MutexFree,
      SlotInv, HoldsSlot, PublishInv, ReapInv, UsesOwnBridge, Using, Pointers, RetiredBridge,
      Slots
<1>12. ASSUME NEW t \in Threads, ReleaseSlot(t) PROVE UsesOwnBridge'
  BY <1>12 DEF ReleaseSlot, TypeOK, slotVars, controlVars, readerVars, reaperVars, MutexFree,
      SlotInv, HoldsSlot, PublishInv, ReapInv, UsesOwnBridge, Using, Pointers, RetiredBridge,
      Slots
<1>13. ASSUME NEW p \in Reapers, BeginReap(p) PROVE UsesOwnBridge'
  BY <1>13 DEF BeginReap, TypeOK, slotVars, controlVars, readerVars, reaperVars, MutexFree,
      SlotInv, HoldsSlot, PublishInv, ReapInv, UsesOwnBridge, Using, Pointers, RetiredBridge,
      Slots
<1>14. ASSUME NEW p \in Reapers, NEW e \in RetiredBridge, NextEntry(p, e) PROVE UsesOwnBridge'
  BY <1>14 DEF NextEntry, TypeOK, slotVars, controlVars, readerVars, reaperVars, MutexFree,
      SlotInv, HoldsSlot, PublishInv, ReapInv, UsesOwnBridge, Using, Pointers, RetiredBridge,
      Slots
<1>15. ASSUME NEW p \in Reapers, InspectSlot(p) PROVE UsesOwnBridge'
  BY <1>15 DEF InspectSlot, TypeOK, slotVars, controlVars, readerVars, reaperVars, MutexFree,
      SlotInv, HoldsSlot, PublishInv, ReapInv, UsesOwnBridge, Using, Pointers, RetiredBridge,
      Slots
<1>16. ASSUME NEW p \in Reapers, EndScan(p) PROVE UsesOwnBridge'
  BY <1>16 DEF EndScan, TypeOK, slotVars, controlVars, readerVars, reaperVars, MutexFree, SlotInv,
      HoldsSlot, PublishInv, ReapInv, UsesOwnBridge, Using, Pointers, RetiredBridge, Slots
<1>17. ASSUME NEW p \in Reapers, NEW e \in RetiredBridge, DestroyBridge(p, e) PROVE UsesOwnBridge'
  BY <1>17 DEF DestroyBridge, TypeOK, slotVars, controlVars, readerVars, reaperVars, MutexFree,
      SlotInv, HoldsSlot, PublishInv, ReapInv, UsesOwnBridge, Using, Pointers, RetiredBridge,
      Slots
<1>18. ASSUME NEW p \in Reapers, EndReap(p) PROVE UsesOwnBridge'
  BY <1>18 DEF EndReap, TypeOK, slotVars, controlVars, readerVars, reaperVars, MutexFree, SlotInv,
      HoldsSlot, PublishInv, ReapInv, UsesOwnBridge, Using, Pointers, RetiredBridge, Slots
<1>19. CASE UNCHANGED vars
  BY <1>19 DEF vars, TypeOK, slotVars, controlVars, readerVars, reaperVars, MutexFree, SlotInv,
      HoldsSlot, PublishInv, ReapInv, UsesOwnBridge, Using, Pointers, RetiredBridge, Slots
<1> QED
  BY <1>1, <1>2, <1>3, <1>4, <1>5, <1>6, <1>7, <1>8, <1>9, <1>10, <1>11, <1>12, <1>13, <1>14,
      <1>15, <1>16, <1>17, <1>18, <1>19 DEF Next, ControlStep, ReaderStep, ReaperStep

(* While the reaper scans the slots of an entry, a reader that uses the entry
   announces it in a slot the scan has not passed. *)
LEMMA ReapStep ==
  ASSUME TypeOK, SlotInv, PublishInv, FilterOwnsApart, RetiredApart, ReapInv, UsesOwnBridge, [Next]_vars
  PROVE  ReapInv'
<1>1. ASSUME NEW f \in Filters, NEW a \in Addresses, StartCandidate(f, a) PROVE ReapInv'
  BY <1>1 DEF StartCandidate, TypeOK, slotVars, controlVars, readerVars, reaperVars, MutexFree,
      SlotInv, HoldsSlot, PublishInv, RetiredApart, ReapInv, UsesOwnBridge, Using, Pointers,
      RetiredBridge, Slots
<1>2. ASSUME NEW f \in Filters, DropCandidate(f) PROVE ReapInv'
  BY <1>2 DEF DropCandidate, TypeOK, slotVars, controlVars, readerVars, reaperVars, MutexFree,
      SlotInv, HoldsSlot, PublishInv, RetiredApart, ReapInv, UsesOwnBridge, Using, Pointers,
      RetiredBridge, Slots
<1>3. ASSUME NEW f \in Filters, SwapOwner(f) PROVE ReapInv'
  BY <1>3 DEF SwapOwner, TypeOK, slotVars, controlVars, readerVars, reaperVars, MutexFree,
      SlotInv, HoldsSlot, PublishInv, RetiredApart, ReapInv, UsesOwnBridge, Using, Pointers,
      RetiredBridge, Slots
<1>4. ASSUME NEW f \in Filters, StoreActive(f) PROVE ReapInv'
  BY <1>4 DEF StoreActive, TypeOK, slotVars, controlVars, readerVars, reaperVars, MutexFree,
      SlotInv, HoldsSlot, PublishInv, RetiredApart, ReapInv, UsesOwnBridge, Using, Pointers,
      RetiredBridge, Slots
<1>5. ASSUME NEW f \in Filters, RetireBridge(f) PROVE ReapInv'
  BY <1>5 DEF RetireBridge, TypeOK, slotVars, controlVars, readerVars, reaperVars, MutexFree,
      SlotInv, HoldsSlot, PublishInv, RetiredApart, ReapInv, UsesOwnBridge, Using, Pointers,
      RetiredBridge, Slots
<1>6. ASSUME NEW t \in Threads, NEW f \in Filters, BeginRead(t, f) PROVE ReapInv'
  BY <1>6 DEF BeginRead, TypeOK, slotVars, controlVars, readerVars, reaperVars, MutexFree,
      SlotInv, HoldsSlot, PublishInv, RetiredApart, ReapInv, UsesOwnBridge, Using, Pointers,
      RetiredBridge, Slots
<1>7. ASSUME NEW t \in Threads, ClaimSlot(t) PROVE ReapInv'
  BY <1>7 DEF ClaimSlot, TypeOK, slotVars, controlVars, readerVars, reaperVars, MutexFree,
      SlotInv, HoldsSlot, PublishInv, RetiredApart, ReapInv, UsesOwnBridge, Using, Pointers,
      RetiredBridge, Slots
<1>8. ASSUME NEW t \in Threads, LoadActive(t) PROVE ReapInv'
  BY <1>8 DEF LoadActive, TypeOK, slotVars, controlVars, readerVars, reaperVars, MutexFree,
      SlotInv, HoldsSlot, PublishInv, RetiredApart, ReapInv, UsesOwnBridge, Using, Pointers,
      RetiredBridge, Slots
<1>9. ASSUME NEW t \in Threads, StoreHazard(t) PROVE ReapInv'
  BY <1>9 DEF StoreHazard, TypeOK, slotVars, controlVars, readerVars, reaperVars, MutexFree,
      SlotInv, HoldsSlot, PublishInv, RetiredApart, ReapInv, UsesOwnBridge, Using, Pointers,
      RetiredBridge, Slots
<1>10. ASSUME NEW t \in Threads, RecheckActive(t) PROVE ReapInv'
  BY <1>10 DEF RecheckActive, TypeOK, slotVars, controlVars, readerVars, reaperVars, MutexFree,
      SlotInv, HoldsSlot, PublishInv, RetiredApart, ReapInv, UsesOwnBridge, Using, Pointers,
      RetiredBridge, Slots
<1>11. ASSUME NEW t \in Threads, ClearHazard(t) PROVE ReapInv'
  BY <1>11 DEF ClearHazard, TypeOK, slotVars, controlVars, readerVars, reaperVars, MutexFree,
      SlotInv, HoldsSlot, PublishInv, RetiredApart, ReapInv, UsesOwnBridge, Using, Pointers,
      RetiredBridge, Slots
<1>12. ASSUME NEW t \in Threads, ReleaseSlot(t) PROVE ReapInv'
  BY <1>12 DEF ReleaseSlot, TypeOK, slotVars, controlVars, readerVars, reaperVars, MutexFree,
      SlotInv, HoldsSlot, PublishInv, RetiredApart, ReapInv, UsesOwnBridge, Using, Pointers,
      RetiredBridge, Slots
<1>13. ASSUME NEW p \in Reapers, BeginReap(p) PROVE ReapInv'
  BY <1>13 DEF BeginReap, TypeOK, slotVars, controlVars, readerVars, reaperVars, MutexFree,
      SlotInv, HoldsSlot, PublishInv, RetiredApart, ReapInv, UsesOwnBridge, Using, Pointers,
      RetiredBridge, Slots
<1>14. ASSUME NEW p \in Reapers, NEW e \in RetiredBridge, NextEntry(p, e) PROVE ReapInv'
  <2>1. e \in retired
    BY <1>14 DEF NextEntry, ReapInv
  <2>2. /\ UNCHANGED <<retired, reader, candidate, slot, inspected>>
        /\ \A q \in Reapers : q # p => reaper'[q] = reaper[q] /\ todo'[q] = todo[q] /\ entry'[q] = entry[q]
        /\ reaper[p] = "scan" /\ reaper'[p] = "inspect" /\ todo'[p] = todo[p] \ {e} /\ entry'[p] = e
    BY <1>14 DEF NextEntry, TypeOK, readerVars
  <2>3. \A q \in Reapers : reaper[q] \in {"scan", "inspect"} => q = p
    BY <2>2 DEF ReapInv
  <2>4. inspected[p] = 1
    BY <2>2 DEF ReapInv
  <2>5. \A t \in Threads : slot[t] >= inspected[p]
    BY <2>4 DEF TypeOK, Slots
  <2> QED BY <2>1, <2>2, <2>3, <2>4, <2>5 DEF ReapInv, Using
<1>15. ASSUME NEW p \in Reapers, InspectSlot(p) PROVE ReapInv'
  <2>1. /\ reaper[p] = "inspect" /\ entry[p] \in retired /\ entry[p] \notin todo[p]
        /\ todo[p] \subseteq retired
    BY <1>15 DEF InspectSlot, ReapInv
  <2>2. \A q \in Reapers : reaper[q] \in {"scan", "inspect"} => q = p
    BY <2>1 DEF ReapInv
  <2>3. /\ UNCHANGED <<reader, candidate, slot, todo, entry>>
        /\ \A q \in Reapers : q # p => reaper'[q] = reaper[q] /\ inspected'[q] = inspected[q]
    BY <1>15 DEF InspectSlot, TypeOK, readerVars
  <2>4. CASE reaper'[p] = "scan" /\ inspected'[p] = 1
    <3>1. retired' = retired \/ retired' = retired \ {entry[p]}
      BY <1>15 DEF InspectSlot
    <3> QED BY <2>1, <2>2, <2>3, <2>4, <3>1 DEF ReapInv, Using
  <2>5. CASE /\ hazard[entry[p].state][inspected[p]] # entry[p].bridge
             /\ UNCHANGED <<retired, reaper>>
             /\ inspected' = [inspected EXCEPT ![p] = @ + 1]
    <3>1. ASSUME NEW t \in Threads, Using(t, entry[p].bridge)
          PROVE  slot[t] > inspected[p]
      <4>1. /\ entry[p].bridge \in Addresses /\ entry[p].state \in Filters
            /\ entry[p] = [bridge |-> entry[p].bridge, state |-> entry[p].state]
        BY <2>1 DEF TypeOK, RetiredBridge
      <4>2. filter[t] \in Filters /\ hazard[filter[t]][slot[t]] = entry[p].bridge
        BY <3>1 DEF SlotInv, TypeOK, Using
      <4>3. filter[t] = entry[p].state
        <5>1. entry[p].bridge \notin {bridge_owner[filter[t]], previous[filter[t]]}
          BY <2>1, <4>2 DEF RetiredApart
        <5>2. [bridge |-> entry[p].bridge, state |-> filter[t]] \in retired
          BY <3>1, <4>1, <5>1 DEF UsesOwnBridge
        <5>3. [bridge |-> entry[p].bridge, state |-> filter[t]] = entry[p]
          BY <2>1, <5>2 DEF RetiredApart
        <5> QED BY <4>1, <5>3
      <4>4. slot[t] >= inspected[p]
        BY <2>1, <3>1 DEF ReapInv
      <4> QED BY <2>5, <4>2, <4>3, <4>4 DEF TypeOK, Slots
    <3>2. inspected'[p] = inspected[p] + 1
      BY <2>5 DEF TypeOK
    <3>3. \A t \in Threads : Using(t, entry[p].bridge) => slot[t] >= inspected[p] + 1
      BY <3>1 DEF TypeOK, Slots
    <3> QED BY <2>1, <2>2, <2>3, <2>5, <3>2, <3>3 DEF ReapInv, Using
  <2> QED BY <1>15, <2>4, <2>5 DEF InspectSlot, TypeOK
<1>16. ASSUME NEW p \in Reapers, EndScan(p) PROVE ReapInv'
  BY <1>16 DEF EndScan, TypeOK, slotVars, controlVars, readerVars, reaperVars, MutexFree, SlotInv,
      HoldsSlot, PublishInv, RetiredApart, ReapInv, UsesOwnBridge, Using, Pointers,
      RetiredBridge, Slots
<1>17. ASSUME NEW p \in Reapers, NEW e \in RetiredBridge, DestroyBridge(p, e) PROVE ReapInv'
  BY <1>17 DEF DestroyBridge, TypeOK, slotVars, controlVars, readerVars, reaperVars, MutexFree,
      SlotInv, HoldsSlot, PublishInv, RetiredApart, ReapInv, UsesOwnBridge, Using, Pointers,
      RetiredBridge, Slots
<1>18. ASSUME NEW p \in Reapers, EndReap(p) PROVE ReapInv'
  BY <1>18 DEF EndReap, TypeOK, slotVars, controlVars, readerVars, reaperVars, MutexFree, SlotInv,
      HoldsSlot, PublishInv, RetiredApart, ReapInv, UsesOwnBridge, Using, Pointers,
      RetiredBridge, Slots
<1>19. CASE UNCHANGED vars
  BY <1>19 DEF vars, TypeOK, slotVars, controlVars, readerVars, reaperVars, MutexFree, SlotInv,
      HoldsSlot, PublishInv, RetiredApart, ReapInv, UsesOwnBridge, Using, Pointers,
      RetiredBridge, Slots
<1> QED
  BY <1>1, <1>2, <1>3, <1>4, <1>5, <1>6, <1>7, <1>8, <1>9, <1>10, <1>11, <1>12, <1>13, <1>14,
      <1>15, <1>16, <1>17, <1>18, <1>19 DEF Next, ControlStep, ReaderStep, ReaperStep

(* The inductive invariant, for every number of filters, threads, reapers and
   hazard slots, and however addresses are reused. *)
THEOREM BridgeSafety == Spec => []SafetyInv
<1>1. Init => SafetyInv
  BY DEF Init, SafetyInv, TypeOK, SlotInv, HoldsSlot, PublishInv, OwnedAlive, FilterOwnsApart,
      RetiredApart, ReadyApart, AliveOwned, ReapInv, UsesOwnBridge, Using, Slots, Pointers,
      Attempts
<1>2. SafetyInv /\ [Next]_vars => SafetyInv'
  BY TypeStep, SlotStep, PublishStep, OwnedAliveStep, FilterOwnsApartStep, RetiredApartStep,
      ReadyApartStep, AliveOwnedStep, UsesOwnStep, ReapStep DEF SafetyInv
<1> QED BY <1>1, <1>2, PTL DEF Spec

(* The variables stay in range, whatever the threads of OBS do.             *)
THEOREM BridgeTypes == Spec => []TypeOK
<1>1. SafetyInv => TypeOK
  BY DEF SafetyInv
<1> QED BY <1>1, BridgeSafety, PTL

(* filter_audio never runs process() of a destroyed bridge. *)
THEOREM BridgeNoUseAfterDestroy == Spec => []NoUseAfterDestroy
<1>1. SafetyInv => NoUseAfterDestroy
  <2>1. SUFFICES ASSUME SafetyInv, NEW t \in Threads, NEW b \in Addresses, Using(t, b)
                 PROVE  b \in alive
    BY DEF NoUseAfterDestroy
  <2>2. filter[t] \in Filters /\ b # Null
    BY <2>1 DEF SafetyInv, TypeOK, Using
  <2>3. CASE b \in {bridge_owner[filter[t]], previous[filter[t]]}
    BY <2>1, <2>2, <2>3 DEF SafetyInv, OwnedAlive
  <2>4. CASE [bridge |-> b, state |-> filter[t]] \in retired
    BY <2>1, <2>4 DEF SafetyInv, OwnedAlive
  <2> QED BY <2>1, <2>3, <2>4 DEF SafetyInv, UsesOwnBridge
<1> QED BY <1>1, BridgeSafety, PTL

(* filter_audio never runs process() of a bridge of another filter. *)
THEOREM BridgeUsesOwn == Spec => []UsesOwnBridge
<1>1. SafetyInv => UsesOwnBridge
  BY DEF SafetyInv
<1> QED BY <1>1, BridgeSafety, PTL

(* A bridge is destroyed exactly once and never leaked. *)
THEOREM BridgeOneOwner == Spec => []OneOwner
<1>1. ASSUME SafetyInv, NEW b \in Addresses, NEW x \in Owners(b), NEW y \in Owners(b)
      PROVE  x = y
  <2> DEFINE Owner(z) == \E f \in Filters : z = <<"owner", f>> /\ bridge_owner[f] = b
             Built(z) == \E f \in Filters : z = <<"next", f>> /\ next[f] = b
             Replaced(z) == \E f \in Filters : z = <<"previous", f>> /\ previous[f] = b
             Retired(z) == \E f \in Filters : z = <<"retired", f>> /\ [bridge |-> b, state |-> f] \in retired
             Ready(z) == \E p \in Reapers : z = <<"ready", p>> /\ \E e \in ready[p] : e.bridge = b
  <2>1. \A z \in Owners(b) : Owner(z) \/ Built(z) \/ Replaced(z) \/ Retired(z) \/ Ready(z)
    BY DEF Owners
  <2>2. b # Null
    OBVIOUS
  <2>3. CASE Owner(x)
    <3>1. ~ Built(y) /\ ~ Replaced(y) /\ (Owner(y) => x = y)
      BY <1>1, <2>2, <2>3 DEF SafetyInv, FilterOwnsApart
    <3>2. ~ Retired(y)
      BY <1>1, <2>3 DEF SafetyInv, RetiredApart
    <3>3. ~ Ready(y)
      BY <1>1, <2>3 DEF SafetyInv, ReadyApart
    <3> QED BY <2>1, <3>1, <3>2, <3>3
  <2>4. CASE Built(x)
    <3>1. ~ Owner(y) /\ ~ Replaced(y) /\ (Built(y) => x = y)
      BY <1>1, <2>2, <2>4 DEF SafetyInv, FilterOwnsApart
    <3>2. ~ Retired(y)
      BY <1>1, <2>4 DEF SafetyInv, RetiredApart
    <3>3. ~ Ready(y)
      BY <1>1, <2>4 DEF SafetyInv, ReadyApart
    <3> QED BY <2>1, <3>1, <3>2, <3>3
  <2>5. CASE Replaced(x)
    <3>1. ~ Owner(y) /\ ~ Built(y) /\ (Replaced(y) => x = y)
      BY <1>1, <2>2, <2>5 DEF SafetyInv, FilterOwnsApart
    <3>2. ~ Retired(y)
      BY <1>1, <2>5 DEF SafetyInv, RetiredApart
    <3>3. ~ Ready(y)
      BY <1>1, <2>5 DEF SafetyInv, ReadyApart
    <3> QED BY <2>1, <3>1, <3>2, <3>3
  <2>6. CASE Retired(x)
    <3>1. ~ Owner(y) /\ ~ Built(y) /\ ~ Replaced(y)
      BY <1>1, <2>6 DEF SafetyInv, RetiredApart
    <3>2. Retired(y) => x = y
      BY <1>1, <2>6 DEF SafetyInv, RetiredApart
    <3>3. ~ Ready(y)
      BY <1>1, <2>6 DEF SafetyInv, ReadyApart
    <3> QED BY <2>1, <3>1, <3>2, <3>3
  <2>7. CASE Ready(x)
    <3>1. ~ Owner(y) /\ ~ Built(y) /\ ~ Replaced(y) /\ ~ Retired(y)
      BY <1>1, <2>7 DEF SafetyInv, ReadyApart
    <3>2. Ready(y) => x = y
      BY <1>1, <2>7 DEF SafetyInv, ReadyApart
    <3> QED BY <2>1, <3>1, <3>2
  <2> QED BY <2>1, <2>3, <2>4, <2>5, <2>6, <2>7
<1>2. ASSUME SafetyInv, NEW b \in Addresses
      PROVE  b \in alive <=> Owners(b) # {}
  <2>1. \A e \in retired : e = [bridge |-> e.bridge, state |-> e.state] /\ e.state \in Filters
    BY <1>2 DEF SafetyInv, TypeOK, RetiredBridge
  <2>2. ASSUME b \in alive PROVE Owners(b) # {}
    <3>1. CASE \E f \in Filters : b \in {bridge_owner[f], next[f], previous[f]}
      BY <3>1 DEF Owners
    <3>2. CASE \E e \in retired : e.bridge = b
      <4>1. PICK e \in retired : e.bridge = b
        BY <3>2
      <4>2. e.state \in Filters /\ [bridge |-> b, state |-> e.state] \in retired
        BY <2>1, <4>1
      <4> QED BY <4>2 DEF Owners
    <3>3. CASE \E p \in Reapers : \E e \in ready[p] : e.bridge = b
      BY <3>3 DEF Owners
    <3> QED BY <1>2, <2>2, <3>1, <3>2, <3>3 DEF SafetyInv, AliveOwned
  <2>3. ASSUME NEW x \in Owners(b) PROVE b \in alive
    BY <1>2 DEF SafetyInv, OwnedAlive, Owners
  <2> QED BY <2>2, <2>3
<1>3. SafetyInv => OneOwner
  <2>1. SUFFICES ASSUME SafetyInv, NEW b \in Addresses
                 PROVE  Cardinality(Owners(b)) = IF b \in alive THEN 1 ELSE 0
    BY DEF OneOwner
  <2>2. CASE b \in alive
    <3>1. PICK x : x \in Owners(b)
      BY <1>2, <2>1, <2>2
    <3>2. Owners(b) = {x}
      BY <1>1, <2>1, <3>1
    <3> QED BY <2>2, <3>2, FS_Singleton
  <2>3. CASE b \notin alive
    <3>1. Owners(b) = {}
      BY <1>2, <2>1, <2>3
    <3> QED BY <2>3, <3>1, FS_EmptySet
  <2> QED BY <2>2, <2>3
<1> QED BY <1>3, BridgeSafety, PTL

=============================================================================
