----------------------- MODULE FilterRecovery_proofs -----------------------
(***************************************************************************)
(* Proofs about FilterRecovery: its inductive invariant, the types, and     *)
(* that what counts as saved can be restored.  Each part of the invariant   *)
(* has a lemma with one step per action.                                    *)
(***************************************************************************)
EXTENDS FilterRecovery, TLAPS

USE DEF vars, helperOnly, mostVars, tickVars

-----------------------------------------------------------------------------
(* What the larger steps do, field by field: a helper just started. *)
Fresh(p) ==
    /\ helper'.alive /\ helper'.id = p /\ helper'.state = 0 /\ helper'.dirty = 0
    /\ ~helper'.early /\ ~helper'.pending /\ helper'.command = "none" /\ helper'.serving = "idle"

(* StartSucceeds with the fields of the new helper. *)
Started(t) ==
    /\ At(t, "start")
    /\ UNCHANGED <<identity, shutting, published, observed, saved, stable, file, loose, policy,
                   edits, commands, faults>>
    /\ \/ BecomesIdle(t) /\ Unlock /\ UNCHANGED helper
       \/ /\ thread[t].first /\ ~shutting /\ UNCHANGED mutex
          /\ Fresh(thread[t].id) /\ ~helper'.fallback
          /\ thread' = [thread EXCEPT ![t].at = "load"]
       \/ /\ ~thread[t].first /\ ~shutting /\ UNCHANGED mutex
          /\ Fresh(thread[t].id) /\ helper'.fallback
          /\ thread' = [thread EXCEPT ![t].at = "finish"]

(* A start that ends: given up, or the first helper to be given its state, or a second one that gets *)
(* the fallback at once. *)
LEMMA StartShape ==
    ASSUME TypeOK, NEW t \in Threads, StartSucceeds(t)
    PROVE  Started(t) /\ helper' \in HelperStates
<1> USE RecoveryAssumption DEF TypeOK, ThreadStates, HelperStates, Selection, States, Generations
<1>1. CASE shutting
  BY <1>1 DEF StartSucceeds, Started
<1>2. CASE ~shutting
  <2>1. helper' = [FreshHelper(thread[t].id) EXCEPT !.fallback = ~thread[t].first]
    BY <1>2 DEF StartSucceeds
  <2>2. Fresh(thread[t].id) /\ helper' \in HelperStates /\ helper'.fallback = ~thread[t].first
    <3> DEFINE fresh == FreshHelper(thread[t].id)
               second == ~thread[t].first
    <3>1. /\ fresh \in HelperStates /\ fresh.alive /\ fresh.id = thread[t].id /\ fresh.state = 0
          /\ fresh.dirty = 0 /\ ~fresh.early /\ ~fresh.pending /\ fresh.command = "none"
          /\ fresh.serving = "idle"
      <4>1. /\ NoHelper \in HelperStates /\ NoHelper.state = 0 /\ NoHelper.dirty = 0
            /\ ~NoHelper.early /\ ~NoHelper.pending /\ NoHelper.command = "none"
            /\ NoHelper.serving = "idle"
        BY DEF NoHelper
      <4> QED
        BY <4>1 DEF FreshHelper
    <3>2. second \in BOOLEAN /\ helper' = [fresh EXCEPT !.fallback = second]
      BY <2>1
    <3> HIDE DEF fresh, second
    <3>3. helper'.fallback = second /\ helper' \in HelperStates
      BY <3>1, <3>2
    <3>4. Fresh(thread[t].id)
      BY <3>1, <3>2 DEF Fresh
    <3> QED
      BY <3>3, <3>4 DEF second
  <2>3. CASE thread[t].first
    BY <1>2, <2>2, <2>3 DEF StartSucceeds, Started
  <2>4. CASE ~thread[t].first
    BY <1>2, <2>2, <2>4 DEF StartSucceeds, Started
  <2> QED
    BY <2>3, <2>4
<1> QED
  BY <1>1, <1>2

(* Post, field by field. *)
Posted(command, payload) ==
    /\ helper'.alive = helper.alive /\ helper'.stalled = helper.stalled /\ helper'.id = helper.id
    /\ helper'.state = helper.state /\ helper'.dirty = helper.dirty /\ helper'.early = helper.early
    /\ helper'.fallback = helper.fallback /\ helper'.serving = helper.serving
    /\ helper'.pending = TRUE /\ helper'.command = command /\ helper'.status = "idle"
    /\ helper'.payload = payload /\ helper'.latest = FALSE

(* A request changes the mailbox and nothing else of the helper. *)
LEMMA PostShape ==
    ASSUME TypeOK, NEW command, NEW payload, Post(command, payload)
    PROVE  Posted(command, payload)
  BY DEF TypeOK, HelperStates, Post, Posted

(* LoadGood with the request it posts. *)
Reloaded(t) ==
    /\ At(t, "load") /\ file[thread[t].id] # None
    /\ thread' = [thread EXCEPT ![t].at = "restoring"]
    /\ UNCHANGED <<identity, shutting, mutex, published, observed, saved, stable, file, loose,
                   policy, edits, commands, faults>>
    /\ \/ helper.alive /\ Posted("restore", file[thread[t].id].edit)
       \/ ~helper.alive /\ UNCHANGED helper

(* A file that decodes is posted to the helper, if there is one still. *)
LEMMA LoadShape ==
    ASSUME TypeOK, NEW t \in Threads, LoadGood(t)
    PROVE  Reloaded(t)
<1>1. CASE helper.alive
  BY <1>1, PostShape DEF LoadGood, Running, Reloaded
<1>2. CASE ~helper.alive
  BY <1>2 DEF LoadGood, Running, Reloaded
<1> QED
  BY <1>1, <1>2

(* TickUnhealthy without the numbers of the back-off. *)
Backed ==
    /\ At("recovery", "idle") /\ ~shutting /\ mutex = None
    /\ UNCHANGED <<identity, shutting, mutex, helper, published, observed, saved, file, loose, edits,
                   commands, faults>>
    /\ UNCHANGED thread \/ thread' = [thread EXCEPT !["recovery"].at = "restart"]

(* A tick without a healthy helper waits or asks for a restart. *)
LEMMA UnhealthyShape == TickUnhealthy => Backed
  BY DEF TickUnhealthy, Backed

(* TickDirty without its counting. *)
Checkpoint ==
    thread' = [thread EXCEPT !["recovery"] =
                 [Idle EXCEPT !.at = "capture", !.id = identity, !.then = "idle", !.to = None]]
Looked ==
    /\ At("recovery", "dirty") /\ mutex = None
    /\ UNCHANGED <<identity, shutting, mutex, helper, published, saved, file, loose, edits, commands,
                   faults>>
    /\ \/ BecomesIdle("recovery")
       \/ identity # None /\ Checkpoint

(* A tick that looks at the dirty generation asks for a checkpoint or does nothing. *)
LEMMA DirtyShape == TickDirty => Looked
  BY DEF TickDirty, Looked, Captures, Checkpoint

-----------------------------------------------------------------------------
(* restart_mutex is held where the code holds it; every step. *)
LEMMA MutexStep ==
    TypeOK /\ MutexInv /\ [Next]_vars => MutexInv'
<1> SUFFICES ASSUME TypeOK /\ MutexInv, [Next]_vars PROVE MutexInv'
  OBVIOUS
<1> USE RecoveryAssumption DEF TypeOK, MutexInv, Threads, Holding, Restarting, ThreadStates, Places,
        Selection, At, Lock, Unlock, BecomesIdle, Continues, Fault, Responds, Accepted, Answered,
        Settled, Post, Idle, Discard, Command, Captures
<1>1. CASE Edit
  BY <1>1 DEF Edit
<1>2. CASE FallbackArrives
  BY <1>2 DEF FallbackArrives
<1>3. CASE TakeRequest
  BY <1>3 DEF TakeRequest
<1>4. CASE RefuseRequest
  BY <1>4 DEF RefuseRequest
<1>5. ASSUME NEW status \in {"ok", "failed"}, Answer(status) PROVE MutexInv'
  BY <1>5 DEF Answer
<1>6. CASE Crash
  BY <1>6 DEF Crash
<1>7. CASE Stall
  BY <1>7 DEF Stall
<1>8. CASE Unstall
  BY <1>8 DEF Unstall
<1>9. ASSUME NEW t \in Threads, CaptureSkipped(t) PROVE MutexInv'
  BY <1>9 DEF CaptureSkipped
<1>10. ASSUME NEW t \in Threads, CaptureAsks(t) PROVE MutexInv'
  BY <1>10 DEF CaptureAsks
<1>11. ASSUME NEW t \in Threads, CaptureFails(t) PROVE MutexInv'
  BY <1>11 DEF CaptureFails
<1>12. ASSUME NEW t \in Threads, CaptureSaves(t) PROVE MutexInv'
  BY <1>12 DEF CaptureSaves
<1>13. ASSUME NEW t \in Threads, RestartCancelled(t) PROVE MutexInv'
  BY <1>13 DEF RestartCancelled
<1>14. ASSUME NEW t \in Threads, RestartBegins(t) PROVE MutexInv'
  <2>1. CASE identity = None
    BY <1>14, <2>1 DEF RestartBegins
  <2>2. CASE identity # None
    BY <1>14, <2>2 DEF RestartBegins
  <2> QED
    BY <2>1, <2>2
<1>15. ASSUME NEW t \in Threads, StartSucceeds(t) PROVE MutexInv'
  <2>1. Started(t)
    BY <1>15, StartShape
  <2> QED
    BY <2>1 DEF Started, Fresh
<1>16. ASSUME NEW t \in Threads, StartFails(t) PROVE MutexInv'
  BY <1>16 DEF StartFails
<1>17. ASSUME NEW t \in Threads, LoadMissing(t) PROVE MutexInv'
  BY <1>17 DEF LoadMissing
<1>18. ASSUME NEW t \in Threads, LoadInvalid(t) PROVE MutexInv'
  BY <1>18 DEF LoadInvalid
<1>19. ASSUME NEW t \in Threads, LoadGood(t) PROVE MutexInv'
  <2>1. Reloaded(t)
    BY <1>19, LoadShape
  <2> QED
    BY <2>1 DEF Reloaded, Posted
<1>20. ASSUME NEW t \in Threads, RestoreAccepted(t) PROVE MutexInv'
  BY <1>20 DEF RestoreAccepted
<1>21. ASSUME NEW t \in Threads, RestoreRejected(t) PROVE MutexInv'
  BY <1>21 DEF RestoreRejected
<1>22. ASSUME NEW t \in Threads, Finish(t) PROVE MutexInv'
  BY <1>22 DEF Finish
<1>23. ASSUME NEW p \in Plugins \cup {None}, Update(p) PROVE MutexInv'
  BY <1>23 DEF Update
<1>24. CASE Switch
  BY <1>24 DEF Switch
<1>25. CASE Save
  BY <1>25 DEF Save
<1>26. CASE Destroy
  BY <1>26 DEF Destroy
<1>27. CASE RequestStop
  BY <1>27 DEF RequestStop
<1>28. CASE Join
  BY <1>28 DEF Join
<1>29. CASE RecoveryStarts
  BY <1>29 DEF RecoveryStarts
<1>30. CASE RecoveryEnds
  BY <1>30 DEF RecoveryEnds
<1>31. CASE TickWithoutPath
  BY <1>31 DEF TickWithoutPath
<1>32. CASE TickHealthy
  BY <1>32 DEF TickHealthy
<1>33. CASE TickUnhealthy
  <2>1. Backed
    BY <1>33, UnhealthyShape
  <2> QED
    BY <2>1 DEF Backed
<1>34. CASE TickDirty
  <2>1. Looked
    BY <1>34, DirtyShape
  <2>2. CASE BecomesIdle("recovery")
    BY <2>1, <2>2 DEF Looked
  <2>3. CASE identity # None /\ Checkpoint
    BY <2>1, <2>3 DEF Looked, Checkpoint
  <2> QED
    BY <2>1, <2>2, <2>3 DEF Looked
<1>35. CASE UNCHANGED vars
  BY <1>35 DEF vars
<1> QED
  BY <1>1, <1>2, <1>3, <1>4, <1>5, <1>6, <1>7, <1>8, <1>9, <1>10, <1>11, <1>12, <1>13, <1>14, <1>15,
     <1>16, <1>17, <1>18, <1>19, <1>20, <1>21, <1>22, <1>23, <1>24, <1>25, <1>26, <1>27, <1>28,
     <1>29, <1>30, <1>31, <1>32, <1>33, <1>34, <1>35 DEF Next, Helper, Procedures

(* Files keep their owners and the bridge is the selection's: the identity is read under the mutex, *)
(* and who changes it has a restart to come. *)
LEMMA BridgeStep ==
    TypeOK /\ MutexInv /\ BridgeInv /\ [Next]_vars => BridgeInv'
<1> SUFFICES ASSUME TypeOK /\ MutexInv /\ BridgeInv, [Next]_vars PROVE BridgeInv'
  OBVIOUS
<1> USE RecoveryAssumption DEF TypeOK, MutexInv, BridgeInv, Threads, Holding, Restarting,
        ThreadStates, HelperStates, Selection, Selected, Snapshots, FreshHelper, NoHelper,
        WorthCapturing, At, Lock, Unlock, BecomesIdle, Continues, Fault, Responds, Accepted,
        Answered, Settled, Post, Idle, Discard, Command, Captures
<1>1. CASE Edit
  BY <1>1 DEF Edit
<1>2. CASE FallbackArrives
  BY <1>2 DEF FallbackArrives
<1>3. CASE TakeRequest
  BY <1>3 DEF TakeRequest
<1>4. CASE RefuseRequest
  BY <1>4 DEF RefuseRequest
<1>5. ASSUME NEW status \in {"ok", "failed"}, Answer(status) PROVE BridgeInv'
  BY <1>5 DEF Answer
<1>6. CASE Crash
  BY <1>6 DEF Crash
<1>7. CASE Stall
  BY <1>7 DEF Stall
<1>8. CASE Unstall
  BY <1>8 DEF Unstall
<1>9. ASSUME NEW t \in Threads, CaptureSkipped(t) PROVE BridgeInv'
  BY <1>9 DEF CaptureSkipped
<1>10. ASSUME NEW t \in Threads, CaptureAsks(t) PROVE BridgeInv'
  BY <1>10 DEF CaptureAsks
<1>11. ASSUME NEW t \in Threads, CaptureFails(t) PROVE BridgeInv'
  BY <1>11 DEF CaptureFails
<1>12. ASSUME NEW t \in Threads, CaptureSaves(t) PROVE BridgeInv'
  BY <1>12 DEF CaptureSaves
<1>13. ASSUME NEW t \in Threads, RestartCancelled(t) PROVE BridgeInv'
  BY <1>13 DEF RestartCancelled
<1>14. ASSUME NEW t \in Threads, RestartBegins(t) PROVE BridgeInv'
  <2>1. CASE identity = None
    BY <1>14, <2>1 DEF RestartBegins
  <2>2. CASE identity # None
    BY <1>14, <2>2 DEF RestartBegins
  <2> QED
    BY <2>1, <2>2
<1>15. ASSUME NEW t \in Threads, StartSucceeds(t) PROVE BridgeInv'
  <2>1. Started(t)
    BY <1>15, StartShape
  <2> QED
    BY <2>1 DEF Started, Fresh
<1>16. ASSUME NEW t \in Threads, StartFails(t) PROVE BridgeInv'
  BY <1>16 DEF StartFails
<1>17. ASSUME NEW t \in Threads, LoadMissing(t) PROVE BridgeInv'
  BY <1>17 DEF LoadMissing
<1>18. ASSUME NEW t \in Threads, LoadInvalid(t) PROVE BridgeInv'
  BY <1>18 DEF LoadInvalid
<1>19. ASSUME NEW t \in Threads, LoadGood(t) PROVE BridgeInv'
  <2>1. Reloaded(t)
    BY <1>19, LoadShape
  <2> QED
    BY <2>1 DEF Reloaded, Posted
<1>20. ASSUME NEW t \in Threads, RestoreAccepted(t) PROVE BridgeInv'
  BY <1>20 DEF RestoreAccepted
<1>21. ASSUME NEW t \in Threads, RestoreRejected(t) PROVE BridgeInv'
  BY <1>21 DEF RestoreRejected
<1>22. ASSUME NEW t \in Threads, Finish(t) PROVE BridgeInv'
  BY <1>22 DEF Finish
<1>23. ASSUME NEW p \in Plugins \cup {None}, Update(p) PROVE BridgeInv'
  BY <1>23 DEF Update
<1>24. CASE Switch
  BY <1>24 DEF Switch
<1>25. CASE Save
  BY <1>25 DEF Save
<1>26. CASE Destroy
  BY <1>26 DEF Destroy
<1>27. CASE RequestStop
  BY <1>27 DEF RequestStop
<1>28. CASE Join
  BY <1>28 DEF Join
<1>29. CASE RecoveryStarts
  BY <1>29 DEF RecoveryStarts
<1>30. CASE RecoveryEnds
  BY <1>30 DEF RecoveryEnds
<1>31. CASE TickWithoutPath
  BY <1>31 DEF TickWithoutPath
<1>32. CASE TickHealthy
  BY <1>32 DEF TickHealthy
<1>33. CASE TickUnhealthy
  <2>1. Backed
    BY <1>33, UnhealthyShape
  <2> QED
    BY <2>1 DEF Backed
<1>34. CASE TickDirty
  <2>1. Looked
    BY <1>34, DirtyShape
  <2>2. CASE BecomesIdle("recovery")
    BY <2>1, <2>2 DEF Looked
  <2>3. CASE identity # None /\ Checkpoint
    BY <2>1, <2>3 DEF Looked, Checkpoint
  <2> QED
    BY <2>1, <2>2, <2>3 DEF Looked
<1>35. CASE UNCHANGED vars
  BY <1>35 DEF vars
<1> QED
  BY <1>1, <1>2, <1>3, <1>4, <1>5, <1>6, <1>7, <1>8, <1>9, <1>10, <1>11, <1>12, <1>13, <1>14, <1>15,
     <1>16, <1>17, <1>18, <1>19, <1>20, <1>21, <1>22, <1>23, <1>24, <1>25, <1>26, <1>27, <1>28,
     <1>29, <1>30, <1>31, <1>32, <1>33, <1>34, <1>35 DEF Next, Helper, Procedures

(* No answer comes to a request that was not made, and no restore outlives its restart. *)
LEMMA MailboxStep ==
    TypeOK /\ MutexInv /\ BridgeInv /\ MailboxInv /\ [Next]_vars => MailboxInv'
<1> SUFFICES ASSUME TypeOK /\ MutexInv /\ BridgeInv /\ MailboxInv, [Next]_vars PROVE MailboxInv'
  OBVIOUS
<1> USE RecoveryAssumption DEF TypeOK, MutexInv, BridgeInv, MailboxInv, Quiet, Threads, Holding,
        Restarting, ThreadStates, HelperStates, FreshHelper, NoHelper, Running, WorthCapturing, At,
        Lock, Unlock, BecomesIdle, Continues, Fault, Responds, Accepted, Answered, Settled, Post,
        Idle, Discard, Command, Captures
<1>1. CASE Edit
  BY <1>1 DEF Edit
<1>2. CASE FallbackArrives
  BY <1>2 DEF FallbackArrives
<1>3. CASE TakeRequest
  BY <1>3 DEF TakeRequest
<1>4. CASE RefuseRequest
  BY <1>4 DEF RefuseRequest
<1>5. ASSUME NEW status \in {"ok", "failed"}, Answer(status) PROVE MailboxInv'
  BY <1>5 DEF Answer
<1>6. CASE Crash
  BY <1>6 DEF Crash
<1>7. CASE Stall
  BY <1>7 DEF Stall
<1>8. CASE Unstall
  BY <1>8 DEF Unstall
<1>9. ASSUME NEW t \in Threads, CaptureSkipped(t) PROVE MailboxInv'
  BY <1>9 DEF CaptureSkipped
<1>10. ASSUME NEW t \in Threads, CaptureAsks(t) PROVE MailboxInv'
  BY <1>10 DEF CaptureAsks
<1>11. ASSUME NEW t \in Threads, CaptureFails(t) PROVE MailboxInv'
  BY <1>11 DEF CaptureFails
<1>12. ASSUME NEW t \in Threads, CaptureSaves(t) PROVE MailboxInv'
  BY <1>12 DEF CaptureSaves
<1>13. ASSUME NEW t \in Threads, RestartCancelled(t) PROVE MailboxInv'
  BY <1>13 DEF RestartCancelled
<1>14. ASSUME NEW t \in Threads, RestartBegins(t) PROVE MailboxInv'
  <2>1. CASE identity = None
    BY <1>14, <2>1 DEF RestartBegins
  <2>2. CASE identity # None
    BY <1>14, <2>2 DEF RestartBegins
  <2> QED
    BY <2>1, <2>2
<1>15. ASSUME NEW t \in Threads, StartSucceeds(t) PROVE MailboxInv'
  <2>1. Started(t)
    BY <1>15, StartShape
  <2> QED
    BY <2>1 DEF Started, Fresh
<1>16. ASSUME NEW t \in Threads, StartFails(t) PROVE MailboxInv'
  BY <1>16 DEF StartFails
<1>17. ASSUME NEW t \in Threads, LoadMissing(t) PROVE MailboxInv'
  BY <1>17 DEF LoadMissing
<1>18. ASSUME NEW t \in Threads, LoadInvalid(t) PROVE MailboxInv'
  BY <1>18 DEF LoadInvalid
<1>19. ASSUME NEW t \in Threads, LoadGood(t) PROVE MailboxInv'
  <2>1. Reloaded(t)
    BY <1>19, LoadShape
  <2> QED
    BY <2>1 DEF Reloaded, Posted
<1>20. ASSUME NEW t \in Threads, RestoreAccepted(t) PROVE MailboxInv'
  BY <1>20 DEF RestoreAccepted
<1>21. ASSUME NEW t \in Threads, RestoreRejected(t) PROVE MailboxInv'
  BY <1>21 DEF RestoreRejected
<1>22. ASSUME NEW t \in Threads, Finish(t) PROVE MailboxInv'
  BY <1>22 DEF Finish
<1>23. ASSUME NEW p \in Plugins \cup {None}, Update(p) PROVE MailboxInv'
  BY <1>23 DEF Update
<1>24. CASE Switch
  BY <1>24 DEF Switch
<1>25. CASE Save
  BY <1>25 DEF Save
<1>26. CASE Destroy
  BY <1>26 DEF Destroy
<1>27. CASE RequestStop
  BY <1>27 DEF RequestStop
<1>28. CASE Join
  BY <1>28 DEF Join
<1>29. CASE RecoveryStarts
  BY <1>29 DEF RecoveryStarts
<1>30. CASE RecoveryEnds
  BY <1>30 DEF RecoveryEnds
<1>31. CASE TickWithoutPath
  BY <1>31 DEF TickWithoutPath
<1>32. CASE TickHealthy
  BY <1>32 DEF TickHealthy
<1>33. CASE TickUnhealthy
  <2>1. Backed
    BY <1>33, UnhealthyShape
  <2> QED
    BY <2>1 DEF Backed
<1>34. CASE TickDirty
  <2>1. Looked
    BY <1>34, DirtyShape
  <2>2. CASE BecomesIdle("recovery")
    BY <2>1, <2>2 DEF Looked
  <2>3. CASE identity # None /\ Checkpoint
    BY <2>1, <2>3 DEF Looked, Checkpoint
  <2> QED
    BY <2>1, <2>2, <2>3 DEF Looked
<1>35. CASE UNCHANGED vars
  BY <1>35 DEF vars
<1> QED
  BY <1>1, <1>2, <1>3, <1>4, <1>5, <1>6, <1>7, <1>8, <1>9, <1>10, <1>11, <1>12, <1>13, <1>14, <1>15,
     <1>16, <1>17, <1>18, <1>19, <1>20, <1>21, <1>22, <1>23, <1>24, <1>25, <1>26, <1>27, <1>28,
     <1>29, <1>30, <1>31, <1>32, <1>33, <1>34, <1>35 DEF Next, Helper, Procedures

(* The dirty generation only grows while a helper lives, so what was read of it is not ahead. *)
LEMMA DirtyStep ==
    TypeOK /\ MutexInv /\ BridgeInv /\ MailboxInv /\ DirtyInv /\ [Next]_vars => DirtyInv'
<1> SUFFICES ASSUME TypeOK /\ MutexInv /\ BridgeInv /\ MailboxInv /\ DirtyInv, [Next]_vars
      PROVE DirtyInv'
  OBVIOUS
<1> USE RecoveryAssumption DEF TypeOK, MutexInv, BridgeInv, MailboxInv, DirtyInv, Generations,
        Threads, Holding, Restarting, ThreadStates, HelperStates, FreshHelper, NoHelper, Running,
        WorthCapturing, At, Lock, Unlock, BecomesIdle, Continues, Fault, Responds, Accepted,
        Answered, Settled, Post, Idle, Discard, Command, Captures
<1>1. CASE Edit
  BY <1>1 DEF Edit
<1>2. CASE FallbackArrives
  BY <1>2 DEF FallbackArrives
<1>3. CASE TakeRequest
  BY <1>3 DEF TakeRequest
<1>4. CASE RefuseRequest
  BY <1>4 DEF RefuseRequest
<1>5. ASSUME NEW status \in {"ok", "failed"}, Answer(status) PROVE DirtyInv'
  BY <1>5 DEF Answer
<1>6. CASE Crash
  BY <1>6 DEF Crash
<1>7. CASE Stall
  BY <1>7 DEF Stall
<1>8. CASE Unstall
  BY <1>8 DEF Unstall
<1>9. ASSUME NEW t \in Threads, CaptureSkipped(t) PROVE DirtyInv'
  BY <1>9 DEF CaptureSkipped
<1>10. ASSUME NEW t \in Threads, CaptureAsks(t) PROVE DirtyInv'
  BY <1>10 DEF CaptureAsks
<1>11. ASSUME NEW t \in Threads, CaptureFails(t) PROVE DirtyInv'
  BY <1>11 DEF CaptureFails
<1>12. ASSUME NEW t \in Threads, CaptureSaves(t) PROVE DirtyInv'
  BY <1>12 DEF CaptureSaves
<1>13. ASSUME NEW t \in Threads, RestartCancelled(t) PROVE DirtyInv'
  BY <1>13 DEF RestartCancelled
<1>14. ASSUME NEW t \in Threads, RestartBegins(t) PROVE DirtyInv'
  <2>1. CASE identity = None
    BY <1>14, <2>1 DEF RestartBegins
  <2>2. CASE identity # None
    BY <1>14, <2>2 DEF RestartBegins
  <2> QED
    BY <2>1, <2>2
<1>15. ASSUME NEW t \in Threads, StartSucceeds(t) PROVE DirtyInv'
  <2>1. Started(t)
    BY <1>15, StartShape
  <2> QED
    BY <2>1 DEF Started, Fresh
<1>16. ASSUME NEW t \in Threads, StartFails(t) PROVE DirtyInv'
  BY <1>16 DEF StartFails
<1>17. ASSUME NEW t \in Threads, LoadMissing(t) PROVE DirtyInv'
  BY <1>17 DEF LoadMissing
<1>18. ASSUME NEW t \in Threads, LoadInvalid(t) PROVE DirtyInv'
  BY <1>18 DEF LoadInvalid
<1>19. ASSUME NEW t \in Threads, LoadGood(t) PROVE DirtyInv'
  <2>1. Reloaded(t)
    BY <1>19, LoadShape
  <2> QED
    BY <2>1 DEF Reloaded, Posted
<1>20. ASSUME NEW t \in Threads, RestoreAccepted(t) PROVE DirtyInv'
  BY <1>20 DEF RestoreAccepted
<1>21. ASSUME NEW t \in Threads, RestoreRejected(t) PROVE DirtyInv'
  BY <1>21 DEF RestoreRejected
<1>22. ASSUME NEW t \in Threads, Finish(t) PROVE DirtyInv'
  BY <1>22 DEF Finish
<1>23. ASSUME NEW p \in Plugins \cup {None}, Update(p) PROVE DirtyInv'
  BY <1>23 DEF Update
<1>24. CASE Switch
  BY <1>24 DEF Switch
<1>25. CASE Save
  BY <1>25 DEF Save
<1>26. CASE Destroy
  BY <1>26 DEF Destroy
<1>27. CASE RequestStop
  BY <1>27 DEF RequestStop
<1>28. CASE Join
  BY <1>28 DEF Join
<1>29. CASE RecoveryStarts
  BY <1>29 DEF RecoveryStarts
<1>30. CASE RecoveryEnds
  BY <1>30 DEF RecoveryEnds
<1>31. CASE TickWithoutPath
  BY <1>31 DEF TickWithoutPath
<1>32. CASE TickHealthy
  BY <1>32 DEF TickHealthy
<1>33. CASE TickUnhealthy
  <2>1. Backed
    BY <1>33, UnhealthyShape
  <2> QED
    BY <2>1 DEF Backed
<1>34. CASE TickDirty
  <2>1. Looked
    BY <1>34, DirtyShape
  <2>2. CASE BecomesIdle("recovery")
    BY <2>1, <2>2 DEF Looked
  <2>3. CASE identity # None /\ Checkpoint
    BY <2>1, <2>3 DEF Looked, Checkpoint
  <2> QED
    BY <2>1, <2>2, <2>3 DEF Looked
<1>35. CASE UNCHANGED vars
  BY <1>35 DEF vars
<1> QED
  BY <1>1, <1>2, <1>3, <1>4, <1>5, <1>6, <1>7, <1>8, <1>9, <1>10, <1>11, <1>12, <1>13, <1>14, <1>15,
     <1>16, <1>17, <1>18, <1>19, <1>20, <1>21, <1>22, <1>23, <1>24, <1>25, <1>26, <1>27, <1>28,
     <1>29, <1>30, <1>31, <1>32, <1>33, <1>34, <1>35 DEF Next, Helper, Procedures

(* Each step of a restart keeps what is known of the file and the helper's state. *)
LEMMA RestartStep ==
    TypeOK /\ MutexInv /\ BridgeInv /\ MailboxInv /\ RestartInv /\ [Next]_vars => RestartInv'
<1> SUFFICES ASSUME TypeOK /\ MutexInv /\ BridgeInv /\ MailboxInv /\ RestartInv, [Next]_vars
      PROVE RestartInv'
  OBVIOUS
<1> USE RecoveryAssumption DEF TypeOK, MutexInv, BridgeInv, MailboxInv, RestartInv, Quiet,
        Restorable, Threads, Holding, Restarting, ThreadStates, HelperStates, Snapshots,
        FreshHelper, NoHelper, Running, WorthCapturing, At, Lock, Unlock, BecomesIdle, Continues,
        Fault, Responds, Accepted, Answered, Settled, Post, Idle, Discard, Command, Captures
<1>1. CASE Edit
  BY <1>1 DEF Edit
<1>2. CASE FallbackArrives
  BY <1>2 DEF FallbackArrives
<1>3. CASE TakeRequest
  BY <1>3 DEF TakeRequest
<1>4. CASE RefuseRequest
  BY <1>4 DEF RefuseRequest
<1>5. ASSUME NEW status \in {"ok", "failed"}, Answer(status) PROVE RestartInv'
  BY <1>5 DEF Answer
<1>6. CASE Crash
  BY <1>6 DEF Crash
<1>7. CASE Stall
  BY <1>7 DEF Stall
<1>8. CASE Unstall
  BY <1>8 DEF Unstall
<1>9. ASSUME NEW t \in Threads, CaptureSkipped(t) PROVE RestartInv'
  BY <1>9 DEF CaptureSkipped
<1>10. ASSUME NEW t \in Threads, CaptureAsks(t) PROVE RestartInv'
  BY <1>10 DEF CaptureAsks
<1>11. ASSUME NEW t \in Threads, CaptureFails(t) PROVE RestartInv'
  BY <1>11 DEF CaptureFails
<1>12. ASSUME NEW t \in Threads, CaptureSaves(t) PROVE RestartInv'
  BY <1>12 DEF CaptureSaves
<1>13. ASSUME NEW t \in Threads, RestartCancelled(t) PROVE RestartInv'
  BY <1>13 DEF RestartCancelled
<1>14. ASSUME NEW t \in Threads, RestartBegins(t) PROVE RestartInv'
  <2>1. CASE identity = None
    BY <1>14, <2>1 DEF RestartBegins
  <2>2. CASE identity # None
    BY <1>14, <2>2 DEF RestartBegins
  <2> QED
    BY <2>1, <2>2
<1>15. ASSUME NEW t \in Threads, StartSucceeds(t) PROVE RestartInv'
  <2>1. Started(t)
    BY <1>15, StartShape
  <2> QED
    BY <2>1 DEF Started, Fresh
<1>16. ASSUME NEW t \in Threads, StartFails(t) PROVE RestartInv'
  BY <1>16 DEF StartFails
<1>17. ASSUME NEW t \in Threads, LoadMissing(t) PROVE RestartInv'
  BY <1>17 DEF LoadMissing
<1>18. ASSUME NEW t \in Threads, LoadInvalid(t) PROVE RestartInv'
  BY <1>18 DEF LoadInvalid
<1>19. ASSUME NEW t \in Threads, LoadGood(t) PROVE RestartInv'
  <2>1. Reloaded(t)
    BY <1>19, LoadShape
  <2> QED
    BY <2>1 DEF Reloaded, Posted
<1>20. ASSUME NEW t \in Threads, RestoreAccepted(t) PROVE RestartInv'
  BY <1>20 DEF RestoreAccepted
<1>21. ASSUME NEW t \in Threads, RestoreRejected(t) PROVE RestartInv'
  BY <1>21 DEF RestoreRejected
<1>22. ASSUME NEW t \in Threads, Finish(t) PROVE RestartInv'
  BY <1>22 DEF Finish
<1>23. ASSUME NEW p \in Plugins \cup {None}, Update(p) PROVE RestartInv'
  BY <1>23 DEF Update
<1>24. CASE Switch
  BY <1>24 DEF Switch
<1>25. CASE Save
  BY <1>25 DEF Save
<1>26. CASE Destroy
  BY <1>26 DEF Destroy
<1>27. CASE RequestStop
  BY <1>27 DEF RequestStop
<1>28. CASE Join
  BY <1>28 DEF Join
<1>29. CASE RecoveryStarts
  BY <1>29 DEF RecoveryStarts
<1>30. CASE RecoveryEnds
  BY <1>30 DEF RecoveryEnds
<1>31. CASE TickWithoutPath
  BY <1>31 DEF TickWithoutPath
<1>32. CASE TickHealthy
  BY <1>32 DEF TickHealthy
<1>33. CASE TickUnhealthy
  <2>1. Backed
    BY <1>33, UnhealthyShape
  <2> QED
    BY <2>1 DEF Backed
<1>34. CASE TickDirty
  <2>1. Looked
    BY <1>34, DirtyShape
  <2>2. CASE BecomesIdle("recovery")
    BY <2>1, <2>2 DEF Looked
  <2>3. CASE identity # None /\ Checkpoint
    BY <2>1, <2>3 DEF Looked, Checkpoint
  <2> QED
    BY <2>1, <2>2, <2>3 DEF Looked
<1>35. CASE UNCHANGED vars
  BY <1>35 DEF vars
<1> HIDE DEF RestartInv
<1> QED
  BY <1>1, <1>2, <1>3, <1>4, <1>5, <1>6, <1>7, <1>8, <1>9, <1>10, <1>11, <1>12, <1>13, <1>14, <1>15,
     <1>16, <1>17, <1>18, <1>19, <1>20, <1>21, <1>22, <1>23, <1>24, <1>25, <1>26, <1>27, <1>28,
     <1>29, <1>30, <1>31, <1>32, <1>33, <1>34, <1>35 DEF Next, Helper, Procedures

(* What counts as saved is what the plug-in has: an edit that slips in makes it dirty again. *)
LEMMA CheckpointStep ==
    TypeOK /\ MutexInv /\ BridgeInv /\ MailboxInv /\ DirtyInv /\ RestartInv /\ CheckpointInv /\ [Next]_vars => CheckpointInv'
<1> SUFFICES ASSUME TypeOK /\ MutexInv /\ BridgeInv /\ MailboxInv /\ DirtyInv /\ RestartInv /\ CheckpointInv, [Next]_vars
      PROVE CheckpointInv'
  OBVIOUS
<1> USE RecoveryAssumption DEF TypeOK, MutexInv, BridgeInv, MailboxInv, DirtyInv, RestartInv,
        CheckpointInv, Generations, Restorable, Threads, Holding, Restarting, ThreadStates,
        HelperStates, Snapshots, FreshHelper, NoHelper, Running, WorthCapturing, At, Lock, Unlock,
        BecomesIdle, Continues, Fault, Responds, Accepted, Answered, Settled, Post, Idle, Discard,
        Command, Captures
<1>1. CASE Edit
  BY <1>1 DEF Edit
<1>2. CASE FallbackArrives
  BY <1>2 DEF FallbackArrives
<1>3. CASE TakeRequest
  BY <1>3 DEF TakeRequest
<1>4. CASE RefuseRequest
  BY <1>4 DEF RefuseRequest
<1>5. ASSUME NEW status \in {"ok", "failed"}, Answer(status) PROVE CheckpointInv'
  BY <1>5 DEF Answer
<1>6. CASE Crash
  BY <1>6 DEF Crash
<1>7. CASE Stall
  BY <1>7 DEF Stall
<1>8. CASE Unstall
  BY <1>8 DEF Unstall
<1>9. ASSUME NEW t \in Threads, CaptureSkipped(t) PROVE CheckpointInv'
  BY <1>9 DEF CaptureSkipped
<1>10. ASSUME NEW t \in Threads, CaptureAsks(t) PROVE CheckpointInv'
  BY <1>10 DEF CaptureAsks
<1>11. ASSUME NEW t \in Threads, CaptureFails(t) PROVE CheckpointInv'
  BY <1>11 DEF CaptureFails
<1>12. ASSUME NEW t \in Threads, CaptureSaves(t) PROVE CheckpointInv'
  BY <1>12 DEF CaptureSaves
<1>13. ASSUME NEW t \in Threads, RestartCancelled(t) PROVE CheckpointInv'
  BY <1>13 DEF RestartCancelled
<1>14. ASSUME NEW t \in Threads, RestartBegins(t) PROVE CheckpointInv'
  <2>1. CASE identity = None
    BY <1>14, <2>1 DEF RestartBegins
  <2>2. CASE identity # None
    BY <1>14, <2>2 DEF RestartBegins
  <2> QED
    BY <2>1, <2>2
<1>15. ASSUME NEW t \in Threads, StartSucceeds(t) PROVE CheckpointInv'
  <2>1. Started(t)
    BY <1>15, StartShape
  <2> QED
    BY <2>1 DEF Started, Fresh
<1>16. ASSUME NEW t \in Threads, StartFails(t) PROVE CheckpointInv'
  BY <1>16 DEF StartFails
<1>17. ASSUME NEW t \in Threads, LoadMissing(t) PROVE CheckpointInv'
  BY <1>17 DEF LoadMissing
<1>18. ASSUME NEW t \in Threads, LoadInvalid(t) PROVE CheckpointInv'
  BY <1>18 DEF LoadInvalid
<1>19. ASSUME NEW t \in Threads, LoadGood(t) PROVE CheckpointInv'
  <2>1. Reloaded(t)
    BY <1>19, LoadShape
  <2> QED
    BY <2>1 DEF Reloaded, Posted
<1>20. ASSUME NEW t \in Threads, RestoreAccepted(t) PROVE CheckpointInv'
  BY <1>20 DEF RestoreAccepted
<1>21. ASSUME NEW t \in Threads, RestoreRejected(t) PROVE CheckpointInv'
  BY <1>21 DEF RestoreRejected
<1>22. ASSUME NEW t \in Threads, Finish(t) PROVE CheckpointInv'
  BY <1>22 DEF Finish
<1>23. ASSUME NEW p \in Plugins \cup {None}, Update(p) PROVE CheckpointInv'
  BY <1>23 DEF Update
<1>24. CASE Switch
  BY <1>24 DEF Switch
<1>25. CASE Save
  BY <1>25 DEF Save
<1>26. CASE Destroy
  BY <1>26 DEF Destroy
<1>27. CASE RequestStop
  BY <1>27 DEF RequestStop
<1>28. CASE Join
  BY <1>28 DEF Join
<1>29. CASE RecoveryStarts
  BY <1>29 DEF RecoveryStarts
<1>30. CASE RecoveryEnds
  BY <1>30 DEF RecoveryEnds
<1>31. CASE TickWithoutPath
  BY <1>31 DEF TickWithoutPath
<1>32. CASE TickHealthy
  BY <1>32 DEF TickHealthy
<1>33. CASE TickUnhealthy
  <2>1. Backed
    BY <1>33, UnhealthyShape
  <2> QED
    BY <2>1 DEF Backed
<1>34. CASE TickDirty
  <2>1. Looked
    BY <1>34, DirtyShape
  <2>2. CASE BecomesIdle("recovery")
    BY <2>1, <2>2 DEF Looked
  <2>3. CASE identity # None /\ Checkpoint
    BY <2>1, <2>3 DEF Looked, Checkpoint
  <2> QED
    BY <2>1, <2>2, <2>3 DEF Looked
<1>35. CASE UNCHANGED vars
  BY <1>35 DEF vars
<1> QED
  BY <1>1, <1>2, <1>3, <1>4, <1>5, <1>6, <1>7, <1>8, <1>9, <1>10, <1>11, <1>12, <1>13, <1>14, <1>15,
     <1>16, <1>17, <1>18, <1>19, <1>20, <1>21, <1>22, <1>23, <1>24, <1>25, <1>26, <1>27, <1>28,
     <1>29, <1>30, <1>31, <1>32, <1>33, <1>34, <1>35 DEF Next, Helper, Procedures

Policies == [attempts : 0 .. AttemptCap, retry_in : 0 .. MaxBackoff, healthy : 0 .. StableReset]

-----------------------------------------------------------------------------
(* RecoveryPolicy stays in its ranges: the delay is capped whatever the power of two is. *)
LEMMA PolicyTyped ==
    policy \in Policies =>
        /\ NoPolicy \in Policies
        /\ \A responsive \in BOOLEAN :
              Observe(responsive) \in Policies /\ RecordAttempt(Observe(responsive)) \in Policies
<1> USE RecoveryAssumption DEF Policies
<1>1. NoPolicy \in Policies
  BY DEF NoPolicy
<1>2. ASSUME policy \in Policies, NEW responsive \in BOOLEAN
      PROVE  Observe(responsive) \in Policies
  <2> DEFINE aged == [policy EXCEPT !.retry_in = IF @ = 0 THEN 0 ELSE @ - 1]
             healthy == IF policy.attempts = 0 THEN 0 ELSE policy.healthy + 1
  <2>1. policy.retry_in \in 0 .. MaxBackoff /\ policy.healthy \in 0 .. StableReset
    BY <1>2
  <2>2. aged \in Policies /\ aged.attempts = policy.attempts /\ healthy \in 0 .. StableReset + 1
    BY <1>2, <2>1
  <2>3. (~responsive => [aged EXCEPT !.healthy = 0] \in Policies)
        /\ (healthy \in 0 .. StableReset => [aged EXCEPT !.healthy = healthy] \in Policies)
    <3> HIDE DEF aged, healthy
    <3> QED
      BY <2>2
  <2>4. aged.attempts # 0 \/ healthy = 0
    BY <2>2
  <2>5. ~(aged.attempts # 0 /\ healthy > StableReset) => healthy \in 0 .. StableReset
    BY <2>2, <2>4
  <2> QED
    BY <1>1, <2>3, <2>5 DEF Observe
<1>3. ASSUME NEW p \in Policies
      PROVE  RecordAttempt(p) \in Policies
  <2>1. \A n : Delay(n) \in 0 .. MaxBackoff
    BY DEF Delay
  <2>2. Least(p.attempts + 1, AttemptCap) \in 0 .. AttemptCap
    BY DEF Least
  <2> QED
    BY <2>1, <2>2 DEF RecordAttempt
<1> QED
  BY <1>1, <1>2, <1>3

(* TypeOK in four parts. *)
ThreadTyped == thread \in [Threads -> ThreadStates]
HelperTyped == helper \in HelperStates
PolicyKept == policy \in Policies
Flagged == shutting \in BOOLEAN /\ published \in BOOLEAN /\ loose \in BOOLEAN
Ranged ==
    /\ identity \in Selection
    /\ mutex \in Threads \cup {None}
    /\ observed \in Generations /\ saved \in Generations /\ stable \in 0 .. 1
    /\ file \in [Plugins -> Snapshots \cup {None}]
    /\ edits \in 0 .. MaxEdits /\ commands \in 0 .. MaxCommands /\ faults \in 0 .. MaxFaults

(* TypeOK is these parts. *)
LEMMA TypeParts == TypeOK <=> ThreadTyped /\ HelperTyped /\ PolicyKept /\ Flagged /\ Ranged
  BY DEF TypeOK, ThreadTyped, HelperTyped, PolicyKept, Policies, Flagged, Ranged

(* The places by name, so that the enumeration need not be unfolded. *)
LEMMA Named ==
    /\ "idle" \in Places /\ "capture" \in Places /\ "asking" \in Places /\ "switch" \in Places
    /\ "restart" \in Places /\ "start" \in Places /\ "load" \in Places /\ "restoring" \in Places
    /\ "finish" \in Places /\ "dirty" \in Places /\ "destroy" \in Places /\ "join" \in Places
    /\ "gone" \in Places /\ {"idle", "switch", "destroy"} \subseteq Places
    /\ "obs" \in Threads /\ "recovery" \in Threads
  BY DEF Places, Threads

(* Members of the sets of values. *)
LEMMA Values ==
    /\ None \in Selection /\ Plugins \subseteq Selection /\ Plugins \cup {None} \subseteq Selection
    /\ 0 \in States /\ 0 \in Generations
    /\ \A p \in Snapshots : p.edit \in States
    /\ \A p \in Plugins, s \in States : [of |-> p, edit |-> s] \in Snapshots
  BY RecoveryAssumption DEF Selection, States, Generations, Snapshots

(* The initial records are of their types. *)
LEMMA Records ==
    /\ Idle \in ThreadStates
    /\ NoHelper \in HelperStates
    /\ \A p \in Selection : FreshHelper(p) \in HelperStates
<1>1. Idle \in ThreadStates
  BY Named, Values DEF Idle, ThreadStates
<1>2. NoHelper \in HelperStates
  BY Values DEF NoHelper, HelperStates
<1>3. ASSUME NEW p \in Selection
      PROVE  FreshHelper(p) \in HelperStates
  BY <1>2 DEF FreshHelper, HelperStates
<1> QED
  BY <1>1, <1>2, <1>3

(* A thread that is given a typed record leaves the others alone. *)
LEMMA ThreadSet ==
    ASSUME TypeOK, NEW t \in Threads, NEW r \in ThreadStates, thread' = [thread EXCEPT ![t] = r]
    PROVE  ThreadTyped'
  BY DEF TypeOK, ThreadTyped

(* The changes of a thread's record that the procedures make. *)
LEMMA ThreadMoved ==
    ASSUME TypeOK, NEW t \in Threads, NEW a \in Places, NEW k \in BOOLEAN
    PROVE  /\ thread' = [thread EXCEPT ![t].at = a] => ThreadTyped'
           /\ thread' = [thread EXCEPT ![t].at = a, ![t].kept = k] => ThreadTyped'
           /\ thread' = [thread EXCEPT ![t].at = a, ![t].first = FALSE, ![t].kept = k] => ThreadTyped'
           /\ thread' = [thread EXCEPT ![t].at = a, ![t].id = identity] => ThreadTyped'
           /\ thread' = [thread EXCEPT ![t].at = a, ![t].dirty = helper.dirty] => ThreadTyped'
<1> DEFINE id == identity
           dirty == helper.dirty
<1>0. ThreadTyped /\ id \in Selection /\ dirty \in Generations
  BY DEF TypeOK, ThreadTyped, HelperStates
<1> HIDE DEF id, dirty
<1>1. ASSUME thread' = [thread EXCEPT ![t].at = a] PROVE ThreadTyped'
  BY <1>0, <1>1 DEF ThreadTyped, ThreadStates
<1>2. ASSUME thread' = [thread EXCEPT ![t].at = a, ![t].kept = k] PROVE ThreadTyped'
  BY <1>0, <1>2 DEF ThreadTyped, ThreadStates
<1>3. ASSUME thread' = [thread EXCEPT ![t].at = a, ![t].first = FALSE, ![t].kept = k] PROVE ThreadTyped'
  <2> DEFINE r == [thread[t] EXCEPT !.at = a, !.first = FALSE, !.kept = k]
  <2>1. thread[t] \in ThreadStates
    BY <1>0 DEF ThreadTyped
  <2>2. r \in ThreadStates
    BY <2>1 DEF ThreadStates
  <2>3. thread' = [thread EXCEPT ![t] = r]
    BY <1>0, <1>3 DEF ThreadTyped, ThreadStates
  <2> HIDE DEF r
  <2> QED
    BY <2>2, <2>3, ThreadSet
<1>4. ASSUME thread' = [thread EXCEPT ![t].at = a, ![t].id = id] PROVE ThreadTyped'
  BY <1>0, <1>4 DEF ThreadTyped, ThreadStates
<1>5. ASSUME thread' = [thread EXCEPT ![t].at = a, ![t].dirty = dirty] PROVE ThreadTyped'
  BY <1>0, <1>5 DEF ThreadTyped, ThreadStates
<1> QED
  BY <1>1, <1>2, <1>3, <1>4, <1>5 DEF id, dirty

(* A thread that ends or begins a procedure starts from Idle. *)
LEMMA ThreadReset ==
    ASSUME TypeOK, NEW t \in Threads
    PROVE  /\ BecomesIdle(t) => ThreadTyped'
           /\ Continues(t) => ThreadTyped'
           /\ \A next \in {"idle", "switch", "destroy"}, p \in Selection :
                 Captures(t, next, p) => ThreadTyped'
<1> USE Named, Values, Records
<1>1. BecomesIdle(t) => ThreadTyped'
  BY ThreadSet DEF BecomesIdle
<1>2. Continues(t) => ThreadTyped'
  <2>1. thread[t].then \in Places /\ thread[t].to \in Selection
    BY DEF TypeOK, ThreadStates
  <2>2. [Idle EXCEPT !.at = thread[t].then, !.to = thread[t].to] \in ThreadStates
    BY <2>1 DEF ThreadStates
  <2> QED
    BY <2>2, ThreadSet DEF Continues
<1>3. ASSUME NEW next \in {"idle", "switch", "destroy"}, NEW p \in Selection, Captures(t, next, p)
      PROVE  ThreadTyped'
  <2> DEFINE place == IF identity = None THEN next ELSE "capture"
  <2>1. place \in Places /\ identity \in Selection
    BY DEF TypeOK
  <2>2. thread' = [thread EXCEPT ![t] =
                     [Idle EXCEPT !.at = place, !.id = identity, !.then = next, !.to = p]]
    BY <1>3 DEF Captures
  <2> HIDE DEF place
  <2>3. [Idle EXCEPT !.at = place, !.id = identity, !.then = next, !.to = p] \in ThreadStates
    BY <2>1 DEF ThreadStates
  <2> QED
    BY <2>2, <2>3, ThreadSet
<1> QED
  BY <1>1, <1>2, <1>3

(* The flags, the policy, the scalars and the file, the threads and the helper keep their types. *)
LEMMA FlaggedStep ==
    TypeOK /\ MutexInv /\ BridgeInv /\ DirtyInv /\ [Next]_vars => Flagged'
<1> SUFFICES ASSUME TypeOK /\ MutexInv /\ BridgeInv /\ DirtyInv, [Next]_vars PROVE Flagged'
  OBVIOUS
<1> USE RecoveryAssumption, TypeParts DEF Flagged, At, Lock, Unlock, BecomesIdle, Continues, Fault,
        Responds, Discard, Command
<1>1. CASE Edit
  BY <1>1 DEF Edit
<1>2. CASE FallbackArrives
  BY <1>2 DEF FallbackArrives
<1>3. CASE TakeRequest
  BY <1>3 DEF TakeRequest
<1>4. CASE RefuseRequest
  BY <1>4 DEF RefuseRequest
<1>5. ASSUME NEW status \in {"ok", "failed"}, Answer(status) PROVE Flagged'
  BY <1>5 DEF Answer
<1>6. CASE Crash
  BY <1>6 DEF Crash
<1>7. CASE Stall
  BY <1>7 DEF Stall
<1>8. CASE Unstall
  BY <1>8 DEF Unstall
<1>9. ASSUME NEW t \in Threads, CaptureSkipped(t) PROVE Flagged'
  BY <1>9 DEF CaptureSkipped
<1>10. ASSUME NEW t \in Threads, CaptureAsks(t) PROVE Flagged'
  BY <1>10 DEF CaptureAsks
<1>11. ASSUME NEW t \in Threads, CaptureFails(t) PROVE Flagged'
  BY <1>11 DEF CaptureFails
<1>12. ASSUME NEW t \in Threads, CaptureSaves(t) PROVE Flagged'
  BY <1>12 DEF CaptureSaves
<1>13. ASSUME NEW t \in Threads, RestartCancelled(t) PROVE Flagged'
  BY <1>13 DEF RestartCancelled
<1>14. ASSUME NEW t \in Threads, RestartBegins(t) PROVE Flagged'
  <2>1. CASE identity = None
    BY <1>14, <2>1 DEF RestartBegins
  <2>2. CASE identity # None
    BY <1>14, <2>2 DEF RestartBegins
  <2> QED
    BY <2>1, <2>2
<1>15. ASSUME NEW t \in Threads, StartSucceeds(t) PROVE Flagged'
  <2>1. Started(t)
    BY <1>15, StartShape
  <2> QED
    BY <2>1 DEF Started, Fresh
<1>16. ASSUME NEW t \in Threads, StartFails(t) PROVE Flagged'
  BY <1>16 DEF StartFails
<1>17. ASSUME NEW t \in Threads, LoadMissing(t) PROVE Flagged'
  BY <1>17 DEF LoadMissing
<1>18. ASSUME NEW t \in Threads, LoadInvalid(t) PROVE Flagged'
  BY <1>18 DEF LoadInvalid
<1>19. ASSUME NEW t \in Threads, LoadGood(t) PROVE Flagged'
  <2>1. Reloaded(t)
    BY <1>19, LoadShape
  <2> QED
    BY <2>1 DEF Reloaded, Posted
<1>20. ASSUME NEW t \in Threads, RestoreAccepted(t) PROVE Flagged'
  BY <1>20 DEF RestoreAccepted
<1>21. ASSUME NEW t \in Threads, RestoreRejected(t) PROVE Flagged'
  BY <1>21 DEF RestoreRejected
<1>22. ASSUME NEW t \in Threads, Finish(t) PROVE Flagged'
  BY <1>22 DEF Finish
<1>23. ASSUME NEW p \in Plugins \cup {None}, Update(p) PROVE Flagged'
  BY <1>23 DEF Update
<1>24. CASE Switch
  BY <1>24 DEF Switch
<1>25. CASE Save
  BY <1>25 DEF Save
<1>26. CASE Destroy
  BY <1>26 DEF Destroy
<1>27. CASE RequestStop
  BY <1>27 DEF RequestStop
<1>28. CASE Join
  BY <1>28 DEF Join
<1>29. CASE RecoveryStarts
  BY <1>29 DEF RecoveryStarts
<1>30. CASE RecoveryEnds
  BY <1>30 DEF RecoveryEnds
<1>31. CASE TickWithoutPath
  BY <1>31 DEF TickWithoutPath
<1>32. CASE TickHealthy
  BY <1>32 DEF TickHealthy
<1>33. CASE TickUnhealthy
  <2>1. Backed
    BY <1>33, UnhealthyShape
  <2> QED
    BY <2>1 DEF Backed
<1>34. CASE TickDirty
  <2>1. Looked
    BY <1>34, DirtyShape
  <2>2. CASE BecomesIdle("recovery")
    BY <2>1, <2>2 DEF Looked
  <2>3. CASE identity # None /\ Checkpoint
    BY <2>1, <2>3 DEF Looked, Checkpoint
  <2> QED
    BY <2>1, <2>2, <2>3 DEF Looked
<1>35. CASE UNCHANGED vars
  BY <1>35 DEF vars
<1> QED
  BY <1>1, <1>2, <1>3, <1>4, <1>5, <1>6, <1>7, <1>8, <1>9, <1>10, <1>11, <1>12, <1>13, <1>14, <1>15,
     <1>16, <1>17, <1>18, <1>19, <1>20, <1>21, <1>22, <1>23, <1>24, <1>25, <1>26, <1>27, <1>28,
     <1>29, <1>30, <1>31, <1>32, <1>33, <1>34, <1>35 DEF Next, Helper, Procedures

LEMMA PolicyKeptStep ==
    TypeOK /\ MutexInv /\ BridgeInv /\ DirtyInv /\ [Next]_vars => PolicyKept'
<1> SUFFICES ASSUME TypeOK /\ MutexInv /\ BridgeInv /\ DirtyInv, [Next]_vars PROVE PolicyKept'
  OBVIOUS
<1> USE PolicyTyped, TypeParts DEF PolicyKept, At, Lock, Unlock, BecomesIdle, Continues, Fault,
        Responds, Discard, Command
<1>1. CASE Edit
  BY <1>1 DEF Edit
<1>2. CASE FallbackArrives
  BY <1>2 DEF FallbackArrives
<1>3. CASE TakeRequest
  BY <1>3 DEF TakeRequest
<1>4. CASE RefuseRequest
  BY <1>4 DEF RefuseRequest
<1>5. ASSUME NEW status \in {"ok", "failed"}, Answer(status) PROVE PolicyKept'
  BY <1>5 DEF Answer
<1>6. CASE Crash
  BY <1>6 DEF Crash
<1>7. CASE Stall
  BY <1>7 DEF Stall
<1>8. CASE Unstall
  BY <1>8 DEF Unstall
<1>9. ASSUME NEW t \in Threads, CaptureSkipped(t) PROVE PolicyKept'
  BY <1>9 DEF CaptureSkipped
<1>10. ASSUME NEW t \in Threads, CaptureAsks(t) PROVE PolicyKept'
  BY <1>10 DEF CaptureAsks
<1>11. ASSUME NEW t \in Threads, CaptureFails(t) PROVE PolicyKept'
  BY <1>11 DEF CaptureFails
<1>12. ASSUME NEW t \in Threads, CaptureSaves(t) PROVE PolicyKept'
  BY <1>12 DEF CaptureSaves
<1>13. ASSUME NEW t \in Threads, RestartCancelled(t) PROVE PolicyKept'
  BY <1>13 DEF RestartCancelled
<1>14. ASSUME NEW t \in Threads, RestartBegins(t) PROVE PolicyKept'
  <2>1. CASE identity = None
    BY <1>14, <2>1 DEF RestartBegins
  <2>2. CASE identity # None
    BY <1>14, <2>2 DEF RestartBegins
  <2> QED
    BY <2>1, <2>2
<1>15. ASSUME NEW t \in Threads, StartSucceeds(t) PROVE PolicyKept'
  <2>1. Started(t)
    BY <1>15, StartShape
  <2> QED
    BY <2>1 DEF Started, Fresh
<1>16. ASSUME NEW t \in Threads, StartFails(t) PROVE PolicyKept'
  BY <1>16 DEF StartFails
<1>17. ASSUME NEW t \in Threads, LoadMissing(t) PROVE PolicyKept'
  BY <1>17 DEF LoadMissing
<1>18. ASSUME NEW t \in Threads, LoadInvalid(t) PROVE PolicyKept'
  BY <1>18 DEF LoadInvalid
<1>19. ASSUME NEW t \in Threads, LoadGood(t) PROVE PolicyKept'
  <2>1. Reloaded(t)
    BY <1>19, LoadShape
  <2> QED
    BY <2>1 DEF Reloaded, Posted
<1>20. ASSUME NEW t \in Threads, RestoreAccepted(t) PROVE PolicyKept'
  BY <1>20 DEF RestoreAccepted
<1>21. ASSUME NEW t \in Threads, RestoreRejected(t) PROVE PolicyKept'
  BY <1>21 DEF RestoreRejected
<1>22. ASSUME NEW t \in Threads, Finish(t) PROVE PolicyKept'
  BY <1>22 DEF Finish
<1>23. ASSUME NEW p \in Plugins \cup {None}, Update(p) PROVE PolicyKept'
  BY <1>23 DEF Update
<1>24. CASE Switch
  BY <1>24 DEF Switch
<1>25. CASE Save
  BY <1>25 DEF Save
<1>26. CASE Destroy
  BY <1>26 DEF Destroy
<1>27. CASE RequestStop
  BY <1>27 DEF RequestStop
<1>28. CASE Join
  BY <1>28 DEF Join
<1>29. CASE RecoveryStarts
  BY <1>29 DEF RecoveryStarts
<1>30. CASE RecoveryEnds
  BY <1>30 DEF RecoveryEnds
<1>31. CASE TickWithoutPath
  BY <1>31 DEF TickWithoutPath
<1>32. CASE TickHealthy
  BY <1>32 DEF TickHealthy
<1>33. CASE TickUnhealthy
  BY <1>33 DEF TickUnhealthy
<1>34. CASE TickDirty
  BY <1>34 DEF TickDirty
<1>35. CASE UNCHANGED vars
  BY <1>35 DEF vars
<1> QED
  BY <1>1, <1>2, <1>3, <1>4, <1>5, <1>6, <1>7, <1>8, <1>9, <1>10, <1>11, <1>12, <1>13, <1>14, <1>15,
     <1>16, <1>17, <1>18, <1>19, <1>20, <1>21, <1>22, <1>23, <1>24, <1>25, <1>26, <1>27, <1>28,
     <1>29, <1>30, <1>31, <1>32, <1>33, <1>34, <1>35 DEF Next, Helper, Procedures

LEMMA RangedStep ==
    TypeOK /\ MutexInv /\ BridgeInv /\ DirtyInv /\ [Next]_vars => Ranged'
<1> SUFFICES ASSUME TypeOK /\ MutexInv /\ BridgeInv /\ DirtyInv, [Next]_vars PROVE Ranged'
  OBVIOUS
<1> USE RecoveryAssumption, Values, TypeParts DEF Ranged, Threads, ThreadTyped, ThreadStates,
        HelperTyped, HelperStates, BridgeInv, Holding, Accepted, Answered, At, Lock, Unlock,
        BecomesIdle, Continues, Fault, Responds, Discard, Command
<1>1. CASE Edit
  BY <1>1 DEF Edit
<1>2. CASE FallbackArrives
  BY <1>2 DEF FallbackArrives
<1>3. CASE TakeRequest
  BY <1>3 DEF TakeRequest
<1>4. CASE RefuseRequest
  BY <1>4 DEF RefuseRequest
<1>5. ASSUME NEW status \in {"ok", "failed"}, Answer(status) PROVE Ranged'
  BY <1>5 DEF Answer
<1>6. CASE Crash
  BY <1>6 DEF Crash
<1>7. CASE Stall
  BY <1>7 DEF Stall
<1>8. CASE Unstall
  BY <1>8 DEF Unstall
<1>9. ASSUME NEW t \in Threads, CaptureSkipped(t) PROVE Ranged'
  BY <1>9 DEF CaptureSkipped
<1>10. ASSUME NEW t \in Threads, CaptureAsks(t) PROVE Ranged'
  BY <1>10 DEF CaptureAsks
<1>11. ASSUME NEW t \in Threads, CaptureFails(t) PROVE Ranged'
  BY <1>11 DEF CaptureFails
<1>12. ASSUME NEW t \in Threads, CaptureSaves(t) PROVE Ranged'
  BY <1>12 DEF CaptureSaves
<1>13. ASSUME NEW t \in Threads, RestartCancelled(t) PROVE Ranged'
  BY <1>13 DEF RestartCancelled
<1>14. ASSUME NEW t \in Threads, RestartBegins(t) PROVE Ranged'
  <2>1. CASE identity = None
    BY <1>14, <2>1 DEF RestartBegins
  <2>2. CASE identity # None
    BY <1>14, <2>2 DEF RestartBegins
  <2> QED
    BY <2>1, <2>2
<1>15. ASSUME NEW t \in Threads, StartSucceeds(t) PROVE Ranged'
  <2>1. Started(t)
    BY <1>15, StartShape
  <2> QED
    BY <2>1 DEF Started, Fresh
<1>16. ASSUME NEW t \in Threads, StartFails(t) PROVE Ranged'
  BY <1>16 DEF StartFails
<1>17. ASSUME NEW t \in Threads, LoadMissing(t) PROVE Ranged'
  BY <1>17 DEF LoadMissing
<1>18. ASSUME NEW t \in Threads, LoadInvalid(t) PROVE Ranged'
  BY <1>18 DEF LoadInvalid
<1>19. ASSUME NEW t \in Threads, LoadGood(t) PROVE Ranged'
  <2>1. Reloaded(t)
    BY <1>19, LoadShape
  <2> QED
    BY <2>1 DEF Reloaded, Posted
<1>20. ASSUME NEW t \in Threads, RestoreAccepted(t) PROVE Ranged'
  BY <1>20 DEF RestoreAccepted
<1>21. ASSUME NEW t \in Threads, RestoreRejected(t) PROVE Ranged'
  BY <1>21 DEF RestoreRejected
<1>22. ASSUME NEW t \in Threads, Finish(t) PROVE Ranged'
  BY <1>22 DEF Finish
<1>23. ASSUME NEW p \in Plugins \cup {None}, Update(p) PROVE Ranged'
  BY <1>23 DEF Update
<1>24. CASE Switch
  BY <1>24 DEF Switch
<1>25. CASE Save
  BY <1>25 DEF Save
<1>26. CASE Destroy
  BY <1>26 DEF Destroy
<1>27. CASE RequestStop
  BY <1>27 DEF RequestStop
<1>28. CASE Join
  BY <1>28 DEF Join
<1>29. CASE RecoveryStarts
  BY <1>29 DEF RecoveryStarts
<1>30. CASE RecoveryEnds
  BY <1>30 DEF RecoveryEnds
<1>31. CASE TickWithoutPath
  BY <1>31 DEF TickWithoutPath
<1>32. CASE TickHealthy
  BY <1>32 DEF TickHealthy
<1>33. CASE TickUnhealthy
  BY <1>33 DEF TickUnhealthy
<1>34. CASE TickDirty
  BY <1>34 DEF TickDirty
<1>35. CASE UNCHANGED vars
  BY <1>35 DEF vars
<1> QED
  BY <1>1, <1>2, <1>3, <1>4, <1>5, <1>6, <1>7, <1>8, <1>9, <1>10, <1>11, <1>12, <1>13, <1>14, <1>15,
     <1>16, <1>17, <1>18, <1>19, <1>20, <1>21, <1>22, <1>23, <1>24, <1>25, <1>26, <1>27, <1>28,
     <1>29, <1>30, <1>31, <1>32, <1>33, <1>34, <1>35 DEF Next, Helper, Procedures

LEMMA ThreadTypedStep ==
    TypeOK /\ MutexInv /\ BridgeInv /\ DirtyInv /\ [Next]_vars => ThreadTyped'
<1> SUFFICES ASSUME TypeOK /\ MutexInv /\ BridgeInv /\ DirtyInv, [Next]_vars PROVE ThreadTyped'
  OBVIOUS
<1> USE Named, Values, Records, TypeParts DEF ThreadTyped, ThreadStates, At, Lock, Unlock,
        BecomesIdle
<1>1. CASE Edit
  BY <1>1 DEF Edit
<1>2. CASE FallbackArrives
  BY <1>2 DEF FallbackArrives
<1>3. CASE TakeRequest
  BY <1>3 DEF TakeRequest
<1>4. CASE RefuseRequest
  BY <1>4 DEF RefuseRequest
<1>5. ASSUME NEW status \in {"ok", "failed"}, Answer(status) PROVE ThreadTyped'
  BY <1>5 DEF Answer
<1>6. CASE Crash
  BY <1>6 DEF Crash
<1>7. CASE Stall
  BY <1>7 DEF Stall
<1>8. CASE Unstall
  BY <1>8 DEF Unstall
<1>9. ASSUME NEW t \in Threads, CaptureSkipped(t) PROVE ThreadTyped'
  <2>1. Continues(t)
    BY <1>9 DEF CaptureSkipped
  <2> QED
    BY <2>1, ThreadReset
<1>10. ASSUME NEW t \in Threads, CaptureAsks(t) PROVE ThreadTyped'
  <2>1. thread' = [thread EXCEPT ![t].at = "asking", ![t].dirty = helper.dirty]
    BY <1>10 DEF CaptureAsks
  <2> QED
    BY <2>1, ThreadMoved
<1>11. ASSUME NEW t \in Threads, CaptureFails(t) PROVE ThreadTyped'
  <2>1. Continues(t)
    BY <1>11 DEF CaptureFails
  <2> QED
    BY <2>1, ThreadReset
<1>12. ASSUME NEW t \in Threads, CaptureSaves(t) PROVE ThreadTyped'
  <2>1. Continues(t)
    BY <1>12 DEF CaptureSaves
  <2> QED
    BY <2>1, ThreadReset
<1>13. ASSUME NEW t \in Threads, RestartCancelled(t) PROVE ThreadTyped'
  BY <1>13 DEF RestartCancelled
<1>14. ASSUME NEW t \in Threads, RestartBegins(t) PROVE ThreadTyped'
  <2>1. CASE identity = None
    BY <1>14, <2>1 DEF RestartBegins
  <2>2. CASE identity # None
    BY <1>14, <2>2 DEF RestartBegins
  <2> QED
    BY <2>1, <2>2
<1>15. ASSUME NEW t \in Threads, StartSucceeds(t) PROVE ThreadTyped'
  <2>1. Started(t)
    BY <1>15, StartShape
  <2> QED
    BY <2>1 DEF Started, Fresh
<1>16. ASSUME NEW t \in Threads, StartFails(t) PROVE ThreadTyped'
  BY <1>16 DEF StartFails
<1>17. ASSUME NEW t \in Threads, LoadMissing(t) PROVE ThreadTyped'
  BY <1>17 DEF LoadMissing
<1>18. ASSUME NEW t \in Threads, LoadInvalid(t) PROVE ThreadTyped'
  <2> DEFINE kept == file'[thread[t].id] # None
  <2>1. kept \in BOOLEAN /\ thread' = [thread EXCEPT ![t].at = "finish", ![t].kept = kept]
    BY <1>18 DEF LoadInvalid
  <2> HIDE DEF kept
  <2> QED
    BY <2>1, ThreadMoved, Named
<1>19. ASSUME NEW t \in Threads, LoadGood(t) PROVE ThreadTyped'
  <2>1. Reloaded(t)
    BY <1>19, LoadShape
  <2> QED
    BY <2>1 DEF Reloaded, Posted
<1>20. ASSUME NEW t \in Threads, RestoreAccepted(t) PROVE ThreadTyped'
  BY <1>20 DEF RestoreAccepted
<1>21. ASSUME NEW t \in Threads, RestoreRejected(t) PROVE ThreadTyped'
  <2> DEFINE kept == file'[thread[t].id] # None
  <2>1. kept \in BOOLEAN /\ thread' = [thread EXCEPT ![t].at = "start", ![t].first = FALSE, ![t].kept = kept]
    BY <1>21 DEF RestoreRejected
  <2> HIDE DEF kept
  <2> QED
    BY <2>1, ThreadMoved, Named
<1>22. ASSUME NEW t \in Threads, Finish(t) PROVE ThreadTyped'
  BY <1>22 DEF Finish
<1>23. ASSUME NEW p \in Plugins \cup {None}, Update(p) PROVE ThreadTyped'
  <2>1. Captures("obs", "switch", p)
    BY <1>23 DEF Update
  <2> QED
    BY <2>1, ThreadReset, Named, Values
<1>24. CASE Switch
  BY <1>24 DEF Switch
<1>25. CASE Save
  <2>1. Captures("obs", "idle", None)
    BY <1>25 DEF Save
  <2> QED
    BY <2>1, ThreadReset, Named, Values
<1>26. CASE Destroy
  <2>1. Captures("obs", "destroy", None)
    BY <1>26 DEF Destroy
  <2> QED
    BY <2>1, ThreadReset, Named, Values
<1>27. CASE RequestStop
  BY <1>27 DEF RequestStop
<1>28. CASE Join
  BY <1>28 DEF Join
<1>29. CASE RecoveryStarts
  BY <1>29 DEF RecoveryStarts
<1>30. CASE RecoveryEnds
  BY <1>30 DEF RecoveryEnds
<1>31. CASE TickWithoutPath
  BY <1>31 DEF TickWithoutPath
<1>32. CASE TickHealthy
  BY <1>32 DEF TickHealthy
<1>33. CASE TickUnhealthy
  <2>1. Backed
    BY <1>33, UnhealthyShape
  <2> QED
    BY <2>1 DEF Backed
<1>34. CASE TickDirty
  <2>1. BecomesIdle("recovery") \/ Captures("recovery", "idle", None)
    BY <1>34 DEF TickDirty
  <2> QED
    BY <2>1, ThreadReset, Named, Values
<1>35. CASE UNCHANGED vars
  BY <1>35 DEF vars
<1> QED
  BY <1>1, <1>2, <1>3, <1>4, <1>5, <1>6, <1>7, <1>8, <1>9, <1>10, <1>11, <1>12, <1>13, <1>14, <1>15,
     <1>16, <1>17, <1>18, <1>19, <1>20, <1>21, <1>22, <1>23, <1>24, <1>25, <1>26, <1>27, <1>28,
     <1>29, <1>30, <1>31, <1>32, <1>33, <1>34, <1>35 DEF Next, Helper, Procedures

LEMMA HelperTypedStep ==
    TypeOK /\ MutexInv /\ BridgeInv /\ DirtyInv /\ [Next]_vars => HelperTyped'
<1> SUFFICES ASSUME TypeOK /\ MutexInv /\ BridgeInv /\ DirtyInv, [Next]_vars PROVE HelperTyped'
  OBVIOUS
<1> USE Values, Records, TypeParts DEF Post, Settled, ThreadTyped, HelperTyped, ThreadStates,
        HelperStates, DirtyInv, Fault, Responds
<1>1. CASE Edit
  <2> DEFINE early == helper.early \/ ~published
  <2>1. edits + 1 \in States /\ helper.dirty + 1 \in Generations
    BY <1>1, RecoveryAssumption DEF Edit, States, Generations, Ranged
  <2>2. early \in BOOLEAN
    OBVIOUS
  <2>3. helper' = [helper EXCEPT !.state = edits + 1, !.dirty = @ + 1, !.early = early]
    BY <1>1 DEF Edit
  <2> HIDE DEF early
  <2> QED
    BY <2>1, <2>2, <2>3
<1>2. CASE FallbackArrives
  <2>1. helper.dirty + 1 \in Generations
    BY <1>2, RecoveryAssumption DEF FallbackArrives, Generations, Ranged
  <2> QED
    BY <1>2, <2>1 DEF FallbackArrives
<1>3. CASE TakeRequest
  BY <1>3 DEF TakeRequest
<1>4. CASE RefuseRequest
  BY <1>4 DEF RefuseRequest
<1>5. ASSUME NEW status \in {"ok", "failed"}, Answer(status) PROVE HelperTyped'
  <2> DEFINE pending == helper.pending /\ ~helper.latest
             payload == IF status = "ok" /\ helper.serving = "capture" THEN helper.state ELSE helper.payload
             state == IF status = "ok" /\ helper.serving = "restore" THEN helper.payload ELSE helper.state
  <2>1. pending \in BOOLEAN /\ payload \in States /\ state \in States
    OBVIOUS
  <2>2. helper' = [helper EXCEPT
            !.status = status, !.command = "none", !.serving = "idle", !.pending = pending,
            !.latest = FALSE, !.payload = payload, !.state = state]
    BY <1>5 DEF Answer
  <2> DEFINE told == [helper EXCEPT !.status = status, !.command = "none", !.serving = "idle"]
             cleared == [told EXCEPT !.pending = pending, !.latest = FALSE]
  <2>3. told \in HelperStates
    OBVIOUS
  <2> HIDE DEF pending, payload, state
  <2>4. cleared \in HelperStates
    <3> HIDE DEF told
    <3> QED
      BY <2>1, <2>3
  <2>5. helper' = [cleared EXCEPT !.payload = payload, !.state = state]
    BY <2>2
  <2> HIDE DEF told, cleared
  <2> QED
    BY <2>1, <2>4, <2>5
<1>6. CASE Crash
  BY <1>6 DEF Crash
<1>7. CASE Stall
  BY <1>7 DEF Stall
<1>8. CASE Unstall
  BY <1>8 DEF Unstall
<1>9. ASSUME NEW t \in Threads, CaptureSkipped(t) PROVE HelperTyped'
  BY <1>9 DEF CaptureSkipped
<1>10. ASSUME NEW t \in Threads, CaptureAsks(t) PROVE HelperTyped'
  BY <1>10 DEF CaptureAsks
<1>11. ASSUME NEW t \in Threads, CaptureFails(t) PROVE HelperTyped'
  BY <1>11 DEF CaptureFails
<1>12. ASSUME NEW t \in Threads, CaptureSaves(t) PROVE HelperTyped'
  BY <1>12 DEF CaptureSaves
<1>13. ASSUME NEW t \in Threads, RestartCancelled(t) PROVE HelperTyped'
  BY <1>13 DEF RestartCancelled
<1>14. ASSUME NEW t \in Threads, RestartBegins(t) PROVE HelperTyped'
  <2>1. CASE identity = None
    BY <1>14, <2>1 DEF RestartBegins
  <2>2. CASE identity # None
    BY <1>14, <2>2 DEF RestartBegins
  <2> QED
    BY <2>1, <2>2
<1>15. ASSUME NEW t \in Threads, StartSucceeds(t) PROVE HelperTyped'
  BY <1>15, StartShape
<1>16. ASSUME NEW t \in Threads, StartFails(t) PROVE HelperTyped'
  BY <1>16 DEF StartFails
<1>17. ASSUME NEW t \in Threads, LoadMissing(t) PROVE HelperTyped'
  BY <1>17 DEF LoadMissing
<1>18. ASSUME NEW t \in Threads, LoadInvalid(t) PROVE HelperTyped'
  BY <1>18 DEF LoadInvalid
<1>19. ASSUME NEW t \in Threads, LoadGood(t) PROVE HelperTyped'
  <2>1. file[thread[t].id] # None => file[thread[t].id].edit \in States
    BY <1>19 DEF LoadGood, Ranged, BridgeInv, At, Holding, Restarting
  <2> DEFINE edit == file[thread[t].id].edit
             asked == [helper EXCEPT !.pending = TRUE, !.command = "restore", !.status = "idle"]
  <2>2. asked \in HelperStates
    OBVIOUS
  <2>3. helper' = helper \/ helper' = [asked EXCEPT !.payload = edit, !.latest = FALSE]
    BY <1>19 DEF LoadGood
  <2>4. edit \in States
    BY <1>19, <2>1 DEF LoadGood
  <2> HIDE DEF edit, asked
  <2>5. [asked EXCEPT !.payload = edit, !.latest = FALSE] \in HelperStates
    BY <2>2, <2>4
  <2> HIDE DEF HelperStates
  <2> QED
    BY <2>3, <2>5
<1>20. ASSUME NEW t \in Threads, RestoreAccepted(t) PROVE HelperTyped'
  BY <1>20 DEF RestoreAccepted
<1>21. ASSUME NEW t \in Threads, RestoreRejected(t) PROVE HelperTyped'
  BY <1>21 DEF RestoreRejected
<1>22. ASSUME NEW t \in Threads, Finish(t) PROVE HelperTyped'
  BY <1>22 DEF Finish
<1>23. ASSUME NEW p \in Plugins \cup {None}, Update(p) PROVE HelperTyped'
  BY <1>23 DEF Update
<1>24. CASE Switch
  BY <1>24 DEF Switch
<1>25. CASE Save
  BY <1>25 DEF Save
<1>26. CASE Destroy
  BY <1>26 DEF Destroy
<1>27. CASE RequestStop
  BY <1>27 DEF RequestStop
<1>28. CASE Join
  BY <1>28 DEF Join
<1>29. CASE RecoveryStarts
  BY <1>29 DEF RecoveryStarts
<1>30. CASE RecoveryEnds
  BY <1>30 DEF RecoveryEnds
<1>31. CASE TickWithoutPath
  BY <1>31 DEF TickWithoutPath
<1>32. CASE TickHealthy
  BY <1>32 DEF TickHealthy
<1>33. CASE TickUnhealthy
  <2>1. Backed
    BY <1>33, UnhealthyShape
  <2> QED
    BY <2>1 DEF Backed
<1>34. CASE TickDirty
  <2>1. Looked
    BY <1>34, DirtyShape
  <2>2. CASE BecomesIdle("recovery")
    BY <2>1, <2>2 DEF Looked
  <2>3. CASE identity # None /\ Checkpoint
    BY <2>1, <2>3 DEF Looked, Checkpoint
  <2> QED
    BY <2>1, <2>2, <2>3 DEF Looked
<1>35. CASE UNCHANGED vars
  BY <1>35 DEF vars
<1> QED
  BY <1>1, <1>2, <1>3, <1>4, <1>5, <1>6, <1>7, <1>8, <1>9, <1>10, <1>11, <1>12, <1>13, <1>14, <1>15,
     <1>16, <1>17, <1>18, <1>19, <1>20, <1>21, <1>22, <1>23, <1>24, <1>25, <1>26, <1>27, <1>28,
     <1>29, <1>30, <1>31, <1>32, <1>33, <1>34, <1>35 DEF Next, Helper, Procedures

(* Every step keeps the types. *)
LEMMA TypeStep == TypeOK /\ MutexInv /\ BridgeInv /\ DirtyInv /\ [Next]_vars => TypeOK'
<1> SUFFICES ASSUME TypeOK /\ MutexInv /\ BridgeInv /\ DirtyInv /\ [Next]_vars PROVE TypeOK'
  OBVIOUS
<1>1. Flagged' /\ PolicyKept' /\ Ranged' /\ ThreadTyped' /\ HelperTyped'
  BY FlaggedStep, PolicyKeptStep, RangedStep, ThreadTypedStep, HelperTypedStep
<1>2. (ThreadTyped /\ HelperTyped /\ PolicyKept /\ Flagged /\ Ranged => TypeOK)'
  BY TypeParts, PTL
<1> QED
  BY <1>1, <1>2

-----------------------------------------------------------------------------
(* A filter just created satisfies the invariant. *)
LEMMA InitHolds == Init => RecoveryInv
<1> SUFFICES ASSUME Init PROVE RecoveryInv
  OBVIOUS
<1> USE RecoveryAssumption DEF Init
<1>1. Flagged /\ PolicyKept /\ Ranged
  <2>1. Flagged
    BY DEF Flagged
  <2>2. PolicyKept
    BY DEF PolicyKept, Policies, NoPolicy
  <2>3. file \in [Plugins -> Snapshots \cup {None}]
    OBVIOUS
  <2>4. Ranged
    BY <2>3, Values DEF Ranged
  <2> QED
    BY <2>1, <2>2, <2>4
<1>2. ThreadTyped
  <2>1. [Idle EXCEPT !.at = "switch", !.to = Created] \in ThreadStates
    BY Records, Named, Values DEF ThreadStates
  <2>2. [Idle EXCEPT !.at = "unborn"] \in ThreadStates
    BY Records DEF ThreadStates, Places
  <2> QED
    BY <2>1, <2>2 DEF ThreadTyped, Threads
<1>3. HelperTyped
  BY Records DEF HelperTyped
<1>4. TypeOK
  BY <1>1, <1>2, <1>3, TypeParts
<1>5. \A t \in Threads : thread[t].at \in {"switch", "unborn"}
  <2>1. thread["obs"].at = "switch"
    BY DEF Idle
  <2>2. thread["recovery"].at = "unborn"
    BY DEF Idle
  <2> QED
    BY <2>1, <2>2 DEF Threads
<1>6. MutexInv
  BY <1>5 DEF MutexInv, Holding, Restarting
<1>7. BridgeInv /\ RestartInv /\ CheckpointInv
  BY <1>5 DEF BridgeInv, RestartInv, CheckpointInv, Holding, Restarting, At
<1>8. MailboxInv /\ DirtyInv
  BY <1>5 DEF MailboxInv, DirtyInv, NoHelper, At
<1> QED
  BY <1>4, <1>6, <1>7, <1>8 DEF RecoveryInv

(* Every step keeps the invariant. *)
LEMMA StepHolds == RecoveryInv /\ [Next]_vars => RecoveryInv'
  BY TypeStep, MutexStep, BridgeStep, MailboxStep, DirtyStep, RestartStep, CheckpointStep DEF
     RecoveryInv

(* The inductive invariant of the filter's recovery holds in every reachable state, for any number of *)
(* plug-ins, edits, commands, faults and any back-off. *)
THEOREM RecoverySafety == Spec => []RecoveryInv
  BY InitHolds, StepHolds, PTL DEF Spec

(* Every variable keeps its range: the mailbox's words, the generations, the capped back-off. *)
THEOREM RecoveryTypes == Spec => []TypeOK
<1>1. RecoveryInv => TypeOK
  BY DEF RecoveryInv
<1> QED
  BY <1>1, RecoverySafety, PTL

(* The two halves of the property follow from CheckpointInv with the owners of the files, and from *)
(* BridgeInv. *)
LEMMA SavedHolds == RecoveryInv => SavedMeansRestorable
<1> SUFFICES ASSUME RecoveryInv PROVE SavedMeansRestorable
  OBVIOUS
<1> USE DEF RecoveryInv
<1>1. ASSUME published, Running, saved = helper.dirty, ~loose
      PROVE  Restorable(helper.id) = [of |-> helper.id, edit |-> helper.state]
  <2>1. helper.id \in Plugins
    BY <1>1 DEF BridgeInv
  <2>2. Restorable(helper.id).edit = helper.state
    BY <1>1 DEF CheckpointInv
  <2>3. CASE file[helper.id] = None
    BY <2>2, <2>3 DEF Restorable
  <2>4. CASE file[helper.id] # None
    <3>1. file[helper.id] \in Snapshots /\ file[helper.id].of = helper.id
      BY <2>1, <2>4 DEF TypeOK, BridgeInv
    <3> QED
      BY <2>2, <2>4, <3>1 DEF Restorable, Snapshots
  <2> QED
    BY <2>3, <2>4
<1>2. ASSUME published, mutex = None, At("obs", "idle")
      PROVE  helper.id = identity
  BY <1>2 DEF BridgeInv, Selected, At
<1> QED
  BY <1>1, <1>2 DEF SavedMeansRestorable

(* When the filter believes the state saved, a crash at that moment loses nothing and restores the *)
(* plug-in that is selected (checkpoint_state_if_dirty and restart_bridge in plugin.cpp). *)
THEOREM RecoverySavedMeansRestorable == Spec => []SavedMeansRestorable
  BY SavedHolds, RecoverySafety, PTL

=============================================================================
