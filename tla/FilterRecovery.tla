--------------------------- MODULE FilterRecovery ---------------------------
(***************************************************************************)
(* The Single Host filter of OBS keeps one helper process alive and its     *)
(* saved state current (obs-plugin/plugin.cpp, state_store.cpp,             *)
(* common/recovery_policy.hpp, platform/windows/state_ipc.cpp).  Two        *)
(* threads work on it under restart_mutex: the thread on which OBS updates, *)
(* saves and destroys the filter, and the recovery thread with its one-     *)
(* second tick.  The helper answers one state request at a time, late       *)
(* perhaps, or dies, or stalls.                                             *)
(*                                                                          *)
(* The state of a plug-in is the number of the last edit that reached it,   *)
(* from the vendor window or from a slider of OBS; 0 is what a fresh helper *)
(* and the parameter fallback give.  Request numbers of the mailbox are     *)
(* abstracted to whether the answer under way is to the latest request.     *)
(*                                                                          *)
(* While a restart holds the mutex nobody looks at the bridge it is about   *)
(* to retire, so there is one helper: the candidate from its start on, the  *)
(* published one otherwise.  Retirement itself is in BridgeReclaim.         *)
(***************************************************************************)
EXTENDS Integers, FiniteSets

CONSTANTS
    Plugins,      \* identities (path and class) the user may select
    Created,      \* the one in the settings the filter is created with
    None,         \* no identity, no file, nobody
    MaxEdits,     \* edits in a behaviour
    MaxCommands,  \* updates and saves OBS asks for
    MaxFaults,    \* crashes, stalls, failed starts and failed deletions
    StableReset,  \* kStableResetMs, in ticks
    MaxShift,     \* the cap on the exponent of the back-off (5)
    MaxBackoff,   \* kMaxBackoffMs, in ticks
    AttemptCap    \* the cap on recovery_attempts_ (31)

Threads == {"obs", "recovery"}
States == 0 .. MaxEdits
Snapshots == [of : Plugins, edit : States]

ASSUME RecoveryAssumption ==
    /\ IsFiniteSet(Plugins) /\ Created \in Plugins
    /\ None \notin Plugins \cup Threads \cup Snapshots
    /\ MaxEdits \in Nat /\ MaxCommands \in Nat /\ MaxFaults \in Nat
    /\ StableReset \in Nat /\ MaxShift \in Nat /\ MaxBackoff \in Nat \ {0} /\ AttemptCap \in Nat \ {0}

VARIABLES
    identity,   \* Filter::path and class_id
    shutting,   \* Filter::shutting_down and the stop tokens
    mutex,      \* the holder of restart_mutex, or None
    thread,     \* thread[t]: [at, id, then, to, dirty, first, kept]
    helper,     \* the helper process and its two shared regions
    published,  \* whether bridge_owner is the helper
    observed,   \* observed_state_generation
    saved,      \* saved_state_generation
    stable,     \* stable_dirty_ticks
    file,       \* the state file of each identity
    loose,      \* a restart left the file behind: see Finish
    policy,     \* RecoveryPolicy: [attempts, retry_in, healthy]
    edits, commands, faults

vars == <<identity, shutting, mutex, thread, helper, published, observed, saved, stable,
          file, loose, policy, edits, commands, faults>>

NoHelper == [alive |-> FALSE, stalled |-> FALSE, id |-> None, state |-> 0, dirty |-> 0,
             early |-> FALSE, fallback |-> FALSE, pending |-> FALSE, command |-> "none",
             status |-> "idle", payload |-> 0, serving |-> "idle", latest |-> FALSE]
FreshHelper(p) == [NoHelper EXCEPT !.alive = TRUE, !.id = p]

Idle == [at |-> "idle", id |-> None, then |-> "idle", to |-> None, dirty |-> 0,
         first |-> TRUE, kept |-> FALSE]
NoPolicy == [attempts |-> 0, retry_in |-> 0, healthy |-> 0]

Selection == Plugins \cup {None}
Generations == 0 .. MaxEdits + 1
Places == {"unborn", "idle", "capture", "asking", "switch", "restart", "start", "load",
           "restoring", "finish", "dirty", "destroy", "join", "gone"}
ThreadStates ==
    [at : Places, id : Selection, then : {"idle", "switch", "destroy"}, to : Selection,
     dirty : Generations, first : BOOLEAN, kept : BOOLEAN]
HelperStates ==
    [alive : BOOLEAN, stalled : BOOLEAN, id : Selection, state : States, dirty : Generations,
     early : BOOLEAN, fallback : BOOLEAN, pending : BOOLEAN,
     command : {"none", "capture", "restore"}, status : {"idle", "ok", "failed"},
     payload : States, serving : {"idle", "none", "capture", "restore"}, latest : BOOLEAN]

TypeOK ==
    /\ identity \in Selection
    /\ shutting \in BOOLEAN /\ published \in BOOLEAN /\ loose \in BOOLEAN
    /\ mutex \in Threads \cup {None}
    /\ thread \in [Threads -> ThreadStates]
    /\ helper \in HelperStates
    /\ observed \in Generations /\ saved \in Generations /\ stable \in 0 .. 1
    /\ file \in [Plugins -> Snapshots \cup {None}]
    /\ policy \in [attempts : 0 .. AttemptCap, retry_in : 0 .. MaxBackoff, healthy : 0 .. StableReset]
    /\ edits \in 0 .. MaxEdits /\ commands \in 0 .. MaxCommands /\ faults \in 0 .. MaxFaults

\* filter_create runs filter_update before it starts the recovery thread.
Init ==
    /\ identity = None /\ shutting = FALSE /\ mutex = None
    /\ thread = [obs |-> [Idle EXCEPT !.at = "switch", !.to = Created],
                 recovery |-> [Idle EXCEPT !.at = "unborn"]]
    /\ helper = NoHelper /\ published = FALSE
    /\ observed = 0 /\ saved = 0 /\ stable = 0
    /\ file = [p \in Plugins |-> None]
    /\ loose = FALSE /\ policy = NoPolicy
    /\ edits = 0 /\ commands = 0 /\ faults = 0

At(t, place) == thread[t].at = place
Running == helper.alive   \* host_status is Ready from the end of start to the end of the process

Fault == faults < MaxFaults /\ faults' = faults + 1

-----------------------------------------------------------------------------
(***************************************************************************)
(* The helper: edits, the state mailbox, crashes and stalls                 *)
(***************************************************************************)
Responds == helper.alive /\ ~helper.stalled
helperOnly == <<identity, shutting, mutex, thread, published, observed, saved, stable, file, loose,
                policy, commands>>

\* Edits are made on the helper's main thread, between two passes of its loop.
Edit ==
    /\ Responds /\ helper.serving = "idle" /\ edits < MaxEdits
    /\ edits' = edits + 1
    /\ helper' = [helper EXCEPT !.state = edits + 1, !.dirty = @ + 1,
                                !.early = @ \/ ~published]
    /\ UNCHANGED <<helperOnly, faults>>

\* The parameters of the fallback arrive: the state they give is state 0.
FallbackArrives ==
    /\ Responds /\ helper.serving = "idle" /\ helper.fallback
    /\ helper' = [helper EXCEPT !.dirty = @ + 1, !.fallback = FALSE]
    /\ UNCHANGED <<helperOnly, edits, faults>>

\* The loop finds requested # applied, pauses the DSP and reads the command.
TakeRequest ==
    /\ Responds /\ helper.serving = "idle" /\ helper.pending
    /\ helper' = [helper EXCEPT !.serving = helper.command, !.latest = TRUE]
    /\ UNCHANGED <<helperOnly, edits, faults>>

\* complete_state_failure: no pause or no frontier, and the request is answered unread.
RefuseRequest ==
    /\ Responds /\ helper.serving = "idle" /\ helper.pending
    /\ helper' = [helper EXCEPT !.status = "failed", !.command = "none", !.pending = FALSE]
    /\ UNCHANGED <<helperOnly, edits, faults>>

\* The end of handle_state_command.  An answer to an older request leaves the
\* newer one pending, with its command cleared.
Answer(status) ==
    /\ Responds /\ helper.serving # "idle"
    /\ helper.serving = "none" => status = "failed"
    /\ LET whole == status = "ok"
       IN helper' = [helper EXCEPT
            !.status = status, !.command = "none", !.serving = "idle",
            !.pending = @ /\ ~helper.latest, !.latest = FALSE,
            !.payload = IF whole /\ helper.serving = "capture" THEN helper.state ELSE @,
            !.state = IF whole /\ helper.serving = "restore" THEN helper.payload ELSE @]
    /\ UNCHANGED <<helperOnly, edits, faults>>

\* The process dies: of what its regions hold only the dirty generation is still read.
Crash ==
    /\ helper.alive /\ Fault
    /\ helper' = [NoHelper EXCEPT !.id = helper.id, !.dirty = helper.dirty]
    /\ UNCHANGED <<helperOnly, edits>>

\* The main loop hangs in a vendor call past the heartbeat timeout, perhaps for ever.
Stall ==
    /\ Responds /\ Fault
    /\ helper' = [helper EXCEPT !.stalled = TRUE]
    /\ UNCHANGED <<helperOnly, edits>>

Unstall ==
    /\ helper.alive /\ helper.stalled
    /\ helper' = [helper EXCEPT !.stalled = FALSE]
    /\ UNCHANGED <<helperOnly, edits, faults>>

Helper ==
    \/ Edit \/ FallbackArrives \/ TakeRequest \/ RefuseRequest
    \/ \E status \in {"ok", "failed"} : Answer(status)
    \/ Crash \/ Stall \/ Unstall

-----------------------------------------------------------------------------
(***************************************************************************)
(* The mailbox on the side of OBS                                           *)
(***************************************************************************)
Post(command, payload) ==
    helper' = [helper EXCEPT !.pending = TRUE, !.command = command, !.status = "idle",
                             !.payload = payload, !.latest = FALSE]

Answered == helper.alive /\ ~helper.pending
Accepted == Answered /\ helper.status = "ok"
\* What the mailbox holds once its answer was read is never read again.
Settled == [helper EXCEPT !.status = "idle", !.payload = 0]

-----------------------------------------------------------------------------
(***************************************************************************)
(* capture_bridge_state, by either thread, for the identity it read before  *)
(***************************************************************************)
Lock(t) == mutex = None /\ mutex' = t
Unlock == mutex' = None
BecomesIdle(t) == thread' = [thread EXCEPT ![t] = Idle]
Continues(t) == thread' = [thread EXCEPT ![t] = [Idle EXCEPT !.at = thread[t].then, !.to = thread[t].to]]

\* Saves of OBS are forced, the checkpoints of the recovery thread are not.
WorthCapturing(t) ==
    /\ published /\ Running /\ helper.id = thread[t].id
    /\ t = "obs" \/ helper.dirty # saved

CaptureSkipped(t) ==
    /\ At(t, "capture") /\ mutex = None /\ ~WorthCapturing(t)
    /\ Continues(t)
    /\ UNCHANGED <<identity, shutting, mutex, helper, published, observed, saved, stable, file,
                   loose, policy, edits, commands, faults>>

\* The dirty generation is read before the state is asked for.
CaptureAsks(t) ==
    /\ At(t, "capture") /\ Lock(t) /\ WorthCapturing(t)
    /\ Post("capture", 0)
    /\ thread' = [thread EXCEPT ![t].at = "asking", ![t].dirty = helper.dirty]
    /\ UNCHANGED <<identity, shutting, published, observed, saved, stable, file, loose, policy,
                   edits, commands, faults>>

\* No whole answer, or obsstate::save failed: the last good file stays.
CaptureFails(t) ==
    /\ At(t, "asking") /\ Unlock
    /\ observed' = thread[t].dirty
    /\ Continues(t)
    /\ UNCHANGED <<identity, shutting, helper, published, saved, stable, file, loose, policy,
                   edits, commands, faults>>

\* Mutant: the generation is read after the state.
CaptureSavesLate(t) ==
    /\ At(t, "asking") /\ Accepted /\ Unlock
    /\ file' = [file EXCEPT ![thread[t].id] = [of |-> helper.id, edit |-> helper.payload]]
    /\ observed' = helper.dirty /\ saved' = helper.dirty
    /\ loose' = FALSE /\ helper' = Settled
    /\ Continues(t)
    /\ UNCHANGED <<identity, shutting, published, stable, policy, edits, commands, faults>>

CaptureSaves(t) ==
    /\ At(t, "asking") /\ Accepted /\ Unlock
    /\ file' = [file EXCEPT ![thread[t].id] = [of |-> helper.id, edit |-> helper.payload]]
    /\ observed' = thread[t].dirty /\ saved' = thread[t].dirty
    /\ loose' = FALSE /\ helper' = Settled
    /\ Continues(t)
    /\ UNCHANGED <<identity, shutting, published, stable, policy, edits, commands, faults>>

-----------------------------------------------------------------------------
(***************************************************************************)
(* restart_bridge, by either thread                                         *)
(***************************************************************************)
RestartCancelled(t) ==
    /\ At(t, "restart") /\ mutex = None /\ shutting
    /\ BecomesIdle(t)
    /\ UNCHANGED <<identity, shutting, mutex, helper, published, observed, saved, stable, file,
                   loose, policy, edits, commands, faults>>

\* The identity is read under the mutex; an empty one retires the bridge.
RestartBegins(t) ==
    /\ At(t, "restart") /\ mutex = None /\ ~shutting
    /\ published' = FALSE /\ helper' = NoHelper
    /\ IF identity = None
       THEN BecomesIdle(t) /\ UNCHANGED mutex
       ELSE mutex' = t /\ thread' = [thread EXCEPT ![t].at = "start", ![t].id = identity]
    /\ UNCHANGED <<identity, shutting, observed, saved, stable, file, loose, policy,
                   edits, commands, faults>>

\* The helper is ready, too late perhaps: then it is aborted.  The second
\* helper, after a rejected state, gets the fallback at once.
StartSucceeds(t) ==
    /\ At(t, "start")
    /\ IF shutting
       THEN BecomesIdle(t) /\ Unlock /\ UNCHANGED helper
       ELSE /\ helper' = [FreshHelper(thread[t].id) EXCEPT !.fallback = ~thread[t].first]
            /\ thread' = [thread EXCEPT ![t].at = IF thread[t].first THEN "load" ELSE "finish"]
            /\ UNCHANGED mutex
    /\ UNCHANGED <<identity, shutting, published, observed, saved, stable, file, loose, policy,
                   edits, commands, faults>>

\* The start fails or is cancelled, or there is no helper to start: no bridge is left.
StartFails(t) ==
    /\ At(t, "start") /\ Unlock
    /\ Fault \/ (shutting /\ UNCHANGED faults)
    /\ BecomesIdle(t)
    /\ UNCHANGED <<identity, shutting, helper, published, observed, saved, stable, file, loose,
                   policy, edits, commands>>

\* obsstate::discard, whose failure nobody notices.
Discard(t) ==
    \/ /\ file' = [file EXCEPT ![thread[t].id] = None]
       /\ UNCHANGED faults
    \/ /\ Fault
       /\ UNCHANGED file

LoadMissing(t) ==
    /\ At(t, "load") /\ file[thread[t].id] = None
    /\ helper' = [helper EXCEPT !.fallback = helper.alive]
    /\ thread' = [thread EXCEPT ![t].at = "finish"]
    /\ UNCHANGED <<identity, shutting, mutex, published, observed, saved, stable, file, loose,
                   policy, edits, commands, faults>>

\* The file cannot be read just now, or does not decode: it is deleted either
\* way.  save replaces the file whole, so one that does not decode is a stranger's
\* and is as good as missing; the good file that cannot be read is the case here.
LoadInvalid(t) ==
    /\ At(t, "load") /\ file[thread[t].id] # None
    /\ Discard(t)
    /\ helper' = [helper EXCEPT !.fallback = helper.alive]
    /\ thread' = [thread EXCEPT ![t].at = "finish",
                                ![t].kept = file'[thread[t].id] # None]
    /\ UNCHANGED <<identity, shutting, mutex, published, observed, saved, stable, loose, policy,
                   edits, commands>>

LoadGood(t) ==
    /\ At(t, "load") /\ file[thread[t].id] # None
    /\ IF Running THEN Post("restore", file[thread[t].id].edit) ELSE UNCHANGED helper
    /\ thread' = [thread EXCEPT ![t].at = "restoring"]
    /\ UNCHANGED <<identity, shutting, mutex, published, observed, saved, stable, file, loose,
                   policy, edits, commands, faults>>

RestoreAccepted(t) ==
    /\ At(t, "restoring") /\ Accepted
    /\ thread' = [thread EXCEPT ![t].at = "finish"]
    /\ helper' = Settled
    /\ UNCHANGED <<identity, shutting, mutex, published, observed, saved, stable, file,
                   loose, policy, edits, commands, faults>>

\* Any failure, a timeout too, deletes the file and starts a clean helper.
RestoreRejected(t) ==
    /\ At(t, "restoring") /\ ~Accepted
    /\ Discard(t)
    /\ helper' = NoHelper
    /\ thread' = [thread EXCEPT ![t].at = "start", ![t].first = FALSE,
                                ![t].kept = file'[thread[t].id] # None]
    /\ UNCHANGED <<identity, shutting, mutex, published, observed, saved, stable, loose, policy,
                   edits, commands>>

\* The generation that counts as saved is read after the restore or the
\* fallback, so an edit the plug-in made meanwhile counts as saved; loose says
\* so, as it does for a refused file that could not be deleted.
Finish(t) ==
    /\ At(t, "finish") /\ Unlock
    /\ observed' = helper.dirty /\ saved' = helper.dirty
    /\ published' = TRUE
    /\ loose' = (helper.early \/ thread[t].kept)
    /\ BecomesIdle(t)
    /\ UNCHANGED <<identity, shutting, helper, stable, file, policy, edits, commands, faults>>

Procedures(t) ==
    \/ CaptureSkipped(t) \/ CaptureAsks(t) \/ CaptureFails(t) \/ CaptureSaves(t)
    \/ RestartCancelled(t) \/ RestartBegins(t) \/ StartSucceeds(t) \/ StartFails(t)
    \/ LoadMissing(t) \/ LoadInvalid(t) \/ LoadGood(t)
    \/ RestoreAccepted(t) \/ RestoreRejected(t) \/ Finish(t)

-----------------------------------------------------------------------------
(***************************************************************************)
(* The thread on which OBS calls the filter                                 *)
(***************************************************************************)
mostVars == <<mutex, helper, published, observed, saved, stable, file, loose, policy, edits, faults>>

Command == commands < MaxCommands /\ commands' = commands + 1
Captures(t, then, to) ==
    thread' = [thread EXCEPT ![t] = [Idle EXCEPT !.at = IF identity = None THEN then ELSE "capture",
                                                 !.id = identity, !.then = then, !.to = to]]

\* filter_update with another selection; with the same one it is an edit.
Update(p) ==
    /\ At("obs", "idle") /\ p # identity /\ Command
    /\ Captures("obs", "switch", p)
    /\ UNCHANGED <<mostVars, identity, shutting>>

Switch ==
    /\ At("obs", "switch")
    /\ identity' = thread["obs"].to
    /\ thread' = [thread EXCEPT !["obs"] = [Idle EXCEPT !.at = "restart"]]
    /\ UNCHANGED <<mostVars, shutting, commands>>

Save ==
    /\ At("obs", "idle") /\ identity # None /\ Command
    /\ Captures("obs", "idle", None)
    /\ UNCHANGED <<mostVars, identity, shutting>>

Destroy ==
    /\ At("obs", "idle") /\ ~At("recovery", "unborn")
    /\ Captures("obs", "destroy", None)
    /\ UNCHANGED <<mostVars, identity, shutting, commands>>

RequestStop ==
    /\ At("obs", "destroy")
    /\ shutting' = TRUE
    /\ thread' = [thread EXCEPT !["obs"] = [Idle EXCEPT !.at = "join"]]
    /\ UNCHANGED <<mostVars, identity, commands>>

Join ==
    /\ At("obs", "join") /\ At("recovery", "gone") /\ mutex = None
    /\ published' = FALSE /\ helper' = NoHelper
    /\ thread' = [thread EXCEPT !["obs"].at = "gone"]
    /\ UNCHANGED <<identity, shutting, mutex, observed, saved, stable, file, loose, policy,
                   edits, commands, faults>>

-----------------------------------------------------------------------------
(***************************************************************************)
(* The recovery thread                                                      *)
(***************************************************************************)
Least(a, b) == IF a < b THEN a ELSE b
\* Mutant: neither the shift nor the delay is capped.
DelayUncapped(attempts) == 2 ^ attempts

Delay(attempts) ==
    LET delay == 2 ^ Least(attempts - 1, MaxShift)
    IN IF delay \in 0 .. MaxBackoff THEN delay ELSE MaxBackoff

\* record_restart_attempt
RecordAttempt(p) ==
    LET attempts == Least(p.attempts + 1, AttemptCap)
    IN [attempts |-> attempts, retry_in |-> Delay(attempts), healthy |-> 0]

\* Mutant: an observation during the back-off starts it again.
ObserveAndPostpone(responsive) ==
    LET aged == [policy EXCEPT !.retry_in = IF @ = 0 THEN 0 ELSE @ - 1]
        healthy == IF policy.attempts = 0 THEN 0 ELSE policy.healthy + 1
    IN IF ~responsive
       THEN [policy EXCEPT !.healthy = 0,
                           !.retry_in = IF @ = 0 THEN 0 ELSE Delay(policy.attempts)]
       ELSE IF aged.attempts # 0 /\ healthy > StableReset
            THEN NoPolicy
            ELSE [aged EXCEPT !.healthy = healthy]

\* RecoveryPolicy::observe one second after the last one.  healthy counts the
\* observations since healthy_since_ms_, that one included, while there are
\* attempts to forget.
Observe(responsive) ==
    LET aged == [policy EXCEPT !.retry_in = IF @ = 0 THEN 0 ELSE @ - 1]
        healthy == IF policy.attempts = 0 THEN 0 ELSE policy.healthy + 1
    IN IF ~responsive
       THEN [aged EXCEPT !.healthy = 0]
       ELSE IF aged.attempts # 0 /\ healthy > StableReset
            THEN NoPolicy
            ELSE [aged EXCEPT !.healthy = healthy]

tickVars == <<identity, shutting, mutex, helper, published, saved, file, loose, edits, commands, faults>>

RecoveryStarts ==
    /\ At("recovery", "unborn") /\ At("obs", "idle")
    /\ BecomesIdle("recovery")
    /\ UNCHANGED <<tickVars, observed, stable, policy>>

RecoveryEnds ==
    /\ At("recovery", "idle") /\ shutting
    /\ thread' = [thread EXCEPT !["recovery"].at = "gone"]
    /\ UNCHANGED <<tickVars, observed, stable, policy>>

TickWithoutPath ==
    /\ At("recovery", "idle") /\ ~shutting /\ identity = None
    /\ policy' = NoPolicy /\ stable' = 0
    /\ UNCHANGED <<tickVars, thread, observed>>

\* The health is read under the mutex; what follows from it is done without.
TickHealthy ==
    /\ At("recovery", "idle") /\ ~shutting /\ identity # None /\ mutex = None
    /\ published /\ Responds
    /\ policy' = Observe(TRUE)
    /\ thread' = [thread EXCEPT !["recovery"].at = "dirty"]
    /\ UNCHANGED <<tickVars, observed, stable>>

TickUnhealthy ==
    /\ At("recovery", "idle") /\ ~shutting /\ identity # None /\ mutex = None
    /\ ~(published /\ Responds)
    /\ stable' = 0
    /\ LET seen == Observe(FALSE)
       IN IF seen.retry_in > 0
          THEN policy' = seen /\ UNCHANGED thread
          ELSE /\ policy' = RecordAttempt(seen)
               /\ thread' = [thread EXCEPT !["recovery"].at = "restart"]
    /\ UNCHANGED <<tickVars, observed>>

\* A generation seen twice, unsaved, for two ticks is checkpointed for the
\* identity of now.
TickDirty ==
    /\ At("recovery", "dirty") /\ mutex = None
    /\ IF ~(published /\ Running) \/ (helper.dirty = saved /\ helper.dirty = observed)
       THEN stable' = 0 /\ UNCHANGED observed /\ BecomesIdle("recovery")
       ELSE IF helper.dirty # observed
            THEN observed' = helper.dirty /\ stable' = 0 /\ BecomesIdle("recovery")
            ELSE /\ UNCHANGED observed
                 /\ stable' = 1 - stable
                 /\ IF stable = 1 /\ identity # None
                    THEN Captures("recovery", "idle", None) ELSE BecomesIdle("recovery")
    /\ UNCHANGED <<tickVars, policy>>

Next ==
    \/ Helper
    \/ \E t \in Threads : Procedures(t)
    \/ \E p \in Plugins \cup {None} : Update(p)
    \/ Switch \/ Save \/ Destroy \/ RequestStop \/ Join
    \/ RecoveryStarts \/ RecoveryEnds
    \/ TickWithoutPath \/ TickHealthy \/ TickUnhealthy \/ TickDirty

\* The threads of OBS run, and the helper may do as it likes.  The thread that
\* OBS calls the filter on gets the mutex in the end, for the recovery thread
\* sleeps a second between two holds of it.
Fairness ==
    /\ SF_vars(Procedures("obs")) /\ WF_vars(Switch \/ RequestStop \/ Join)
    /\ WF_vars(Procedures("recovery") \/ RecoveryStarts \/ RecoveryEnds
               \/ TickHealthy \/ TickUnhealthy \/ TickDirty)

Spec == Init /\ [][Next]_vars /\ Fairness

-----------------------------------------------------------------------------
(***************************************************************************)
(* Properties                                                               *)
(***************************************************************************)
\* What a restart would give the plug-in p, were its helper to die now.
Restorable(p) ==
    IF file[p] = None THEN [of |-> p, edit |-> 0] ELSE file[p]

\* When the filter believes the state saved (saved_state_generation is the
\* dirty generation of the helper, so no checkpoint will be taken), a crash
\* loses nothing: the restart finds the state the plug-in has, and finds that
\* of the same plug-in.  The bridge that is checked is that of the selection.
SavedMeansRestorable ==
    /\ published /\ Running /\ saved = helper.dirty /\ ~loose
         => Restorable(helper.id) = [of |-> helper.id, edit |-> helper.state]
    /\ published /\ mutex = None /\ At("obs", "idle") => helper.id = identity

\* A filter with a plug-in selected ends up with a helper that answers, for
\* the plug-in selected, once helpers stop failing.
Served == shutting \/ identity = None \/ (published /\ Responds /\ helper.id = identity)
Recovers == <>[]Served

-----------------------------------------------------------------------------
(***************************************************************************)
(* The inductive invariant of what counts as saved                          *)
(***************************************************************************)
Restarting == {"start", "load", "restoring", "finish"}
Holding == {"asking"} \cup Restarting

(* restart_mutex is held where the code holds it, and the recovery thread    *)
(* may be stopped only after the last call of OBS.                          *)
MutexInv ==
    /\ \A t \in Threads : mutex = t <=> thread[t].at \in Holding
    /\ shutting => thread["obs"].at \in {"join", "gone"}

(* The files are those of the plug-ins they are filed under, and the bridge  *)
(* is that of the selection, unless OBS is about to replace it.             *)
Selected(p) == p = identity \/ At("obs", "restart")
BridgeInv ==
    /\ \A p \in Plugins : file[p] # None => file[p].of = p
    /\ published => Selected(helper.id) /\ helper.id \in Plugins
    /\ \A t \in Threads : thread[t].at \in Holding \cup {"capture"} => thread[t].id \in Plugins
    /\ \A t \in Threads : thread[t].at \in Restarting => ~published /\ Selected(thread[t].id)
    /\ \A t \in Threads : At(t, "asking") => published
    /\ \A t \in Threads : thread[t].at \in Holding \ {"start"} => helper.id = thread[t].id

(* A request in service has not been answered; a restore is under way only   *)
(* in a restart, and nothing is when a restart ends.                        *)
Quiet == helper.command = "none" /\ helper.serving = "idle" /\ ~helper.pending
MailboxInv ==
    /\ helper.serving # "idle" => helper.pending
    /\ published => helper.command # "restore" /\ helper.serving # "restore"
    /\ \A t \in Threads :
          /\ At(t, "start") => helper = NoHelper
          /\ At(t, "load") \/ At(t, "finish") => Quiet
          /\ At(t, "restoring") =>
                /\ helper.pending \/ Quiet
                /\ helper.serving = "idle" /\ helper.pending => helper.command = "restore"
                /\ helper.serving # "idle" => helper.serving = "restore" /\ helper.latest

(* Each edit and the fallback make the state dirty once.                    *)
DirtyInv ==
    /\ helper.dirty <= edits + 1
    /\ helper.fallback => helper.dirty <= edits
    /\ \A t \in Threads : At(t, "load") => helper.dirty <= edits /\ ~helper.fallback
    /\ published => saved <= helper.dirty
    /\ \A t \in Threads : At(t, "asking") => thread[t].dirty <= helper.dirty

(* What a restart has to do with the file at each step, if no edit comes too *)
(* early and the file it gives up can be deleted.                           *)
RestartInv ==
    \A t \in Threads :
        /\ At(t, "idle") \/ At(t, "restart") => thread[t].first
        /\ At(t, "start") /\ ~thread[t].first /\ ~thread[t].kept => file[thread[t].id] = None
        /\ At(t, "load") /\ ~helper.early => helper.state = 0
        /\ At(t, "restoring") =>
              /\ file[thread[t].id] # None
              /\ helper.pending => helper.payload = file[thread[t].id].edit
              /\ Accepted /\ ~helper.early => helper.state = file[thread[t].id].edit
        /\ At(t, "finish") /\ helper.alive /\ ~helper.early /\ ~thread[t].kept =>
              Restorable(helper.id).edit = helper.state

(* An answer to a capture holds what the plug-in had when it was asked, or   *)
(* the plug-in is dirty again; and so does the file that counts as saved.   *)
CheckpointInv ==
    /\ \A t \in Threads :
          At(t, "asking") /\ Accepted /\ thread[t].dirty = helper.dirty => helper.payload = helper.state
    /\ published /\ Running /\ saved = helper.dirty /\ ~loose => Restorable(helper.id).edit = helper.state

RecoveryInv ==
    /\ TypeOK
    /\ MutexInv
    /\ BridgeInv
    /\ MailboxInv
    /\ DirtyInv
    /\ RestartInv
    /\ CheckpointInv
=============================================================================
