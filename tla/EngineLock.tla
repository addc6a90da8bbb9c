----------------------------- MODULE EngineLock -----------------------------
(***************************************************************************)
(* What host/main.cpp promises about the VST3 engine: the DSP worker and the *)
(* control thread take turns.  The engine has no lock; HostAudio shows that  *)
(* the transition tokens of DspWorker implement this one.                    *)
(***************************************************************************)

VARIABLE owner

Init == owner = "none"

Acquire(thread) == owner = "none" /\ owner' = thread

Release == owner # "none" /\ owner' = "none"

Next ==
    \/ \E thread \in {"dsp", "control"} : Acquire(thread)
    \/ Release

Spec == Init /\ [][Next]_owner
=============================================================================
