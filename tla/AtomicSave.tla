---------------------------- MODULE AtomicSave ----------------------------
(***************************************************************************)
(* What a saved file promises its owner: a load gives nothing, or one whole  *)
(* saved value; a save that is under way either replaces it in one step or   *)
(* is withdrawn without a trace.                                            *)
(***************************************************************************)
CONSTANTS
    Values,
    Nothing   \* what a load gives before the first save

VARIABLES
    saved,    \* what a load gives
    offered   \* the value being saved, if any, as a set

Init ==
    /\ saved = Nothing
    /\ offered = {}

Offer ==
    /\ offered = {}
    /\ \E v \in Values : offered' = {v}
    /\ saved' = saved

Commit ==
    /\ saved' \in offered
    /\ offered' = {}

Withdraw ==
    /\ offered # {}
    /\ offered' = {}
    /\ saved' = saved

Next == Offer \/ Commit \/ Withdraw

Spec == Init /\ [][Next]_<<saved, offered>>
=============================================================================
