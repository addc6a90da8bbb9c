---------------------------- MODULE AtomicChain ----------------------------
(***************************************************************************)
(* What the Rack promises about a block: it is processed by one committed   *)
(* chain as a whole, whatever is edited meanwhile, and no plug-in of that    *)
(* chain is closed before the block is through.  RackChain shows that the   *)
(* two generations of rack/main.cpp with their reader counts implement it.  *)
(***************************************************************************)
EXTENDS Naturals

CONSTANTS Plugins, Idle, Stopped

VARIABLES
    committed,  \* the chain a new block gets: [number, plugins]
    processing, \* the chain of the block at hand, Idle, or Stopped for good
    opened      \* the plug-ins that exist

Init ==
    /\ committed = [number |-> 1, plugins |-> {}]
    /\ processing = Idle
    /\ opened = {}

Open ==
    /\ opened \subseteq opened' /\ opened' \subseteq Plugins
    /\ UNCHANGED <<committed, processing>>

(* Plug-ins in use are not closed. *)
InUse ==
    IF processing = Stopped THEN {}
    ELSE committed.plugins \cup (IF processing = Idle THEN {} ELSE processing.plugins)

Close ==
    /\ opened' \subseteq opened
    /\ InUse \subseteq opened'
    /\ UNCHANGED <<committed, processing>>

(* Numbers never go back. *)
Commit ==
    /\ committed'.number >= committed.number
    /\ committed'.plugins \subseteq opened
    /\ UNCHANGED <<processing, opened>>

BeginBlock ==
    /\ processing = Idle
    /\ processing' = committed
    /\ UNCHANGED <<committed, opened>>

EndBlock ==
    /\ processing \notin {Idle, Stopped}
    /\ processing' = Idle
    /\ UNCHANGED <<committed, opened>>

Stop ==
    /\ processing = Idle
    /\ processing' = Stopped
    /\ UNCHANGED <<committed, opened>>

Next == Open \/ Close \/ Commit \/ BeginBlock \/ EndBlock \/ Stop

Spec == Init /\ [][Next]_<<committed, processing, opened>>
=============================================================================
