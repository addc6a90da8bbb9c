---------------------------- MODULE MCRackFiles ----------------------------
(* RackFiles on two small instances at once: a helper with its session and a *)
(* preset, and two helpers that share a preset.                             *)
EXTENDS RackFiles

CONSTANTS h1, h2

MCSetups ==
    {[helpers |-> {h1}, owner |-> h1, edits |-> 2],
     [helpers |-> {h1, h2}, owner |-> Nobody, edits |-> 1]}
=============================================================================
