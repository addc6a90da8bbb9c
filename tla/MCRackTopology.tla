--------------------------- MODULE MCRackTopology ---------------------------
EXTENDS RackTopology

Saved(id, plug, bypass, health) == [id |-> id, plug |-> plug, bypass |-> bypass, health |-> health]
NoPresets == [p \in Presets |-> None]
Stored(name, slots) == [name |-> name, slots |-> slots]

OneOf(p, preset) == [q \in Presets |-> IF q = p THEN preset ELSE None]

(* Edits of a restored Rack, one slot of which is a placeholder for sure.    *)
Edits == [session |-> [generation |-> 3, slots |-> <<Saved(1, "eq", FALSE, "ready"), Saved(2, "gate", TRUE, "quarantined")>>],
          installed |-> {"eq"}, library |-> NoPresets,
          clicks |-> {"Add", "Replace", "Remove", "Move", "Bypass", "OpenEditor"}]

(* A first session, and a catalog that changes while it is used.             *)
Catalogs == [session |-> [generation |-> 1, slots |-> <<Saved(1, "eq", FALSE, "ready")>>],
             installed |-> {"eq"}, library |-> NoPresets,
             clicks |-> {"Add", "Replace", "Refresh"}]

(* Presets that reuse the identities of the slots on display.                *)
Library == [session |-> None, installed |-> {"eq"},
            library |-> OneOf("p1", Stored("voice", <<Saved(2, "gate", FALSE, "ready"), Saved(1, "eq", TRUE, "missing")>>)),
            clicks |-> {"Add", "Load", "SaveAs", "Rename", "Delete", "Update", "Remove", "OpenEditor", "Bypass"}]

(* An identity that the first added plug-in leaves to the second: that of the *)
(* placeholder.                                                             *)
Gap == [session |-> [generation |-> 5, slots |-> <<Saved(2, "gate", FALSE, "quarantined")>>],
        installed |-> {"eq"}, library |-> NoPresets, clicks |-> {"Add", "Move", "SaveAs", "Remove", "Bypass"}]

MCSetups == {Edits, Catalogs, Library, Gap}

(* A session from which the second of three slots was removed.               *)
MCGapSetups == {[session |-> [generation |-> 5, slots |-> <<Saved(1, "eq", FALSE, "ready"), Saved(3, "gate", FALSE, "ready")>>],
                 installed |-> {"eq"}, library |-> NoPresets, clicks |-> {"Add"}]}
=============================================================================
