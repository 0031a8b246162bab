------------------------- MODULE MCInteractiveDemo -------------------------
(***************************************************************************)
(* Pages of one server.  Responses: one that yields a diagnosis and one    *)
(* that does not.                                                          *)
(***************************************************************************)
EXTENDS InteractiveDemo

CONSTANTS s1, good, bad

MCOrigin == [p \in Pages |-> s1]
MCParseStatusOf ==
    [r \in Responses |-> IF r = good THEN "parsed" ELSE "semantic_invalid"]
============================================================================
