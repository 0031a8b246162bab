----------------------------- MODULE MCCampaign -----------------------------
(***************************************************************************)
(* Small campaigns: a development attempt reserves 3 and a formal one 2 of *)
(* 5 tokens, and a request costs 1 or 3, more than the latter, so          *)
(* that the token and call limits, unknown bills and bills above the       *)
(* reservation all occur.                                                  *)
(***************************************************************************)
EXTENDS Campaign, TLC

CONSTANTS p1, p2, p3, d1, d2, v1, f1, f2

MCKind ==
    [a \in Attempts |-> CASE a \in {d1, d2} -> "call"
                          [] a = v1 -> "call-v2"
                          [] OTHER -> "formal-call"]

MCUpperOf == [a \in Attempts |-> IF a \in {f1, f2} THEN 2 ELSE 3]

MCCosts == {1, 3}

Symmetry == Permutations(Processes)
=============================================================================
