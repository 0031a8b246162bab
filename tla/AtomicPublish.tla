--------------------------- MODULE AtomicPublish ---------------------------
(***************************************************************************)
(* What export-prompts promises about a run directory: several publishers  *)
(* may prepare one, at most one succeeds, in one step and with all of it,  *)
(* and nobody changes or removes what is there.                            *)
(***************************************************************************)
CONSTANTS
    Publishers,
    Nothing         \* no run directory

VARIABLES
    published,      \* the run directory, or Nothing
    publisher       \* who may still publish, has published, or never will

vars == <<published, publisher>>

Init ==
    /\ published = Nothing
    /\ publisher = [p \in Publishers |-> "preparing"]

Publish(p) ==
    /\ publisher[p] = "preparing" /\ published = Nothing
    /\ published' # Nothing
    /\ publisher' = [publisher EXCEPT ![p] = "published"]

GiveUp(p) ==
    /\ publisher[p] = "preparing"
    /\ publisher' = [publisher EXCEPT ![p] = "gave up"]
    /\ UNCHANGED published

Next == \E p \in Publishers : Publish(p) \/ GiveUp(p)

Spec == Init /\ [][Next]_vars
=============================================================================
