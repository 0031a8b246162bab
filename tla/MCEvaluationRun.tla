-------------------------- MODULE MCEvaluationRun --------------------------
(***************************************************************************)
(* Values of the constants of EvaluationRun for TLC, and a bound on the    *)
(* commands that race.                                                     *)
(***************************************************************************)
EXTENDS EvaluationRun, TLC

CONSTANT MaxRacing      \* how many commands may run where they do not take turns

(* Every response that is not empty parses.  Which of the five statuses it *)
(* gets makes no difference to the files.                                  *)
MCParseStatusOf == [b \in Bytes |-> IF b = Empty THEN "empty_response" ELSE "parsed"]

Symmetry == Permutations(Commands)

Begun == {p \in Commands : pc[p] # "unborn"}
BoundedSpec == Init /\ [][Next /\ (inTurns \/ Cardinality(Begun') <= MaxRacing)]_vars
============================================================================
