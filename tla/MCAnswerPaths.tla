--------------------------- MODULE MCAnswerPaths ---------------------------
(***************************************************************************)
(* The two ways an answer of the model takes: through the client into the  *)
(* wrapper that the report of a run counts (EvaluationPath), and through   *)
(* the demo's server onto a page (InteractiveDemo).  They share nothing; a *)
(* behaviour takes one of them.                                            *)
(***************************************************************************)
EXTENDS MCEvaluationPath, MCInteractiveDemo

VARIABLE way            \* which of the two

OnePage == CHOOSE g \in [Exchanges -> Pages] : TRUE
OneNaming == CHOOSE n \in [Exchanges -> Ids] : \A x, y \in Exchanges : n[x] = n[y] => x = y

(* Of the one that is not taken, one initial state is enough.              *)
AnswerInit ==
    /\ PathInit /\ DemoInit
    /\ \/ way = "report" /\ page = OnePage /\ id = OneNaming
       \/ way = "page" /\ platform = "libcurl"

AnswerNext ==
    /\ \/ way = "report" /\ PathNext /\ UNCHANGED demoVars
       \/ way = "page" /\ DemoNext /\ UNCHANGED pathVars
    /\ UNCHANGED way

(* Fair as DemoFairSpec is.                                                *)
AnswerSpec ==
    /\ AnswerInit /\ [][AnswerNext]_<<pathVars, demoVars, way>>
    /\ \A x \in Exchanges : WF_demoVars(ServerStep(x))
============================================================================
