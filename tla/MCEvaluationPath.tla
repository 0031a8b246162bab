-------------------------- MODULE MCEvaluationPath --------------------------
(***************************************************************************)
(* Two traces, one of them with a candidate solution.  Documents: every    *)
(* object with up to two findings, well formed or with one fault, and the  *)
(* contents that are no object.  Gold: each status, with one or two        *)
(* findings of which predictions can name some.                            *)
(***************************************************************************)
EXTENDS EvaluationPath

MCTraceIds == <<"t1", "t2">>
MCStages == {"model", "implementation_consistency"}
MCCategories == {"missing_proof", "implementation_mismatch"}

WellFormed == [stage: MCStages, category: MCCategories, keys: {TRUE}]

SmallSets(S) == {{}} \cup {{x} : x \in S} \cup {{x, y} : x, y \in S}

Objects == [form: {"object"}, keys: {Keys}, extra: {FALSE}, trace: {TRUE},
            status: DiagnosisStatuses, primary: MCCategories \cup {Null}, array: {TRUE},
            findings: SmallSets(WellFormed), nulls: {TRUE}]

(* A correct diagnosis with one fault.                                     *)
Correct == CHOOSE d \in Objects : d.status = "correct" /\ d.primary = Null /\ d.findings = {}
Faulty ==
    {[Correct EXCEPT !.keys = @ \ {"confidence"}], [Correct EXCEPT !.extra = TRUE],
     [Correct EXCEPT !.trace = FALSE], [Correct EXCEPT !.status = Bad],
     [Correct EXCEPT !.primary = Bad], [Correct EXCEPT !.array = FALSE],
     [Correct EXCEPT !.nulls = FALSE],
     [Correct EXCEPT !.findings = {[stage |-> Bad, category |-> "missing_proof", keys |-> TRUE]}],
     [Correct EXCEPT !.findings = {[stage |-> "model", category |-> Bad, keys |-> TRUE]}]}

MCDocuments ==
    Objects \cup Faulty \cup {[Correct EXCEPT !.form = f] : f \in {"blank", "text", "value"}}

Of(s, c) == [stage |-> s, category |-> c, keys |-> TRUE]

MCGoldDiagnoses ==
    {Diagnosis("correct", Null, {}), Diagnosis("undetermined", Null, {}),
     Diagnosis("incorrect", "missing_proof", {Of("model", "missing_proof")}),
     Diagnosis("incorrect", "missing_proof",
               {Of("model", "missing_proof"),
                Of("implementation_consistency", "implementation_mismatch")}),
     Diagnosis("incorrect", "implementation_mismatch",
               {Of("model", "implementation_mismatch"),
                Of("implementation_consistency", "implementation_mismatch")})}

MCHasCandidate == {"t2"}
============================================================================
