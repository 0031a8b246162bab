------------------------- MODULE ResponseClassifier -------------------------
(***************************************************************************)
(* classifyResponse of the importer: which of the parse statuses a         *)
(* response gets.  A response is a document: blank, text that is not JSON, *)
(* a JSON value that is no object, or an object with keys and values.      *)
(***************************************************************************)
EXTENDS Naturals, FiniteSets

CONSTANTS
    Stages, Categories,         \* taxonomy::isStage, taxonomy::isCategory
    ImplementationStage,        \* "implementation_consistency"
    MismatchCategory            \* "implementation_mismatch"

ASSUME TaxonomyAssumption ==
    /\ IsFiniteSet(Stages) /\ IsFiniteSet(Categories)
    /\ ImplementationStage \in Stages
    /\ MismatchCategory \in Categories

Null == "null"      \* JSON null
Bad == "bad"        \* a value of a type or an enum the schema does not allow

ASSUME NullAssumption == {Null, Bad} \cap (Stages \cup Categories) = {}

Keys == {"trace_id", "status", "primary_category", "findings", "confidence",
         "confidence_method", "calibration_version"}
DiagnosisStatuses == {"correct", "incorrect", "undetermined"}

(* keys: the keys of the finding are the five that are required, and       *)
(* locating, evidence and suggestion are strings.                          *)
Finding == [stage: Stages \cup {Bad}, category: Categories \cup {Bad}, keys: BOOLEAN]

(* extra: there are other keys; trace: the id is the one asked for;        *)
(* array: findings is an array; nulls: the confidence fields are null.     *)
Document == [form: {"blank", "text", "value", "object"}, keys: SUBSET Keys,
             extra: BOOLEAN, trace: BOOLEAN, status: DiagnosisStatuses \cup {Bad},
             primary: Categories \cup {Null, Bad}, array: BOOLEAN,
             findings: SUBSET Finding, nulls: BOOLEAN]

----------------------------------------------------------------------------
FindingSchemaOk(f) ==
    /\ f.keys
    /\ f.stage \in Stages
    /\ f.category \in Categories

SchemaOk(d) ==
    /\ d.keys = Keys /\ ~d.extra
    /\ d.status \in DiagnosisStatuses
    /\ d.primary \in Categories \cup {Null}
    /\ d.array /\ \A f \in d.findings : FindingSchemaOk(f)
    /\ d.nulls

FindingSemanticsOk(f, hasCandidateSolution) ==
    f.stage = ImplementationStage =>
        hasCandidateSolution /\ f.category = MismatchCategory

CategorySet(findings) == {f.category : f \in findings}

(* Mutant: an incorrect diagnosis need not name the category of a finding. *)
StatusSemanticsNoPrimary(d) ==
    IF d.status = "incorrect" THEN d.primary # Null /\ d.findings # {}
    ELSE d.primary = Null /\ d.findings = {}

StatusSemanticsOk(d) ==
    IF d.status = "incorrect"
    THEN d.primary # Null /\ d.primary \in CategorySet(d.findings) /\ d.findings # {}
    ELSE d.primary = Null /\ d.findings = {}

SemanticsOk(d, hasCandidateSolution) ==
    /\ \A f \in d.findings : FindingSemanticsOk(f, hasCandidateSolution)
    /\ StatusSemanticsOk(d)

ClassifyResponse(d, hasCandidateSolution) ==
    CASE d.form = "blank" -> "empty_response"
      [] d.form = "text"  -> "invalid_json"
      [] d.form = "value" -> "schema_invalid"
      [] d.form = "object" ->
            IF ~SchemaOk(d) \/ ~d.trace THEN "schema_invalid"
            ELSE IF ~SemanticsOk(d, hasCandidateSolution) THEN "semantic_invalid"
            ELSE "parsed"

ParseStatuses == {"model_call_not_attempted", "empty_response", "invalid_json",
                  "schema_invalid", "semantic_invalid", "parsed"}
============================================================================
