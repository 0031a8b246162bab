-------------------------- MODULE DatasetValidator --------------------------
(***************************************************************************)
(* validateDataset: phase 1 reads the problem files in the order of their  *)
(* names into an index, phase 2 resolves what refers to other records, and *)
(* the counts of the manifest are compared last.  A diagnostic is          *)
(* <<code, file, object id>>; its message is left out, and two equal ones  *)
(* are one.                                                                *)
(***************************************************************************)
EXTENDS JsonDocument, FiniteSetsExt, SequencesExt

CONSTANTS
    Datasets,       \* contents of data directories: [directory, manifest, files]
    FileOrder,      \* the stems of problem files <stem>.json, as std::sort has them
    Stages,         \* kStages
    ImplementationStage,
    Categories,     \* kCategories
    IntRange        \* 2^w for the width w of int

ASSUME DatasetAssumption ==
    /\ IntRange \in Nat \ {0}
    /\ ImplementationStage \in Stages
    /\ IsSequence(FileOrder) /\ "" \notin ToSet(FileOrder)
    /\ \A d \in Datasets : DOMAIN d.files \subseteq ToSet(FileOrder)

(* What CheckDirectory and loadJsonFile can find.                          *)
ASSUME LoadedAssumption ==
    \A d \in Datasets :
       /\ d.directory \in {"", "E_DATA_DIR_NOT_FOUND", "E_MANIFEST_NOT_FOUND"}
       /\ \A doc \in {d.manifest} \cup {d.files[f] : f \in DOMAIN d.files} :
             IF IsLoaded(doc)
             THEN \A key \in {"problem_ids", "reasoning_traces", "candidate_solutions",
                              "test_cases", "diagnoses"} : IsSequence(ItemsOf(doc.loaded, key))
             ELSE doc.error \in {"E_FILE_READ", "E_JSON_PARSE"}
       /\ IsLoaded(d.manifest) =>
             \A o \in {d.manifest.loaded} \cup Parts(d.manifest.loaded) : IsObject(o) =>
                \A k \in DOMAIN o.object :
                   HasType(o, k, {"integer"}) => o.object[k].integer \in Int

VARIABLES
    data,           \* the data directory the commands are given
    vpc,            \* validate: the next step
    filesRead,      \* the problem files that phase 1 has read
    index,          \* the accumulators
    diags,          \* the diagnostics so far
    verdict         \* the exit status

validatorVars == <<data, vpc, filesRead, index, diags, verdict>>

Statuses == {"correct", "incorrect", "undetermined"}
TestOrigins == {"official_sample", "manually_designed", "counterexample", "generated"}
TestPurposes == {"normal", "boundary", "complexity", "counterexample"}
Verdicts == {"not_run", "pass", "fail", "compile_error", "runtime_error", "timeout"}
ReviewStatuses == {"pending_planner_review", "planner_reviewed"}

----------------------------------------------------------------------------
(* What an object of each kind must have: required keys and their types,   *)
(* optional strings, arrays of strings, and the values a string is limited *)
(* to.                                                                     *)
Fields(keys, types) == keys \X {types}
Strings(keys) == Fields(keys, {"string"})
NullableStrings(keys) == Fields(keys, {"string", "null"})
Numbers(keys) == Fields(keys, {"integer", "real", "null"})
Arrays(keys) == Fields(keys, {"array"})
Objects(keys) == Fields(keys, {"object"})
Schema(required, optional, lists, enums) ==
    [required |-> required, optional |-> optional, lists |-> lists, enums |-> enums]

FileSchema ==
    Schema(Objects({"meta", "problem", "reference_verdict"})
           \cup Arrays({"test_cases", "reasoning_traces", "candidate_solutions", "diagnoses",
                        "verification_results"}), {}, {}, <<>>)

VersionKeys == {"schema_version", "taxonomy_version", "dataset_version"}
MetaSchema ==
    Schema(Strings(VersionKeys \cup {"source_reference", "created_at"}), {}, {}, <<>>)

(* An empty source is let through.                                         *)
ProblemSchema ==
    Schema(Strings({"id", "source", "title", "statement", "algorithm_type"})
           \cup Objects({"constraints"}) \cup Arrays({"reference_tags"}),
           {"notes"}, {"reference_tags"},
           [algorithm_type |-> {"greedy"}, source |-> {"", "codeforces"}])

VerdictSchema ==
    Schema(Strings({"problem_id", "expected_choice", "expected_proof", "expected_complexity",
                    "common_wrong_strategy_counterexample"})
           \cup Arrays({"expected_boundaries"}), {}, {"expected_boundaries"}, <<>>)

TraceSchema ==
    Schema(Strings({"problem_id", "trace_origin", "generator_model", "annotator", "author",
                    "review_status"})
           \cup NullableStrings({"reviewer", "reviewed_at"}) \cup Arrays({"steps"}),
           {"intended_outcome"}, {},
           [trace_origin |-> {"model_generated"}, generator_model |-> {"hy3"},
            annotator |-> {"hy3_draft"}, review_status |-> ReviewStatuses])

StepSchema ==
    Schema(Strings({"stage", "text"}) \cup Arrays({"relies_on"}),
           {}, {"relies_on"}, [stage |-> Stages])

SolutionSchema ==
    Schema(Strings({"trace_id", "language", "standard", "source_code", "execution_status"}),
           {}, {},
           [language |-> {"cpp"}, standard |-> {"c++17"}, execution_status |-> {"not_run"}])

TestSchema ==
    Schema(Strings({"problem_id", "input", "expected_output", "origin", "purpose"}),
           {"notes"}, {}, [origin |-> TestOrigins, purpose |-> TestPurposes])

VerificationSchema ==
    Schema(Strings({"solution_id", "test_id", "verdict"})
           \cup NullableStrings({"actual_output"}) \cup Numbers({"runtime_ms"}),
           {"finding_ref"}, {}, [verdict |-> Verdicts])

ConfidenceKeys == {"confidence", "confidence_method", "calibration_version"}
DiagnosisSchema ==
    Schema(Strings({"trace_id", "status"})
           \cup NullableStrings({"primary_category", "confidence_method", "calibration_version"})
           \cup Numbers({"confidence"}) \cup Arrays({"findings"}),
           {}, {}, [status |-> Statuses])

FindingSchema ==
    Schema(Strings({"stage", "category", "locating", "evidence", "suggestion"}), {}, {},
           [stage |-> Stages, category |-> Categories])

(* reviewer and reviewed_at of the manifest are only looked for; nothing   *)
(* checks their types.                                                     *)
ManifestSchema ==
    Schema(Strings(VersionKeys \cup {"review_status"})
           \cup Fields({"problem_count", "trace_count"}, {"integer"})
           \cup Objects({"category_counts", "status_counts", "test_origin_counts"})
           \cup Arrays({"problem_ids"}), {}, {"problem_ids"},
           [review_status |-> ReviewStatuses])
ManifestKeys == {r[1] : r \in ManifestSchema.required} \cup {"reviewer", "reviewed_at"}

----------------------------------------------------------------------------
(* The extractors, as the codes they emit.                                 *)
When(condition, code) == IF condition THEN {code} ELSE {}

Required(o, fields) ==
    UNION {CASE ~Has(o, r[1]) -> {"E_MISSING_KEY"}
             [] HasType(o, r[1], r[2]) -> {}
             [] OTHER -> {"E_TYPE_MISMATCH"} : r \in fields}
Optional(o, keys) ==
    When(\E k \in keys : Has(o, k) /\ ~HasType(o, k, {"string"}), "E_TYPE_MISMATCH")
StringLists(o, keys) ==
    When(\E k \in keys : \E v \in ToSet(ItemsOf(o, k)) : DOMAIN v # {"string"},
         "E_TYPE_MISMATCH")
Limited(o, enums) ==
    When(\E k \in DOMAIN enums : HasType(o, k, {"string"}) /\ TextOf(o, k) \notin enums[k],
         "E_INVALID_ENUM")

Check(o, schema) ==
    Required(o, schema.required) \cup Optional(o, schema.optional)
    \cup StringLists(o, schema.lists) \cup Limited(o, schema.enums)

At(codes, file, id) == {<<c, file, id>> : c \in codes}

(* An entry without a string id is reported, and skipped from then on.     *)
HasId(e) == IsObject(e) /\ HasType(e, "id", {"string"})
Entries(doc, key) == {i \in DOMAIN ItemsOf(doc, key) : HasId(ItemsOf(doc, key)[i])}
Unidentified(doc, key) ==
    UNION {IF IsObject(e) THEN Required(e, Strings({"id"})) ELSE {"E_TYPE_MISMATCH"} :
           e \in ToSet(ItemsOf(doc, key))}

(* A section that is no object is reported once, by FileSchema.            *)
Section(doc, key) ==
    IF HasType(doc, key, {"object"}) THEN Get(doc, key) ELSE Object(<<>>)
HasSection(doc, key) == HasType(doc, key, {"object"})
ObjectsOf(o, key) == {e \in ToSet(ItemsOf(o, key)) : IsObject(e)}
NonObjects(o, key) ==
    When(\E e \in ToSet(ItemsOf(o, key)) : ~IsObject(e), "E_TYPE_MISMATCH")

(* Reference of a record to the problem of its file.                       *)
Elsewhere(o, problemId) ==
    HasType(o, "problem_id", {"string"}) /\ problemId # "" /\ TextOf(o, "problem_id") # problemId

----------------------------------------------------------------------------
(* Phase 1: the codes of one record ...                                    *)
MetaCodes(meta, manifest) ==
    Check(meta, MetaSchema)
    \cup When(\E k \in VersionKeys : /\ HasType(meta, k, {"string"})
                                     /\ TextOf(manifest, k) \notin {"", TextOf(meta, k)},
              "E_VERSION_MISMATCH")

ProblemCodes(problem, stem, known) ==
    Check(problem, ProblemSchema)
    \cup IF HasType(problem, "id", {"string"})
         THEN When(TextOf(problem, "id") \in known, "E_DUPLICATE_ID")
              \cup When(TextOf(problem, "id") # stem, "E_PROBLEM_ID_FILE_MISMATCH")
         ELSE {}

VerdictCodes(rv, problemId) ==
    Check(rv, VerdictSchema)
    \cup When(TextOf(rv, "problem_id") # "" /\ Elsewhere(rv, problemId), "E_BAD_PROBLEM_FK")

(* null and the empty string are one to the review rules.                  *)
ReviewCodes(o) ==
    LET signed == {k \in {"reviewer", "reviewed_at"} : TextOf(o, k) # ""}
    IN  When(\/ TextOf(o, "review_status") = "planner_reviewed" /\ Cardinality(signed) < 2
             \/ TextOf(o, "review_status") = "pending_planner_review" /\ signed # {},
             "E_REVIEW_STATUS_SEMANTIC")

TraceCodes(t, problemId) ==
    Check(t, TraceSchema) \cup ReviewCodes(t) \cup NonObjects(t, "steps")
    \cup When(Elsewhere(t, problemId), "E_BAD_PROBLEM_FK")
    \cup UNION {Check(s, StepSchema)
                \cup When(HasType(s, "text", {"string"}) /\ TextOf(s, "text") = "",
                          "E_TYPE_MISMATCH") : s \in ObjectsOf(t, "steps")}

SolutionCodes(sol, problemId) == Check(sol, SolutionSchema)

TestCodes(tc, problemId) ==
    Check(tc, TestSchema)
    \cup When(Elsewhere(tc, problemId), "E_BAD_TEST_FK")
    \cup When(HasType(tc, "input", {"string"}) /\ TextOf(tc, "input") = "", "E_TYPE_MISMATCH")

VerificationCodes(doc) ==
    When(ItemsOf(doc, "verification_results") # <<>>, "E_UNEXPECTED_VERIFICATION_RESULT")
    \cup UNION {Check(vr, VerificationSchema) : vr \in ObjectsOf(doc, "verification_results")}

DiagnosisCodes(dg, problemId) ==
    Check(dg, DiagnosisSchema) \cup NonObjects(dg, "findings")
    \cup When(\E k \in ConfidenceKeys : Has(dg, k) /\ ~HasType(dg, k, {"null"}),
              "E_UNCALIBRATED_CONFIDENCE")
    \cup UNION {Check(f, FindingSchema) : f \in ObjectsOf(dg, "findings")}

(* ... and what the index keeps of it.                                     *)
TraceRec(t, stem) ==
    [id |-> TextOf(t, "id"), file |-> stem,
     hasImplStep |-> \E s \in ObjectsOf(t, "steps") : TextOf(s, "stage") = ImplementationStage,
     reviewStatus |-> IF HasType(t, "review_status", {"string"})
                      THEN {TextOf(t, "review_status")} ELSE {}]
SolRec(sol, stem) == [id |-> TextOf(sol, "id"), file |-> stem, trace |-> TextOf(sol, "trace_id")]
TestRec(tc, stem) == [id |-> TextOf(tc, "id"), file |-> stem, origin |-> TextOf(tc, "origin")]
VerifRec(vr, stem) ==
    [file |-> stem, solution |-> TextOf(vr, "solution_id"), test |-> TextOf(vr, "test_id")]
DiagRec(dg, stem) ==
    LET named == {TextOf(f, "category") : f \in ObjectsOf(dg, "findings")}
    IN  [id |-> TextOf(dg, "id"), file |-> stem, trace |-> TextOf(dg, "trace_id"),
         status |-> TextOf(dg, "status"), primary |-> TextOf(dg, "primary_category"),
         cats |-> named \cap Categories,
         findingsOk |-> HasType(dg, "findings", {"array"}),
         primaryInFindings |-> TextOf(dg, "primary_category") \in named]

(* Records are kept by the place they come from, <<stem, index>>.          *)
NoIndex == [problems |-> {}, traceCount |-> 0, traces |-> <<>>, solutions |-> <<>>,
            tests |-> <<>>, diagnoses |-> <<>>, verifications |-> <<>>]

Ids(records) == {r.id : r \in ToSet(records)}

Extended(doc, stem) ==
    LET Add(old, key, places, Rec(_, _)) ==
            [p \in DOMAIN old \cup ({stem} \X places) |->
                IF p \in DOMAIN old THEN old[p] ELSE Rec(ItemsOf(doc, key)[p[2]], stem)]
        AddEntries(old, key, Rec(_, _)) == Add(old, key, Entries(doc, key), Rec)
        results == ItemsOf(doc, "verification_results")
        problem == Section(doc, "problem")
    IN  [problems |-> index.problems \cup
             (IF HasType(problem, "id", {"string"}) THEN {TextOf(problem, "id")} ELSE {}),
         traceCount |-> index.traceCount + Len(ItemsOf(doc, "reasoning_traces")),
         traces |-> AddEntries(index.traces, "reasoning_traces", TraceRec),
         solutions |-> AddEntries(index.solutions, "candidate_solutions", SolRec),
         tests |-> AddEntries(index.tests, "test_cases", TestRec),
         diagnoses |-> AddEntries(index.diagnoses, "diagnoses", DiagRec),
         verifications |-> Add(index.verifications, "verification_results",
                               {i \in DOMAIN results : IsObject(results[i])}, VerifRec)]

FileDiags(doc, stem, manifest) ==
    LET problemId == TextOf(Section(doc, "problem"), "id")
        Here(codes) == At(codes, stem, "")
        Each(key, known, Codes(_, _)) ==
            Here(Unidentified(doc, key)) \cup
            UNION {LET e == ItemsOf(doc, key)[i]
                       earlier == {TextOf(ItemsOf(doc, key)[j], "id") :
                                      j \in {k \in Entries(doc, key) : k < i}}
                   IN  At(Codes(e, problemId)
                          \cup When(TextOf(e, "id") \in known \cup earlier, "E_DUPLICATE_ID"),
                          stem, TextOf(e, "id")) : i \in Entries(doc, key)}
    IN  UNION {Here(Check(doc, FileSchema)),
               IF HasSection(doc, "meta")
               THEN Here(MetaCodes(Section(doc, "meta"), manifest)) ELSE {},
               IF HasSection(doc, "problem")
               THEN At(ProblemCodes(Section(doc, "problem"), stem, index.problems),
                       stem, problemId) ELSE {},
               IF HasSection(doc, "reference_verdict")
               THEN Here(VerdictCodes(Section(doc, "reference_verdict"), problemId)) ELSE {},
               Each("reasoning_traces", Ids(index.traces), TraceCodes),
               Each("candidate_solutions", Ids(index.solutions), SolutionCodes),
               Each("test_cases", Ids(index.tests), TestCodes),
               Here(VerificationCodes(doc)),
               Each("diagnoses", Ids(index.diagnoses), DiagnosisCodes)}

----------------------------------------------------------------------------
(* Phase 2, on the complete index.                                         *)
UnresolvedTraces ==
    UNION {At(When(r.trace \notin Ids(index.traces), "E_BAD_TRACE_FK"), r.file, r.id) :
           r \in ToSet(index.solutions) \cup ToSet(index.diagnoses)}

UnresolvedResults ==
    UNION {At(When(v.solution \notin Ids(index.solutions) \cup {""}, "E_BAD_SOLUTION_FK")
              \cup When(v.test \notin Ids(index.tests) \cup {""}, "E_BAD_TEST_FK"), v.file, "") :
           v \in ToSet(index.verifications)}

(* Mutant: a map from traces to diagnoses instead of a counter.            *)
DiagnosisFor(id) ==
    LET naming == {p \in DOMAIN index.diagnoses : index.diagnoses[p].trace = id}
    IN  IF naming = {} THEN {} ELSE {CHOOSE p \in naming : TRUE}

DiagnosesFor(id) == {p \in DOMAIN index.diagnoses : index.diagnoses[p].trace = id}

Associations ==
    UNION {At(When(/\ t.hasImplStep
                   /\ \A s \in ToSet(index.solutions) : s.trace # t.id,
                   "E_IMPLEMENTATION_WITHOUT_SOLUTION")
              \cup When(Cardinality(DiagnosesFor(t.id)) # 1, "E_DIAGNOSIS_CARDINALITY"),
              t.file, t.id) : t \in ToSet(index.traces)}

StatusCodes(dg) ==
    When(dg.primary \notin Categories \cup {""}, "E_INVALID_ENUM") \cup
    CASE dg.status = "correct" ->
            When(~dg.findingsOk \/ dg.cats # {} \/ dg.primary # "", "E_CORRECT_WITH_FINDINGS")
      [] dg.status = "incorrect" ->
            IF ~dg.findingsOk \/ dg.cats = {} THEN {"E_INCORRECT_WITHOUT_FINDINGS"}
            ELSE When(dg.primary = "" \/ ~dg.primaryInFindings, "E_PRIMARY_NOT_IN_FINDINGS")
      [] OTHER -> When(dg.primary # "", "E_STATUS_PRIMARY_MISMATCH")

StatusRules ==
    UNION {At(StatusCodes(dg), dg.file, dg.id) :
           dg \in {r \in ToSet(index.diagnoses) : r.status \in Statuses}}

----------------------------------------------------------------------------
(* The manifest against the index.  get<int>() keeps the low bits, and so  *)
(* does the conversion of a size.                                          *)
AsInt(n) == ((n + IntRange \div 2) % IntRange) - IntRange \div 2

CategoryCount(c) == Quantify(DOMAIN index.diagnoses, LAMBDA p : c \in index.diagnoses[p].cats)
StatusCount(s) == Quantify(DOMAIN index.diagnoses, LAMBDA p : index.diagnoses[p].status = s)
OriginCount(o) == Quantify(DOMAIN index.tests, LAMBDA p : index.tests[p].origin = o)

CheckInts(o, keys, Want(_)) ==
    Required(o, Fields(keys, {"integer"}))
    \cup When(\E k \in keys : /\ HasType(o, k, {"integer"})
                              /\ AsInt(Get(o, k).integer) # AsInt(Want(k)),
              "E_MANIFEST_COUNT_MISMATCH")

(* The sorted list, up to the first entry that is no string, must be the   *)
(* sorted set: no id twice, none missing.                                  *)
(* Mutant: only missing ids are noticed.                                   *)
NamesEnough(m) == {Text(p) : p \in index.problems} \subseteq ToSet(ItemsOf(m, "problem_ids"))

NamesEveryProblem(m) ==
    LET ids == ItemsOf(m, "problem_ids")
        read == Max({n \in 0..Len(ids) : \A i \in 1..n : DOMAIN ids[i] = {"string"}})
    IN  /\ {ids[i].string : i \in 1..read} = index.problems
        /\ read = Cardinality(index.problems)

SummaryCodes(m) ==
    LET In(key, codes) == IF HasType(m, key, {"object"}) THEN codes ELSE {}
    IN  UNION {Check(m, ManifestSchema), ReviewCodes(m),
               When(\E k \in ManifestKeys : ~Has(m, k), "E_MISSING_KEY"),
               CheckInts(m, {"problem_count"} \cap DOMAIN m.object,
                         LAMBDA k : Cardinality(index.problems)),
               CheckInts(m, {"trace_count"} \cap DOMAIN m.object, LAMBDA k : index.traceCount),
               In("category_counts",
                  CheckInts(Section(m, "category_counts"), Categories, CategoryCount)
                  \cup When(DOMAIN Section(m, "category_counts").object \ Categories # {},
                            "E_MANIFEST_COUNT_MISMATCH")),
               In("status_counts", CheckInts(Section(m, "status_counts"), Statuses, StatusCount)),
               In("test_origin_counts",
                  CheckInts(Section(m, "test_origin_counts"), TestOrigins, OriginCount)),
               When(HasType(m, "problem_ids", {"array"}) /\ ~NamesEveryProblem(m),
                    "E_MANIFEST_COUNT_MISMATCH"),
               When(\E t \in ToSet(index.traces) :
                        \E s \in t.reviewStatus : s # TextOf(m, "review_status"),
                    "E_MANIFEST_COUNT_MISMATCH")}

----------------------------------------------------------------------------
Manifest ==
    IF IsLoaded(data.manifest) /\ IsObject(data.manifest.loaded)
    THEN data.manifest.loaded ELSE Object(<<>>)
Unread == DOMAIN data.files \ filesRead
NextFile == FileOrder[Min({i \in DOMAIN FileOrder : FileOrder[i] \in Unread})]

ValidatorInit ==
    /\ data \in Datasets
    /\ vpc = "idle" /\ filesRead = {} /\ index = NoIndex /\ diags = {} /\ verdict = "none"

Return(ds) ==
    /\ vpc' = "done"
    /\ diags' = ds
    /\ verdict' = IF ds = {} THEN "pass" ELSE "fail"

(* The directory, the manifest and problems/ are looked for first.         *)
CheckDirectory ==
    /\ vpc = "idle"
    /\ IF data.directory # "" THEN Return({<<data.directory, "", "">>})
       ELSE IF DOMAIN data.files = {} THEN Return({<<"E_PROBLEMS_DIR_NOT_FOUND", "", "">>})
       ELSE vpc' = "manifest" /\ UNCHANGED <<diags, verdict>>
    /\ UNCHANGED <<data, filesRead, index>>

LoadManifest ==
    /\ vpc = "manifest"
    /\ vpc' = "problems"
    /\ diags' = IF IsLoaded(data.manifest) THEN {} ELSE {<<data.manifest.error, "manifest", "">>}
    /\ UNCHANGED <<data, filesRead, index, verdict>>

(* A file that is no object is reported, and the next one is read.         *)
LoadProblem ==
    /\ vpc = "problems" /\ Unread # {}
    /\ filesRead' = filesRead \cup {NextFile}
    /\ LET stem == NextFile
           file == data.files[stem]
       IN  IF ~IsLoaded(file)
           THEN diags' = diags \cup {<<file.error, stem, "">>} /\ UNCHANGED index
           ELSE IF ~IsObject(file.loaded)
           THEN diags' = diags \cup {<<"E_TYPE_MISMATCH", stem, "">>} /\ UNCHANGED index
           ELSE /\ diags' = diags \cup FileDiags(file.loaded, stem, Manifest)
                /\ index' = Extended(file.loaded, stem)
    /\ UNCHANGED <<data, vpc, verdict>>

Resolve ==
    /\ vpc = "problems" /\ Unread = {}
    /\ vpc' = "summary"
    /\ diags' = diags \cup UnresolvedTraces \cup UnresolvedResults \cup Associations
                      \cup StatusRules
    /\ UNCHANGED <<data, filesRead, index, verdict>>

CheckSummary ==
    /\ vpc = "summary"
    /\ Return(diags \cup (IF IsLoaded(data.manifest)
                          THEN At(SummaryCodes(Manifest), "manifest", "") ELSE {}))
    /\ UNCHANGED <<data, filesRead, index>>

Validate == CheckDirectory \/ LoadManifest \/ LoadProblem \/ Resolve \/ CheckSummary

----------------------------------------------------------------------------
(* What the data contract asks of a whole data set, said without an order  *)
(* of files: a record is the place where it is written, <<stem, index>>.   *)
Places(key) ==
    UNION {{<<f, i>> : i \in DOMAIN ItemsOf(data.files[f].loaded, key)} :
           f \in DOMAIN data.files}
RecordAt(key, p) == ItemsOf(data.files[p[1]].loaded, key)[p[2]]
FieldAt(key, p, field) == TextOf(RecordAt(key, p), field)
Naming(key, field, value) == {p \in Places(key) : FieldAt(key, p, field) = value}
ProblemOf(f) == Section(data.files[f].loaded, "problem")

OneRecordPerId ==
    /\ \A key \in {"reasoning_traces", "candidate_solutions", "test_cases", "diagnoses"} :
          \A p \in Places(key) : Naming(key, "id", FieldAt(key, p, "id")) = {p}
    /\ \A f \in DOMAIN data.files : TextOf(ProblemOf(f), "id") = f

VerdictOf(f) == TextOf(Section(data.files[f].loaded, "reference_verdict"), "problem_id")
VerdictsAgree == \A f \in DOMAIN data.files : VerdictOf(f) = f

ReferencesResolve ==
    /\ \A key \in {"reasoning_traces", "test_cases"} :
          \A p \in Places(key) : FieldAt(key, p, "problem_id") = p[1]
    /\ VerdictsAgree
    /\ \A key \in {"candidate_solutions", "diagnoses"} :
          \A p \in Places(key) :
             Naming("reasoning_traces", "id", FieldAt(key, p, "trace_id")) # {}

TracesAreComplete ==
    \A p \in Places("reasoning_traces") :
       LET trace == RecordAt("reasoning_traces", p)
       IN  /\ Cardinality(Naming("diagnoses", "trace_id", TextOf(trace, "id"))) = 1
           /\ (\E s \in ToSet(ItemsOf(trace, "steps")) : TextOf(s, "stage") = ImplementationStage)
              => Naming("candidate_solutions", "trace_id", TextOf(trace, "id")) # {}

FoundIn(p) ==
    {TextOf(f, "category") : f \in ToSet(ItemsOf(RecordAt("diagnoses", p), "findings"))}
DiagnosesAreConsistent ==
    \A p \in Places("diagnoses") :
       LET status == FieldAt("diagnoses", p, "status")
           primary == FieldAt("diagnoses", p, "primary_category")
       IN  /\ status = "correct" => FoundIn(p) = {}
           /\ primary # "" <=> status = "incorrect"
           /\ status = "incorrect" => primary \in FoundIn(p)

(* The numbers of the manifest, each with the number it is to be.          *)
ManifestCounts ==
    LET Table(key, names, Count(_)) ==
            {<<Get(Section(Manifest, key), k).integer, Count(k)>> : k \in names}
    IN  {<<Get(Manifest, "problem_count").integer, Cardinality(DOMAIN data.files)>>,
         <<Get(Manifest, "trace_count").integer, Cardinality(Places("reasoning_traces"))>>}
        \cup Table("category_counts", Categories,
                   LAMBDA c : Cardinality({p \in Places("diagnoses") : c \in FoundIn(p)}))
        \cup Table("status_counts", Statuses,
                   LAMBDA s : Cardinality(Naming("diagnoses", "status", s)))
        \cup Table("test_origin_counts", TestOrigins,
                   LAMBDA o : Cardinality(Naming("test_cases", "origin", o)))
CountsAgree == \A n \in ManifestCounts : n[1] = n[2]

VersionsAgree ==
    \A f \in DOMAIN data.files : \A k \in VersionKeys :
       TextOf(Section(data.files[f].loaded, "meta"), k) = TextOf(Manifest, k)

SigningKeys == {"reviewer", "reviewed_at"}
ManifestIsSigned ==
    \A k \in SigningKeys :
       IF TextOf(Manifest, "review_status") = "planner_reviewed"
       THEN TextOf(Manifest, k) # "" ELSE HasType(Manifest, k, {"null"})

ManifestAgrees ==
    LET ids == ItemsOf(Manifest, "problem_ids")
    IN  /\ CountsAgree /\ VersionsAgree /\ ManifestIsSigned
        /\ DOMAIN Section(Manifest, "category_counts").object = Categories
        /\ {i.string : i \in ToSet(ids)} = DOMAIN data.files
        /\ Len(ids) = Cardinality(DOMAIN data.files)
        /\ \A p \in Places("reasoning_traces") :
              FieldAt("reasoning_traces", p, "review_status") = TextOf(Manifest, "review_status")

SoundDataset ==
    /\ OneRecordPerId /\ ReferencesResolve
    /\ TracesAreComplete /\ DiagnosesAreConsistent /\ ManifestAgrees

(* What the code lets pass without a comparison: a number that is no int,  *)
(* an empty problem_id or version, and a reviewer that is neither null nor *)
(* a name.                                                                 *)
Overlooked ==
    \/ \E n \in ManifestCounts : AsInt(n[1]) # n[1] \/ AsInt(n[2]) # n[2]
    \/ \E f \in DOMAIN data.files : VerdictOf(f) = ""
    \/ \E k \in VersionKeys : TextOf(Manifest, k) = ""
    \/ \E k \in SigningKeys : ~HasType(Manifest, k, {"null"}) /\ TextOf(Manifest, k) = ""

(* A fault that one field shows, or one document.                          *)
LocalCodes ==
    {"E_DATA_DIR_NOT_FOUND", "E_MANIFEST_NOT_FOUND", "E_PROBLEMS_DIR_NOT_FOUND", "E_FILE_READ",
     "E_JSON_PARSE", "E_MISSING_KEY", "E_TYPE_MISMATCH", "E_INVALID_ENUM", "E_VERSION_MISMATCH",
     "E_REVIEW_STATUS_SEMANTIC", "E_UNCALIBRATED_CONFIDENCE", "E_UNEXPECTED_VERIFICATION_RESULT"}

(* Where validate reports no single field, it exits with 0 if the records  *)
(* of all files together keep the contract, and, but for what it           *)
(* overlooks, only if they do, whatever file a record is in and in which   *)
(* order the files are read (validateDataset, the two phases).             *)
VerdictMatchesContract ==
    [][(vpc # "done" /\ vpc' = "done" /\ \A d \in diags' : d[1] \notin LocalCodes)
       => /\ SoundDataset => verdict' = "pass"
          /\ verdict' = "pass" /\ ~Overlooked => SoundDataset]_validatorVars

(* A data set that passes keeps the contract, taken at its word: the       *)
(* numbers of the manifest are those of a recount, the reference verdict   *)
(* of a file is about its problem, the versions of a file are those of the *)
(* manifest, and reviewer and reviewed_at are names after the review and   *)
(* null before (data-contract.md, A.1; checkManifestSummary, "presence +   *)
(* type already checked at load time").                                    *)
PassedIsSound == verdict = "pass" => SoundDataset
=============================================================================
