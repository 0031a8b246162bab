-------------------------- MODULE MCPromptExporter --------------------------
(***************************************************************************)
(* Data sets for PromptExporter: one that keeps the contract, and others   *)
(* that differ from it in one or two places.  Files, ids and texts are     *)
(* short names; counts wrap at 16 instead of 2^32.                         *)
(***************************************************************************)
EXTENDS PromptExporter

CONSTANTS e1, e2

MCExporters == {e1, e2}
Symmetry == Permutations(MCExporters)
MCFileOrder == <<"p1", "p2">>
MCStages == {"understanding", "implementation_consistency"}
MCCategories == {"wrong_greedy_choice", "boundary_omission"}
MCSafeIds == {"p1", "p2", "p3", "t1", "t2", "t3"}
MCMentioning == [quoting |-> {"test_cases"}, looping |-> {"problem"}]

----------------------------------------------------------------------------
(* A data set is changed at one place: path names keys and indices.        *)
Put(o, k, v) == Object((k :> v) @@ o.object)
Item(o, k, i, v) == Put(o, k, Array([o.object[k].array EXCEPT ![i] = v]))
Add(o, k, v) == Put(o, k, Array(Append(o.object[k].array, v)))
All(f) == Object([k \in DOMAIN f |-> Text(f[k])])

Step(stage) == Put(All([stage |-> stage, text |-> "because"]), "relies_on", Array(<<>>))
Trace(id, problem) ==
    Object([k \in {"reviewer", "reviewed_at"} |-> Null]
           @@ [steps |-> Array(<<Step("understanding")>>)]
           @@ All([id |-> id, problem_id |-> problem, trace_origin |-> "model_generated",
                   generator_model |-> "hy3", annotator |-> "hy3_draft", author |-> "hy3",
                   review_status |-> "pending_planner_review"]).object)
Diagnosis(id, trace) ==
    Object([k \in ConfidenceKeys \cup {"primary_category"} |-> Null] @@ [findings |-> Array(<<>>)]
           @@ All([id |-> id, trace_id |-> trace, status |-> "correct"]).object)
Found(category) ==
    All([stage |-> "understanding", category |-> category, locating |-> "l", evidence |-> "e",
         suggestion |-> "s"])
Wrong(dg, category) ==
    Put(Put(Put(dg, "status", Text("incorrect")), "primary_category", Text(category)),
        "findings", Array(<<Found(category)>>))
Solution(id, trace) ==
    All([id |-> id, trace_id |-> trace, language |-> "cpp", standard |-> "c++17",
         source_code |-> "main", execution_status |-> "not_run"])
TestCase(id, problem) ==
    All([id |-> id, problem_id |-> problem, input |-> "1", expected_output |-> "2",
         origin |-> "official_sample", purpose |-> "normal", notes |-> "gold"])

Problem(id) ==
    Object([constraints |-> Object(<<>>), reference_tags |-> Array(<<>>)]
           @@ All([id |-> id, source |-> "codeforces", title |-> "a", statement |-> "b",
                   algorithm_type |-> "greedy", notes |-> "gold"]).object)
File(id, traces, tests, solutions, diagnoses) ==
    Object([meta |-> All([k \in {r[1] : r \in MetaSchema.required} |-> "1"]), problem |-> Problem(id),
            reference_verdict |->
                Object([expected_boundaries |-> Array(<<>>)]
                       @@ All([problem_id |-> id, expected_choice |-> "c", expected_proof |-> "d",
                               expected_complexity |-> "n",
                               common_wrong_strategy_counterexample |-> "w"]).object),
            test_cases |-> Array(tests), reasoning_traces |-> Array(traces),
            candidate_solutions |-> Array(solutions), diagnoses |-> Array(diagnoses),
            verification_results |-> Array(<<>>)])

P1 == File("p1", <<Put(Trace("t1", "p1"), "steps",
                       Array(<<Step("understanding"), Step("implementation_consistency")>>)),
                   Trace("t2", "p1")>>,
           <<TestCase("c1", "p1")>>, <<Solution("s2", "t2"), Solution("s1", "t1")>>,
           <<Diagnosis("d1", "t1"), Wrong(Diagnosis("d2", "t2"), "boundary_omission")>>)
P2 == File("p2", <<Trace("t3", "p2")>>, <<TestCase("c2", "p2")>>, <<>>, <<Diagnosis("d3", "t3")>>)

Counters(f) == Object([k \in DOMAIN f |-> Whole(f[k])])
CountsOfCategories(n) == Counters([wrong_greedy_choice |-> 0, boundary_omission |-> n])
CountsOfStatuses(n) == Counters([correct |-> n, incorrect |-> 1, undetermined |-> 0])
Base ==
    [directory |-> "",
     manifest |-> Loaded(Object(
        [category_counts |-> CountsOfCategories(1),
         status_counts |-> CountsOfStatuses(2),
         test_origin_counts |-> Counters([o \in TestOrigins |-> IF o = "official_sample" THEN 2 ELSE 0]),
         problem_count |-> Whole(2), trace_count |-> Whole(3),
         problem_ids |-> Array(<<Text("p2"), Text("p1")>>), reviewer |-> Null,
         reviewed_at |-> Null, review_status |-> Text("pending_planner_review")]
        @@ [k \in VersionKeys |-> Text("1")])),
     files |-> [p1 |-> Loaded(P1), p2 |-> Loaded(P2)]]

----------------------------------------------------------------------------
OfManifest(k, v) == [Base EXCEPT !.manifest = Loaded(Put(Base.manifest.loaded, k, v))]
OfP1(doc) == [Base EXCEPT !.files.p1 = Loaded(doc)]
OfP2(doc) == [Base EXCEPT !.files.p2 = Loaded(doc)]
TracesP1 == P1.object["reasoning_traces"].array
DiagnosesP1 == P1.object["diagnoses"].array
OfTrace1(k, v) == OfP1(Item(P1, "reasoning_traces", 1, Put(TracesP1[1], k, v)))
OfDiagnosis(i, k, v) == OfP1(Item(P1, "diagnoses", i, Put(DiagnosesP1[i], k, v)))
OfProblem1(k, v) == OfP1(Put(P1, "problem", Put(Problem("p1"), k, v)))
OfVerdict1(k, v) ==
    OfP1(Put(P1, "reference_verdict", Put(P1.object["reference_verdict"], k, v)))

(* What is wrong, or only unusual, with each of them.                      *)
Catalogue ==
    [good |-> Base,
     onlyP2 |->
        [directory |-> "",
         manifest |-> Loaded(Object(
            [category_counts |-> CountsOfCategories(0),
             status_counts |-> Counters([correct |-> 1, incorrect |-> 0, undetermined |-> 0]),
             test_origin_counts |->
                Counters([o \in TestOrigins |-> IF o = "official_sample" THEN 1 ELSE 0]),
             problem_count |-> Whole(1), trace_count |-> Whole(1),
             problem_ids |-> Array(<<Text("p2")>>)] @@ Base.manifest.loaded.object)),
         files |-> [p2 |-> Loaded(P2)]],
     noDirectory |-> [Base EXCEPT !.directory = "E_DATA_DIR_NOT_FOUND"],
     noFiles |-> [Base EXCEPT !.files = <<>>],
     noManifest |-> [Base EXCEPT !.manifest = Unreadable],
     tornManifest |-> [Base EXCEPT !.manifest = Unparsable],
     listManifest |-> [Base EXCEPT !.manifest = Loaded(Array(<<>>))],
     tornFile |-> [Base EXCEPT !.files.p2 = Unparsable],
     listFile |-> OfP2(Array(<<>>)),
     missingFile |-> [Base EXCEPT !.files = [p1 |-> Loaded(P1)]],
     fewerProblems |-> OfManifest("problem_ids", Array(<<Text("p1")>>)),
     moreProblems |-> OfManifest("problem_ids", Array(<<Text("p1"), Text("p2"), Text("p3")>>)),
     problemTwice |-> OfManifest("problem_ids", Array(<<Text("p1"), Text("p2"), Text("p2")>>)),
     numberAsProblem |-> OfManifest("problem_ids", Array(<<Text("p1"), Whole(2), Text("p2")>>)),
     noVersion |-> OfManifest("schema_version", Text("")),
     otherVersion |-> OfManifest("schema_version", Text("2")),
     verdictOfNone |-> OfVerdict1("problem_id", Text("")),
     foreignVerdict |-> OfVerdict1("problem_id", Text("p2")),
     reviewerIsNumber |-> OfManifest("reviewer", Whole(1)),
     countIsWrong |-> OfManifest("trace_count", Whole(4)),
     countWraps |-> OfManifest("trace_count", Whole(19)),
     statusCountIsWrong |-> OfManifest("status_counts",
                                       Counters([correct |-> 1, incorrect |-> 2, undetermined |-> 0])),
     reviewDiffers |-> OfTrace1("review_status", Text("planner_reviewed")),
     traceIdInOtherFile |-> OfP2(Item(P2, "reasoning_traces", 1, Trace("t1", "p2"))),
     traceIdTwice |-> OfTrace1("id", Text("t2")),
     foreignTrace |-> OfTrace1("problem_id", Text("p2")),
     traceWithoutId |-> OfTrace1("id", Null),
     unsafeTrace |-> OfP2(Put(Item(P2, "reasoning_traces", 1, Trace("../t", "p2")), "diagnoses",
                              Array(<<Diagnosis("d3", "../t")>>))),
     foreignProblem |-> OfProblem1("id", Text("p2")),
     noDiagnosis |-> OfDiagnosis(1, "trace_id", Text("t9")),
     twoDiagnoses |->
        [OfP2(Add(P2, "diagnoses", Diagnosis("d4", "t1"))) EXCEPT
            !.manifest = OfManifest("status_counts", CountsOfStatuses(3)).manifest],
     diagnosisInOtherFile |->
        [OfP2(Add(P2, "diagnoses", DiagnosesP1[1])) EXCEPT
            !.files.p1 = Loaded(Put(P1, "diagnoses", Array(<<DiagnosesP1[2]>>)))],
     solutionInOtherFile |->
        [OfP2(Add(P2, "candidate_solutions", Solution("s1", "t1"))) EXCEPT
            !.files.p1 = Loaded(Put(P1, "candidate_solutions", Array(<<Solution("s2", "t2")>>)))],
     noSolution |-> OfP1(Put(P1, "candidate_solutions", Array(<<Solution("s2", "t2")>>))),
     correctWithFinding |->
        [OfDiagnosis(1, "findings", Array(<<Found("boundary_omission")>>)) EXCEPT
            !.manifest = OfManifest("category_counts", CountsOfCategories(2)).manifest],
     primaryNotFound |-> OfDiagnosis(2, "primary_category", Text("wrong_greedy_choice")),
     openWithPrimary |-> OfDiagnosis(1, "primary_category", Text("boundary_omission")),
     calibrated |-> OfDiagnosis(1, "confidence", Whole(1)),
     verified |-> OfP1(Add(P1, "verification_results", All([solution_id |-> "s9"]))),
     reviewInConstraints |-> OfProblem1("constraints", Object([reviewer |-> Text("b")])),
     mentionsLater |-> OfProblem1("statement", Text("quoting")),
     mentionsEarlier |-> OfTrace1("author", Text("looping")),
     problemIsList |-> OfP1(Put(P1, "problem", Array(<<>>))),
     flatProblem |-> OfP1(Without(Put(P1, "expected_choice", Text("x")), {"problem"}))]

MCDatasets == {Catalogue[name] : name \in DOMAIN Catalogue}

(* Base with the four faults that validate overlooks: a count, the problem *)
(* of a reference verdict, a version and a reviewer.                       *)
FourFaults ==
    [OfVerdict1("problem_id", Text("")) EXCEPT
        !.manifest = Loaded(Put(Put(Put(Base.manifest.loaded, "trace_count", Whole(19)),
                                    "schema_version", Text("")), "reviewer", Whole(1)))]
OverlookedDatasets == {Base, FourFaults}

----------------------------------------------------------------------------
BodyHoles == <<Words, Hole("problem"), Hole("reference_verdict"), Hole("test_cases"), Words,
               Hole("candidate_solution"), Hole("reasoning_trace")>>
Template(lines) == [encoding |-> "utf8", lines |-> lines]
Standard == Template(<<Words, Begin>> \o BodyHoles \o <<End>>)
NotText == [Standard EXCEPT !.encoding = "E_UTF8_INVALID"]
Odd == {Template(<<End>> \o BodyHoles \o <<Begin>>), Template(<<Begin, Words, Begin, End>>),
        Template(<<Begin>> \o BodyHoles \o <<Hole("problem"), End>>),
        Template(<<Hole("problem"), Begin>> \o Tail(Tail(BodyHoles)) \o <<End>>)}

(* What is only a matter of validate is not exported.                      *)
OnlyValidated ==
    {"noDirectory", "noFiles", "noVersion", "otherVersion", "foreignVerdict", "countIsWrong",
     "countWraps", "statusCountIsWrong", "reviewDiffers", "noDiagnosis", "twoDiagnoses",
     "diagnosisInOtherFile", "noSolution", "correctWithFinding", "primaryNotFound",
     "openWithPrimary", "calibrated", "verified"}
MCTemplatesFor ==
    [d \in MCDatasets |->
        IF d = Base THEN Odd \cup {Standard, NotText}
        ELSE IF d \in {Catalogue[name] : name \in OnlyValidated} THEN {NotText}
        ELSE {Standard}]
NoTemplateFor == [d \in OverlookedDatasets |-> {NotText}]
=============================================================================
