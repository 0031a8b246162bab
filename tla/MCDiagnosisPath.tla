-------------------------- MODULE MCDiagnosisPath --------------------------
(***************************************************************************)
(* Bodies and answers: one that is right, and what differs from it in one  *)
(* field or in a few that a rule relates.                                  *)
(***************************************************************************)
EXTENDS DiagnosisPath, TLC

CONSTANTS good, bad

MCSafeSymbols == {"a", "b", "r", ".", "_solution"}
MCLimit ==
    [request_id |-> 2, algorithm_type |-> 2, problem_statement |-> 5, cpp_solution |-> 9,
     reasoning |-> 5, user_notes |-> 5, test_text |-> 2, test_cases |-> 1,
     rendered_prompt |-> 24, id |-> 4, text |-> 6, limitations |-> 1, steps |-> 2,
     findings |-> 2]

With(o, k, v) == Object((k :> v) @@ o.object)
Without(o, k) == Object([j \in DOMAIN o.object \ {k} |-> o.object[j]])
OneOf(o, k, values) == {With(o, k, v) : v \in values}

(* Three lines after normalization, the second empty.                      *)
Code == Text(<<"bom", "a", "cr", "lf", "cr", "b", "lf">>)
TestCase == Object([input |-> Text(<<>>), expected_output |-> Text(<<"a">>)])
Asked ==
    Object([schema_version |-> Word("interactive-request-v2"), request_id |-> Text(<<"r">>),
            algorithm_type |-> Word("greedy"), problem_statement |-> Text(<<"a", "b">>),
            cpp_solution |-> Code])
Reasoned == With(With(Asked, "reasoning", Text(<<"b">>)), "test_cases", Array(<<TestCase>>))

Requests ==
    {Asked, Reasoned, Null, Without(Asked, "cpp_solution"), With(Asked, "answer", Null)}
    \cup OneOf(Asked, "schema_version", {Word("interactive-request-v1"), Whole(2)})
    \cup OneOf(Asked, "request_id",
               {Text(<<".", ".">>), Text(<<"space">>), Text(<<"r", "r", "r">>), Whole(1)})
    \cup OneOf(Asked, "algorithm_type", {Word("dp"), Null})
    \cup OneOf(Asked, "problem_statement",
               {Text(<<"bom", "space">>), Text(<<"a", "nul">>), Text(<<"bom", "bom", "a">>)})
    \cup OneOf(Asked, "cpp_solution",
               {Text(<<"bom", "bom", "a", "lf", "b">>), Text(<<"lf", "lf", "b">>),
                Text([i \in 1..10 |-> "a"]), Text([i \in 1..9 |-> "cr"])})
    \cup OneOf(Asked, "user_notes", {Text(<<"space">>), Text(<<"a">>), Whole(0), Null})
    \cup OneOf(Asked, "test_cases",
               {Null, Array(<<>>), Array(<<TestCase, TestCase>>), Array(<<Null>>), Whole(0),
                Array(<<With(TestCase, "input", Text(<<"nul">>))>>)})

Body(value) == [json_type |-> TRUE, form |-> "json", value |-> value]
MCPosts ==
    {Body(v) : v \in Requests}
    \cup [json_type : {FALSE}, form : {"json"}, value : {Asked}]
    \cup [json_type : {TRUE}, form : {"empty", "long", "text"}, value : {Null}]

Template == [text |-> TRUE, header |-> TRUE, markers |-> 1, size |-> 11]
MCTemplates ==
    {Template, [Template EXCEPT !.text = FALSE], [Template EXCEPT !.header = FALSE],
     [Template EXCEPT !.size = 20]}
    \cup {[Template EXCEPT !.markers = n] : n \in {0, 2}}

----------------------------------------------------------------------------
Location(first, last, snippet) ==
    Object([start_line |-> Whole(first), end_line |-> Whole(last), snippet |-> Text(snippet)])
Locations ==
    {Location(1, 1, <<"a">>), Location(2, 2, <<"b">>), Location(3, 3, <<"b">>),
     Location(1, 3, <<"a", "lf", "lf", "b">>), Location(1, 2, <<"a", "lf">>),
     Location(2, 3, <<"lf", "b">>), Location(0, 1, <<"a">>), Location(3, 4, <<"b", "lf">>)}
StepWith(name, location) ==
    Object([id |-> Text(<<name>>), summary |-> Text(<<"a">>), code_location |-> location])
Whole3 == StepWith("a", Location(1, 3, <<"a", "lf", "lf", "b">>))
Third == StepWith("b", Location(3, 3, <<"b">>))

Evidence(source, excerpt) == Object([source |-> Word(source), excerpt |-> Text(excerpt)])
FindingAt(name, step, location) ==
    Object([id |-> Text(<<name>>), step_id |-> step, category |-> Word("code_logic_error"),
            reason |-> Text(<<"a">>), input_evidence |-> Evidence("problem_statement", <<"b">>),
            code_location |-> location, location_reason |-> Null,
            suggestion |-> Text(<<"a">>)])
Located == FindingAt("a", Text(<<"b">>), Location(3, 3, <<"b">>))
Unlocated == With(FindingAt("b", Null, Null), "location_reason", Text(<<"a">>))
AboutProof == With(Located, "category", Word("invalid_greedy_proof"))
ReasoningQuoted == With(AboutProof, "input_evidence", Evidence("reasoning", <<"b">>))

Findings ==
    {Located, Unlocated, AboutProof, ReasoningQuoted,
     With(FindingAt("a", Text(<<"a">>), Location(1, 1, <<"a">>)), "input_evidence",
          Evidence("cpp_solution", <<"a">>)),
     FindingAt("a", Text(<<"b">>), Location(1, 1, <<"a">>)),
     FindingAt("a", Text(<<"r">>), Location(1, 1, <<"a">>)),
     FindingAt("a", Null, Location(1, 1, <<"a">>)), FindingAt("a", Text(<<".">>), Location(1, 1, <<"a">>)),
     Without(Located, "reason"), Null,
     With(Located, "input_evidence", Null)}
    \cup OneOf(Located, "category", {Word("style"), Null})
    \cup OneOf(Located, "location_reason", {Text(<<"a">>)})
    \cup OneOf(Located, "input_evidence",
               {Evidence("problem_statement", <<"r">>), Evidence("user_notes", <<"a">>),
                Evidence("reasoning", <<"b">>), Evidence("cpp_solution", <<"lf", "b">>)})

----------------------------------------------------------------------------
NoCounterexample ==
    Object([availability |-> Word("unavailable"), input |-> Null, expected_output |-> Null,
            predicted_candidate_output |-> Null, candidate_output_basis |-> Null,
            explanation |-> Text(<<"a">>), provenance |-> Word("model_proposed_not_executed")])
Counterexample ==
    With(With(With(NoCounterexample, "availability", Word("provided")),
              "input", Text(<<>>)), "expected_output", Text(<<"a">>))
NoSolution ==
    Object([p \in SolutionParts |-> Null]
           @@ [availability |-> Word("unavailable"), unavailable_reason |-> Text(<<"a">>),
               provenance |-> Word("model_generated_unverified")])
Solution ==
    Object([p \in SolutionParts |-> Text(<<"a">>)]
           @@ [availability |-> Word("provided"), unavailable_reason |-> Null,
               provenance |-> Word("model_generated_unverified")])

Correct ==
    Object([schema_version |-> Word("interactive-diagnosis-v2"), request_id |-> Text(<<"r">>),
            status |-> Word("correct"), summary |-> Text(<<"a">>),
            limitations |-> Array(<<Text(<<"a">>)>>),
            algorithm_overview |-> Object([origin |-> Word("model_code_interpretation"),
                                           summary |-> Text(<<"a">>)]),
            steps |-> Array(<<Whole3, Third>>),
            first_error |-> Object([step_id |-> Null, explanation |-> Text(<<"a">>)]),
            primary_category |-> Null, findings |-> Array(<<>>),
            counterexample |-> NoCounterexample, reference_solution |-> NoSolution])

Diagnosis(status, primary, findings, first) ==
    With(With(With(With(Correct, "status", Word(status)), "primary_category", primary),
              "findings", Array(findings)),
         "first_error", Object([step_id |-> first, explanation |-> Text(<<"a">>)]))
Incorrect(findings) == Diagnosis("incorrect", Word("code_logic_error"), findings, Null)

(* The fields the rules relate to each other.                              *)
Related ==
    {Diagnosis(status, primary, findings, first) :
        status \in {"correct", "incorrect", "undetermined"},
        primary \in {Null, Word("code_logic_error"), Word("boundary_omission")},
        findings \in {<<>>, <<Located>>, <<Located, Unlocated>>,
                      <<Located, With(Located, "id", Text(<<"b">>))>>},
        first \in {Null, Text(<<"a">>), Text(<<"b">>), Text(<<"r">>)}}
ByFinding ==
    {Diagnosis("incorrect", Read(f, "category"), <<f>>, Null) : f \in Findings}
    \cup {Incorrect(<<Located, Located>>), Incorrect(<<Located, Located, Located>>)}
BySteps ==
    {With(Correct, "steps", Array(<<StepWith("a", l)>>)) : l \in Locations}
    \cup OneOf(Correct, "steps",
               {Array(<<>>), Array(<<Whole3, Whole3>>), Array(<<Null>>), Array(<<Third, Third, Third>>)})
    \cup {With(Diagnosis("undetermined", Null, <<>>, Null), "steps", Array(<<>>))}
Proposals ==
    UNION {OneOf(d, "counterexample",
                 {Counterexample, Null,
                  With(Counterexample, "predicted_candidate_output", Text(<<"a">>)),
                  With(With(Counterexample, "predicted_candidate_output", Text(<<"a">>)),
                       "candidate_output_basis", Word("static_inference")),
                  With(Counterexample, "candidate_output_basis", Word("static_inference")),
                  With(NoCounterexample, "input", Text(<<>>)),
                  With(Counterexample, "provenance", Word("run"))})
           \cup OneOf(d, "reference_solution",
                      {Solution, Null, With(Solution, "strategy", Null),
                       With(Solution, "unavailable_reason", Text(<<"a">>)),
                       With(NoSolution, "strategy", Text(<<"a">>)),
                       With(NoSolution, "unavailable_reason", Null)}) :
           d \in {Correct, Incorrect(<<Located>>), Diagnosis("undetermined", Null, <<>>, Null)}}
Shapes ==
    {Null, Without(Correct, "summary"), With(Correct, "extra", Null)}
    \cup OneOf(Correct, "schema_version", {Word("interactive-diagnosis-v1")})
    \cup OneOf(Correct, "request_id", {Text(<<"a">>)})
    \cup OneOf(Correct, "status", {Null, Word("fine")})
    \cup OneOf(Correct, "summary", {Text(<<"space">>), Text(<<"a", "cr">>), Text([i \in 1..7 |-> "a"])})
    \cup OneOf(Correct, "limitations", {Array(<<>>), Array(<<Null>>), Null})
    \cup OneOf(Correct, "primary_category", {Whole(1), Word("style")})
    \cup OneOf(Correct, "findings", {Null})
    \cup OneOf(Correct, "first_error", {Null})
    \cup OneOf(Correct, "algorithm_overview", {Null})

MCAnswers ==
    {[form |-> "json", value |-> d] : d \in Related \cup ByFinding \cup BySteps \cup Proposals \cup Shapes}
    \cup [form : {"empty", "long", "bytes", "text"}, value : {Null}]

(* Two of these answers, as the responses of the exchanges.                *)
MCParseStatusOf ==
    [r \in Responses |->
        ParseStatus([form |-> "json",
                     value |-> IF r = good THEN Incorrect(<<Located>>)
                               ELSE Incorrect(<<Located, Located>>)], Canonical(Asked))]

Symmetry == Permutations(Exchanges) \cup Permutations(Servers) \cup Permutations(Ids)
=============================================================================
