------------------------ MODULE MCOfflineEvaluation ------------------------
(***************************************************************************)
(* Two data sets of two samples, and what responses, runs and reviews of   *)
(* them may look like.                                                     *)
(***************************************************************************)
EXTENDS MCDiagnosisPath, OfflineEvaluation

(* The data sets.                                                          *)
Tests == <<[id |-> "t1", input |-> <<"a">>, expected_output |-> <<"b", "lf">>],
           [id |-> "t2", input |-> <<"b">>, expected_output |-> <<"a">>]>>
Problem(name, split, difficulty, tests) ==
    [id |-> name, split |-> split, difficulty |-> difficulty, statement |-> <<"a", "b">>,
     test_cases |-> tests, reference_code |-> <<"a">>]
Stored == <<"bom", "a", "cr", "lf", "cr", "lf", "b", "lf">>
Gold(status, first, category) ==
    [process_status |-> status, answer_status |-> "unverified", first_error |-> first,
     primary_category |-> category]
Wrong == Gold("incorrect", <<3, 3>>, "code_logic_error")
Fine == Gold("correct", <<>>, "none")
Sample(name, problem, gold) ==
    [id |-> name, problem_id |-> problem, code |-> Stored, reasoning |-> Null, gold |-> gold]
Set(problems, samples) == [problems |-> problems, samples |-> samples]
OneProblem == Set(<<Problem(<<"a">>, "holdout", "hard", Tests)>>,
                  <<Sample(<<"a">>, <<"a">>, Wrong), Sample(<<"b">>, <<"a">>, Fine)>>)
TwoProblems ==
    Set(<<Problem(<<"a">>, "development", "basic", Tests),
          Problem(<<"b">>, "holdout", "medium", <<Tests[2]>>)>>,
        <<Sample(<<"a">>, <<"b">>, Wrong),
          Sample(<<"a", "_solution">>, <<"a">>, Gold("incorrect", <<1, 2>>, "code_logic_error"))>>)
MCEvaluationSets ==
    {OneProblem, TwoProblems,
     Set(OneProblem.problems, <<OneProblem.samples[1], OneProblem.samples[1]>>),
     Set(OneProblem.problems, TwoProblems.samples),
     Set(OneProblem.problems,
         <<[OneProblem.samples[1] EXCEPT !.gold.first_error = <<3, 4>>]>>),
     Set(<<[OneProblem.problems[1] EXCEPT !.test_cases = <<Tests[1], Tests[1]>>]>>,
         OneProblem.samples)}

----------------------------------------------------------------------------
(* The responses.                                                          *)
SolutionCode(source) ==
    Object([availability |-> Word("provided"), language |-> Word("cpp"),
            standard |-> Word("c++17"), source_code |-> Text(source),
            unavailable_reason |-> Null])
NoSolutionCode ==
    Object([availability |-> Word("unavailable"), language |-> Word("cpp"),
            standard |-> Word("c++17"), source_code |-> Null,
            unavailable_reason |-> Text(<<"a">>)])
Response(version, d, code) ==
    [form |-> "json",
     value |-> Object([schema_version |-> Word(version), diagnosis |-> d,
                       solution_code |-> code])]
Solved1(d) == With(d, "reference_solution", Solution)
Early == With(FindingAt("b", Text(<<"a">>), Location(1, 1, <<"a">>)), "category",
              Word("code_logic_error"))
LaterFirst == Diagnosis("incorrect", Word("code_logic_error"), <<Located>>, Text(<<"b">>))
EarlyFirst == Diagnosis("incorrect", Word("code_logic_error"), <<Located, Early>>, Text(<<"a">>))
V2 == "greedy-evaluation-v2"
MCFormalCategories == {"code_logic_error"}
MCRaw ==
    {Response(V2, Solved1(LaterFirst), SolutionCode(<<"a">>)),
     Response(V2, Solved1(EarlyFirst), SolutionCode(<<"b">>)),
     Response(V2, Diagnosis("undetermined", Null, <<>>, Null), NoSolutionCode),
     Response("greedy-evaluation-v1", Solved1(Correct), SolutionCode(<<"a">>))}
    \cup {[form |-> "text", value |-> Null]}

----------------------------------------------------------------------------
(* What the worker reports of one job: it runs the tests it was given, or  *)
(* some of them, and writes what it was given.                             *)
Run(test, outcome, stdout) ==
    [test_id |-> test.id, input |-> test.input, expected_output |-> test.expected_output,
     outcome |-> outcome, stdout |-> stdout]
Good(test) == Run(test, "success", test.expected_output \o <<"cr", "lf">>)
Odd(test) == Run(test, "success", <<"a">>)
Job(key, source, tests) == [id |-> key, source |-> source, compile |-> "success", tests |-> tests]
RunsOfAll(tests, Made(_)) == [i \in DOMAIN tests |-> Made(tests[i])]
CandidateRun(d, s, Made(_)) == Job(s.id, s.code, RunsOfAll(ProblemOf(d, s).test_cases, Made))
SolutionRun(d, s, source, Made(_)) ==
    Job(EvidenceId(s.id, TRUE), source, RunsOfAll(ProblemOf(d, s).test_cases, Made))
EvidenceOf(d) ==
    LET s == d.samples[1]
        t == d.samples[2]
        Passes(test) == Run(test, "passed", <<"b">>)
        Fails(test) == Run(test, "wrong_answer", <<>>)
        Half(test) == IF test.id = "t1" THEN Passes(test) ELSE Odd(test)
        Late(test) == Run(test, IF test.id = "t2" THEN "timeout" ELSE "success", <<"a">>)
    IN  {[dataset |-> d, results |-> results] : results \in
            {<<>>, <<CandidateRun(d, s, Odd), CandidateRun(d, t, Good)>>,
             <<CandidateRun(d, s, Odd), CandidateRun(d, t, Odd), SolutionRun(d, s, <<"a">>, Good)>>,
             <<CandidateRun(d, s, Good), CandidateRun(d, t, Good), SolutionRun(d, s, <<"b">>, Good)>>,
             <<CandidateRun(d, s, Late), CandidateRun(d, t, Late), SolutionRun(d, t, <<"a">>, Odd)>>,
             <<CandidateRun(d, s, Odd), CandidateRun(d, t, Good), SolutionRun(d, s, <<"a">>, Passes)>>,
             <<CandidateRun(d, s, Fails), CandidateRun(d, t, Half)>>,
             <<SolutionRun(d, s, <<"a">>, Good)>>,
             <<[SolutionRun(d, s, <<"a">>, Good) EXCEPT !.tests = Tail(@)]>>,
             <<[SolutionRun(d, s, <<"a">>, Good) EXCEPT !.tests = <<>>, !.compile = "execution_failed"]>>,
             <<CandidateRun(d, s, Odd), CandidateRun(d, s, Good)>>}}
MCEvidenceFor ==
    [d \in {OneProblem, TwoProblems} |->
        EvidenceOf(d) \cup {NoEvidence(IF d = OneProblem THEN TwoProblems ELSE OneProblem)}]

Entry(s, decision, process) ==
    [sample_id |-> s.id, diagnosis_decision |-> decision, solution_process_decision |-> process]
Review(entries) == [status |-> "complete", reviewer |-> <<"a">>, entries |-> entries]
ReviewsOf(d) ==
    {NoReview, Review(<<Entry(d.samples[1], "confirmed", "confirmed")>>),
     Review([i \in DOMAIN d.samples |-> Entry(d.samples[i], "rejected",
                                              IF i = 1 THEN "rejected" ELSE "confirmed")]),
     Review([i \in DOMAIN d.samples |-> Entry(d.samples[i], "confirmed", "pending")])}
MCReviewsFor == [d \in {OneProblem, TwoProblems} |-> ReviewsOf(d)]
=============================================================================
