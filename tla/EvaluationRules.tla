--------------------------- MODULE EvaluationRules ---------------------------
(***************************************************************************)
(* The rules of hy3_evaluate: which data sets are evaluated, which         *)
(* responses are parsed, what the evidence of executed code and the        *)
(* reviews say of a record, and what a report counts.  need() and at()     *)
(* throw, and a command that throws has written nothing: a rule is a       *)
(* predicate here.  A hash stands for what it was computed of.             *)
(***************************************************************************)
EXTENDS DiagnosisContract

Splits == {"development", "holdout"}
Difficulties == {"basic", "medium", "hard"}
Versions == {"greedy-evaluation-v1", "greedy-evaluation-v2"}

OnlyOnce(q, Key(_)) == \A i, j \in DOMAIN q : Key(q[i]) = Key(q[j]) => i = j
SafeId(id) == id # <<>> /\ ToSet(id) \subseteq SafeSymbols \ {"."}

----------------------------------------------------------------------------
(* The data set                                                            *)

ProblemOf(d, s) == d.problems[SelectInSeq(d.problems, LAMBDA p : p.id = s.problem_id)]
IsKnown(d, id) == \E s \in ToSet(d.samples) : s.id = id
SampleOf(d, id) == d.samples[SelectInSeq(d.samples, LAMBDA s : s.id = id)]

(* An allowlist: the neutral id, the statement, the code, the reasoning.   *)
RequestFor(d, s) ==
    Object([schema_version |-> Word("interactive-request-v2"), request_id |-> Text(<<"r">>),
            algorithm_type |-> Word("greedy"), cpp_solution |-> Text(s.code),
            problem_statement |-> Text(ProblemOf(d, s).statement), reasoning |-> s.reasoning])

ProblemHolds(p) ==
    /\ SafeId(p.id) /\ p.split \in Splits /\ p.difficulty \in Difficulties
    /\ p.test_cases # <<>> /\ OnlyOnce(p.test_cases, LAMBDA t : t.id)
    /\ p.reference_code # <<>>

(* The lines of the code as it is stored, before normalization.            *)
StoredLines(code) ==
    Cardinality({i \in DOMAIN code : code[i] = "lf"})
    + (IF code # <<>> /\ Last(code) # "lf" THEN 1 ELSE 0)
GoldHolds(s) ==
    /\ s.gold.process_status \in {"correct", "incorrect"}
    /\ s.gold.answer_status = "unverified"
    /\ s.gold.first_error # <<>> =>
          /\ 0 < s.gold.first_error[1] /\ s.gold.first_error[1] <= s.gold.first_error[2]
          /\ s.gold.first_error[2] <= StoredLines(s.code)

ValidateDataset(d) ==
    /\ OnlyOnce(d.problems, LAMBDA p : p.id) /\ OnlyOnce(d.samples, LAMBDA s : s.id)
    /\ \A p \in ToSet(d.problems) : ProblemHolds(p)
    /\ \A s \in ToSet(d.samples) :
          /\ SafeId(s.id) /\ \E p \in ToSet(d.problems) : p.id = s.problem_id
          /\ RequestError(RequestFor(d, s)) = "ok"
          /\ GoldHolds(s)

----------------------------------------------------------------------------
(* The response                                                            *)

CodeKeys == {"availability", "language", "standard", "source_code", "unavailable_reason"}
SolutionCodeHolds(v, request) ==
    LET c == Get(v, "solution_code")
        reason == Get(c, "unavailable_reason")
    IN  /\ Is(c, "language", "cpp") /\ Is(c, "standard", "c++17")
        /\ \/ /\ Is(c, "availability", "provided") /\ IsText(Get(c, "source_code"))
              /\ reason = Null
              /\ RequestError(Object([request.object EXCEPT !.cpp_solution =
                                         Get(c, "source_code")])) = "ok"
              /\ Is(Get(Get(v, "diagnosis"), "reference_solution"), "availability", "provided")
           \/ /\ Is(c, "availability", "unavailable") /\ Get(c, "source_code") = Null
              /\ IsText(reason) /\ reason.string # <<>>

(* The keys of the steps and findings are checked again below.             *)
Structure(v) ==
    /\ HasExactly(v, {"schema_version", "diagnosis", "solution_code"})
    /\ HasExactly(Get(v, "diagnosis"), DiagnosisKeys)
    /\ HasExactly(Get(v, "solution_code"), CodeKeys)

(* locationPaths only says where a diagnosis fails that validate-          *)
(* InteractiveDiagnosis refuses too; it normalizes the request anew.       *)
ResponseHolds(v, request, version) ==
    /\ Structure(v)
    /\ Is(v, "schema_version", version)
    /\ ValidateDiagnosis(Get(v, "diagnosis"), Canonical(request)) = "parsed"
    /\ SolutionCodeHolds(v, request)

Parse(raw, request, version) ==
    CASE raw.form = "empty" -> "empty_response"
      [] raw.form = "long" -> "schema_invalid"
      [] raw.form \in {"bytes", "text"} -> "invalid_json"
      [] raw.form = "json" ->
            IF ResponseHolds(raw.value, request, version) THEN "parsed" ELSE "schema_invalid"

(* A record, as import and the paid commands write it.                     *)
RecordOf(d, s, raw, version) ==
    LET status == Parse(raw, RequestFor(d, s), version)
    IN  [sample_id |-> s.id, expected_schema_version |-> version, parse_status |-> status,
         response |-> IF status = "parsed" THEN raw.value ELSE Null]
CallFailed(s, version) ==
    [sample_id |-> s.id, expected_schema_version |-> version,
     parse_status |-> "not_attempted", response |-> Null]

IsParsed(r) == r.parse_status = "parsed"
Diagnosed(r) == Get(r.response, "diagnosis")
IsProvided(r) ==
    IsParsed(r) /\ Is(Get(r.response, "solution_code"), "availability", "provided")
SourceOf(r) == Get(Get(r.response, "solution_code"), "source_code").string

----------------------------------------------------------------------------
(* The evidence                                                            *)

(* CRLF is LF, and one LF at the end may be missing; nothing else is.      *)
NormalizeOutput(text) ==
    LET out == Picked(text, WithoutCr(text))
    IN  IF out # <<>> /\ Last(out) = "lf" THEN Front(out) ELSE out
SameOutput(a, b) == NormalizeOutput(a) = NormalizeOutput(b)

EvidenceId(id, solution) == id \o (IF solution THEN <<"_solution">> ELSE <<>>)
ResultFor(e, key) == {r \in ToSet(e.results) : r.id = key}

(* Mutant: the runs that are there are enough.                             *)
RanAsFarAsListed(tests, problem) ==
    \A t \in ToSet(tests) : \E c \in ToSet(problem.test_cases) :
        c.id = t.test_id /\ c.input = t.input /\ c.expected_output = t.expected_output

RanAllTests(tests, problem) ==
    /\ Len(tests) = Len(problem.test_cases) /\ OnlyOnce(tests, LAMBDA t : t.test_id)
    /\ \A t \in ToSet(tests) : \E c \in ToSet(problem.test_cases) :
          c.id = t.test_id /\ c.input = t.input /\ c.expected_output = t.expected_output

ResultHolds(r, source, problem) ==
    r.source = source /\ (r.compile = "success" => RanAllTests(r.tests, problem))

(* The outcome of the last run that did not end well is the verdict,       *)
(* whatever it says; the outputs decide where there is none, and after one *)
(* whose outcome is "passed".                                              *)
AnswerVerdict(r) ==
    LET failed == {i \in DOMAIN r.tests : r.tests[i].outcome # "success"}
        last == IF failed = {} THEN 0 ELSE Max(failed)
        verdict == IF failed = {} THEN "passed" ELSE r.tests[last].outcome
        Differs(t) == ~SameOutput(t.stdout, t.expected_output)
    IN  IF r.compile # "success" THEN "compile_error"
        ELSE IF verdict = "passed" /\ \E i \in DOMAIN r.tests : i > last /\ Differs(r.tests[i])
        THEN "wrong_answer" ELSE verdict

(* The results that are looked up for a record, with the code they are of. *)
LookedUp(d, r) ==
    {[key |-> EvidenceId(r.sample_id, FALSE), source |-> SampleOf(d, r.sample_id).code]}
    \cup IF IsProvided(r) THEN {[key |-> EvidenceId(r.sample_id, TRUE), source |-> SourceOf(r)]}
         ELSE {}
EvidenceHolds(d, records, e) ==
    /\ e.dataset = d /\ OnlyOnce(e.results, LAMBDA r : r.id)
    /\ \A r \in ToSet(records) :
          /\ IsKnown(d, r.sample_id)
          /\ \A l \in LookedUp(d, r) : \A result \in ResultFor(e, l.key) :
                ResultHolds(result, l.source, ProblemOf(d, SampleOf(d, r.sample_id)))

AnswerStatus(d, r, solution, e) ==
    LET found == UNION {ResultFor(e, l.key) :
                        l \in {k \in LookedUp(d, r) : k.key = EvidenceId(r.sample_id, solution)}}
    IN  IF found = {} THEN "unverified" ELSE AnswerVerdict(CHOOSE result \in found : TRUE)

----------------------------------------------------------------------------
(* The review                                                              *)

Decisions == {"confirmed", "rejected"}
ReviewHolds(d, records, review) ==
    /\ review.status = "complete" /\ review.reviewer # <<>>
    /\ \A entry \in ToSet(review.entries) : IsKnown(d, entry.sample_id)
    /\ OnlyOnce(review.entries, LAMBDA entry : entry.sample_id)
    /\ \A r \in ToSet(records) : IsProvided(r) =>
          \E entry \in ToSet(review.entries) :
              /\ entry.sample_id = r.sample_id
              /\ {entry.diagnosis_decision, entry.solution_process_decision} \subseteq Decisions

ProcessStatus(r, review) ==
    IF review.status = "none" \/ ~IsProvided(r) THEN "unreviewed"
    ELSE IF \E entry \in ToSet(review.entries) :
                entry.sample_id = r.sample_id /\ entry.solution_process_decision = "confirmed"
    THEN "correct" ELSE "incorrect"

----------------------------------------------------------------------------
(* The report                                                              *)

(* Mutant: any finding of the gold category and lines hits.                *)
HitAnywhere(s, d) ==
    \E f \in ToSet(Get(d, "findings").array) :
        LET location == Get(f, "code_location")
        IN  /\ location # Null
            /\ Is(f, "category", s.gold.primary_category)
            /\ LineOf(location, "start_line") >= s.gold.first_error[1]
            /\ LineOf(location, "end_line") <= s.gold.first_error[2]

(* The first error's finding, of the gold category and within its lines.   *)
Hit(s, d) ==
    \E f \in ToSet(Get(d, "findings").array) :
        LET location == Get(f, "code_location")
        IN  /\ Get(f, "step_id") = Get(Get(d, "first_error"), "step_id")
            /\ location # Null
            /\ Is(f, "category", s.gold.primary_category)
            /\ LineOf(location, "start_line") >= s.gold.first_error[1]
            /\ LineOf(location, "end_line") <= s.gold.first_error[2]

(* A sample's row: r is its record, or there is none.                      *)
Row(d, s, found, e, review) ==
    LET r == CHOOSE record \in found : TRUE
        exists == found # {}
        valid == exists /\ IsParsed(r)
        predicted == IF valid THEN Get(Diagnosed(r), "status").string[1] ELSE "failed"
        answer == IF exists THEN AnswerStatus(d, r, TRUE, e) ELSE "unverified"
        process == IF exists THEN ProcessStatus(r, review) ELSE "unreviewed"
        candidate == IF exists THEN AnswerStatus(d, r, FALSE, e) ELSE "unverified"
        eligible == candidate = "wrong_answer" /\ s.gold.first_error # <<>>
        isCorrect == s.gold.process_status = "correct"
        Counts(name, holds) == IF holds THEN {name} ELSE {}
    IN  [sample_id |-> s.id, predicted_status |-> predicted,
         candidate_answer_status |-> candidate, solution_answer_status |-> answer,
         solution_process_status |-> process,
         strata |-> <<ProblemOf(d, s).split, ProblemOf(d, s).difficulty,
                      s.gold.primary_category>>,
         counted |->
             {"n"}
             \cup Counts("agreement", predicted = s.gold.process_status)
             \cup Counts("failed", ~valid)
             \cup Counts("undetermined", predicted = "undetermined")
             \cup Counts("process_correct", isCorrect)
             \cup Counts("false_positive", isCorrect /\ predicted = "incorrect")
             \cup Counts("answer_verified", answer # "unverified")
             \cup Counts("answer_passed", answer = "passed")
             \cup Counts("process_reviewed", process # "unreviewed")
             \cup Counts("process_passed", process = "correct")
             \cup Counts("location_eligible", eligible)
             \cup Counts("location_hit", /\ eligible /\ predicted = "incorrect"
                                         /\ Hit(s, Diagnosed(r)))]

RowsOf(d, records, e, review) ==
    [i \in DOMAIN d.samples |->
        Row(d, d.samples[i], {r \in ToSet(records) : r.sample_id = d.samples[i].id}, e, review)]

Counters == {"n", "agreement", "failed", "undetermined", "process_correct", "false_positive",
             "answer_verified", "answer_passed", "process_reviewed", "process_passed",
             "location_eligible", "location_hit"}
Totals(rows) == [c \in Counters |-> Cardinality({i \in DOMAIN rows : c \in rows[i].counted})]
(* One entry for each name, whichever of the three it is the name of.      *)
Strata(rows) ==
    [name \in UNION {ToSet(rows[i].strata) : i \in DOMAIN rows} |->
        [c \in Counters |-> Cardinality({x \in (DOMAIN rows) \X (1..3) :
            rows[x[1]].strata[x[2]] = name /\ c \in rows[x[1]].counted})]]

RecordsHold(d, records) ==
    /\ OnlyOnce(records, LAMBDA r : r.sample_id)
    /\ \A r \in ToSet(records) : IsKnown(d, r.sample_id)
ReportOf(d, records, e, review) ==
    LET rows == RowsOf(d, records, e, review)
    IN  [rows |-> rows, totals |-> Totals(rows), strata |-> Strata(rows)]
=============================================================================
