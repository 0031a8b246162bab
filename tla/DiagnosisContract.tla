-------------------------- MODULE DiagnosisContract --------------------------
(***************************************************************************)
(* The strict contract of the demo: which requests are let through, in     *)
(* what form they reach the model, and which answers are a diagnosis       *)
(* (parseInteractiveDiagnosisRequest, validateDiagnosis).  A text is a     *)
(* sequence of symbols; line ends, NUL and the byte order mark are symbols *)
(* of their own.  A constant of the code is a text of one symbol.  The     *)
(* limits of validateDiagnosis on the length of its texts are one limit.   *)
(***************************************************************************)
EXTENDS JsonDocument, FiniteSetsExt, SequencesExt

CONSTANTS
    SafeSymbols,    \* symbols an identifier may have
    Limit           \* the limits of interactive_limits and validateDiagnosis, by name

Spaces == {"lf", "cr", "space", "bom"}
DiagnosisCategories ==
    {"problem_misunderstanding", "wrong_greedy_choice", "invalid_greedy_proof",
     "complexity_error", "boundary_omission", "implementation_mismatch", "code_logic_error"}
ReasoningOnly == {"implementation_mismatch", "invalid_greedy_proof"}

Word(w) == Text(<<w>>)
IsText(v) == DOMAIN v = {"string"}
IsWhole(v) == DOMAIN v = {"integer"}
IsArray(v) == DOMAIN v = {"array"}
Read(o, k) == IF Has(o, k) THEN Get(o, k) ELSE Null
Is(o, k, w) == Read(o, k) = Word(w)
HasExactly(o, keys) == IsObject(o) /\ DOMAIN o.object = keys

Blank(text) == ToSet(text) \subseteq Spaces

(* A JSON value as it is parsed: its texts and arrays are sequences.       *)
IsValue(v) ==
    \A u \in Values(v) : /\ IsText(u) => IsSequence(u.string)
                         /\ IsWhole(u) => u.integer \in Int
                         /\ IsArray(u) => IsSequence(u.array)

(* The n-th of some positions, and what a text has at them, in order.      *)
Nth(S, n) == CHOOSE p \in S : Cardinality({q \in S : q <= p}) = n
Picked(text, S) == [n \in 1..Cardinality(S) |-> text[Nth(S, n)]]

(* All but the CR of each CRLF.                                            *)
WithoutCr(text) ==
    {i \in DOMAIN text : ~(text[i] = "cr" /\ i < Len(text) /\ text[i + 1] = "lf")}

(* normalizeUtf8 of what is UTF-8 without NUL: the byte order mark goes,   *)
(* CRLF and CR become LF.                                                  *)
Normalized(text) ==
    LET t == IF text # <<>> /\ Head(text) = "bom" THEN Tail(text) ELSE text
        kept == Picked(t, WithoutCr(t))
    IN  [n \in DOMAIN kept |-> IF kept[n] = "cr" THEN "lf" ELSE kept[n]]

----------------------------------------------------------------------------
(* The request                                                             *)

RequiredKeys ==
    {"schema_version", "request_id", "algorithm_type", "problem_statement", "cpp_solution"}
OptionalKeys == {"reasoning", "user_notes"}
RequestKeys == RequiredKeys \cup OptionalKeys \cup {"test_cases"}

FieldOk(v, limit, required) ==
    /\ IsText(v) /\ "nul" \notin ToSet(v.string)
    /\ Len(Normalized(v.string)) <= limit
    /\ required => ~Blank(Normalized(v.string))

SafeRequestId(id) ==
    /\ ToSet(id) \subseteq SafeSymbols /\ Len(id) \in 1..Limit.request_id
    /\ id \notin {<<".">>, <<".", ".">>}

TestCaseOk(t) ==
    /\ HasExactly(t, {"input", "expected_output"})
    /\ \A k \in DOMAIN t.object : FieldOk(Get(t, k), Limit.test_text, FALSE)
TestCases(input) ==
    IF Read(input, "test_cases") = Null THEN <<>> ELSE Get(input, "test_cases").array

RequestError(input) ==
    IF ~IsObject(input) THEN "E_REQUEST_SCHEMA"
    ELSE IF \/ ~(RequiredKeys \subseteq DOMAIN input.object)
            \/ ~(DOMAIN input.object \subseteq RequestKeys)
            \/ ~Is(input, "schema_version", "interactive-request-v2") THEN "E_REQUEST_SCHEMA"
    ELSE IF /\ \A k \in {"request_id", "algorithm_type", "problem_statement", "cpp_solution"} :
                  FieldOk(Get(input, k), Limit[k], TRUE)
            /\ SafeRequestId(Normalized(Get(input, "request_id").string))
            /\ Normalized(Get(input, "algorithm_type").string) = <<"greedy">>
            /\ \A k \in OptionalKeys :
                  Read(input, k) = Null \/ FieldOk(Get(input, k), Limit[k], FALSE)
            /\ Read(input, "test_cases") = Null \/ IsArray(Get(input, "test_cases"))
            /\ Len(TestCases(input)) <= Limit.test_cases
            /\ \A t \in ToSet(TestCases(input)) : TestCaseOk(t)
         THEN "ok" ELSE "E_REQUEST_INVALID"

(* requestJson of what was parsed: every key is there, a missing or blank  *)
(* optional field is null.                                                 *)
Canonical(input) ==
    LET Field(v) == Text(Normalized(v.string))
        Given(k) == Read(input, k) # Null /\ ~Blank(Normalized(Get(input, k).string))
        tests == TestCases(input)
        TestCase(t) == Object([k \in DOMAIN t.object |-> Field(Get(t, k))])
    IN  Object([k \in RequestKeys |->
            IF k = "test_cases" THEN Array([i \in DOMAIN tests |-> TestCase(tests[i])])
            ELSE IF k \in RequiredKeys \/ Given(k) THEN Field(Get(input, k)) ELSE Null])

(* The template's header and marker, and the size of the prompt; escapes   *)
(* and punctuation of the dump are left out.                               *)
ValidTemplate(template) == template.text /\ template.header /\ template.markers = 1
SizeOf(request) ==
    LET tests == Get(request, "test_cases").array
        Texts(o) == {k \in DOMAIN o.object : IsText(Get(o, k))}
        Sum(o) == MapThenSumSet(LAMBDA k : Len(Get(o, k).string), Texts(o))
    IN  Sum(request) + MapThenSumSet(LAMBDA i : Sum(tests[i]), DOMAIN tests)

PromptError(template, request) ==
    IF RequestError(request) # "ok" THEN "E_REQUEST_INVALID"
    ELSE IF ~ValidTemplate(template) THEN "E_TEMPLATE_INVALID"
    ELSE IF template.size + SizeOf(Canonical(request)) > Limit.rendered_prompt
         THEN "E_REQUEST_INVALID" ELSE "ok"

----------------------------------------------------------------------------
(* The answer                                                              *)

Bounded(v, limit) ==
    IsText(v) /\ Len(v.string) <= limit /\ ~Blank(v.string) /\ {"nul", "cr"} \cap ToSet(v.string) = {}
BoundedOrBlank(v, limit) ==
    IsText(v) /\ Len(v.string) <= limit /\ {"nul", "cr"} \cap ToSet(v.string) = {}
ValidId(v) == Bounded(v, Limit.id) /\ ToSet(v.string) \subseteq SafeSymbols \ {"."}

(* A line starts at the beginning and after each LF but the last symbol.   *)
Line(text, start) ==
    LET ends == {i \in start..Len(text) : text[i] = "lf"}
    IN  SubSeq(text, start, IF ends = {} THEN Len(text) ELSE Min(ends) - 1)

(* Mutant: an empty line is no line.                                       *)
FullLines(text) ==
    LET starts == {p \in 1..Len(text) : (p = 1 \/ text[p - 1] = "lf") /\ text[p] # "lf"}
    IN  [n \in 1..Cardinality(starts) |-> Line(text, Nth(starts, n))]

SourceLines(text) ==
    LET starts == {p \in 1..Len(text) : p = 1 \/ text[p - 1] = "lf"}
    IN  [n \in 1..Cardinality(starts) |-> Line(text, Nth(starts, n))]

Joined(lines, first, last) ==
    LET UpTo[n \in first..last] ==
            IF n = first THEN lines[n] ELSE UpTo[n - 1] \o <<"lf">> \o lines[n]
    IN  UpTo[last]

ValidLocation(location, lines) ==
    /\ HasExactly(location, {"start_line", "end_line", "snippet"})
    /\ IsWhole(Get(location, "start_line")) /\ IsWhole(Get(location, "end_line"))
    /\ Bounded(Get(location, "snippet"), Limit.cpp_solution)
    /\ LET first == Get(location, "start_line").integer
           last == Get(location, "end_line").integer
       IN  /\ 1 <= first /\ first <= last /\ last <= Len(lines)
           /\ Get(location, "snippet").string = Joined(lines, first, last)

(* The two verdicts of validateDiagnosis on what it refuses.               *)
Schema == "schema_invalid"
Semantic == "semantic_invalid"
FirstFault(verdicts) ==
    LET i == SelectInSeq(verdicts, LAMBDA v : v # "parsed")
    IN  IF i = 0 THEN "parsed" ELSE verdicts[i]

StepVerdict(steps, i, lines) ==
    IF ~(/\ HasExactly(steps[i], {"id", "summary", "code_location"})
         /\ ValidId(Get(steps[i], "id")) /\ Bounded(Get(steps[i], "summary"), Limit.text))
    THEN Schema
    ELSE IF \/ \E j \in 1..(i - 1) : Read(steps[j], "id") = Get(steps[i], "id")
            \/ ~ValidLocation(Get(steps[i], "code_location"), lines)
    THEN Semantic ELSE "parsed"

StepOf(d, id) == SelectInSeq(Get(d, "steps").array, LAMBDA s : Get(s, "id") = id)
LineOf(location, end) == Get(location, end).integer
Within(inner, outer) ==
    /\ LineOf(inner, "start_line") >= LineOf(outer, "start_line")
    /\ LineOf(inner, "end_line") <= LineOf(outer, "end_line")
Quotes(text, part) ==
    \E p \in 0..(Len(text) - Len(part)) : SubSeq(text, p + 1, p + Len(part)) = part

(* What an excerpt may be from: a field that was given, or the lines the   *)
(* finding is about.                                                       *)
SourceText(request, f) ==
    LET source == Get(Get(f, "input_evidence"), "source")
    IN  IF source \in {Word("problem_statement"), Word("reasoning"), Word("user_notes")}
        THEN Get(request, source.string[1])
        ELSE IF source = Word("cpp_solution") /\ Get(f, "code_location") # Null
        THEN Get(Get(f, "code_location"), "snippet") ELSE Null

FindingKeys == {"id", "step_id", "category", "reason", "input_evidence", "code_location",
                "location_reason", "suggestion"}
FindingShape(f) ==
    /\ HasExactly(f, FindingKeys) /\ ValidId(Get(f, "id"))
    /\ Bounded(Get(f, "category"), Limit.id)
    /\ \A k \in {"reason", "suggestion"} : Bounded(Get(f, k), Limit.text)
AboutReasoning(f) == \E c \in ReasoningOnly : Is(f, "category", c)
Placed(f, lines) ==
    IF Get(f, "code_location") = Null
    THEN Get(f, "step_id") = Null /\ Bounded(Get(f, "location_reason"), Limit.text)
    ELSE /\ ValidLocation(Get(f, "code_location"), lines)
         /\ Get(f, "location_reason") = Null /\ Get(f, "step_id") # Null
Evident(f, request) ==
    LET evidence == Get(f, "input_evidence")
    IN  /\ SourceText(request, f) # Null
        /\ Quotes(SourceText(request, f).string, Get(evidence, "excerpt").string)
        /\ AboutReasoning(f) => Is(evidence, "source", "reasoning")

FindingVerdict(d, i, request, lines) ==
    LET findings == Get(d, "findings").array
        f == findings[i]
        step == StepOf(d, Get(f, "step_id"))
        Evidence == Get(f, "input_evidence")
    IN  IF ~FindingShape(f) THEN Schema
        ELSE IF ~(/\ \A j \in 1..(i - 1) : Read(findings[j], "id") # Get(f, "id")
                  /\ \E c \in DiagnosisCategories : Is(f, "category", c)
                  /\ AboutReasoning(f) => Get(request, "reasoning") # Null
                  /\ Placed(f, lines)) THEN Semantic
        ELSE IF Get(f, "step_id") # Null /\ ~ValidId(Get(f, "step_id")) THEN Schema
        ELSE IF /\ Get(f, "step_id") # Null
                /\ step = 0 \/ ~Within(Get(f, "code_location"),
                                       Get(Get(d, "steps").array[step], "code_location"))
        THEN Semantic
        ELSE IF ~(/\ HasExactly(Evidence, {"source", "excerpt"})
                  /\ Bounded(Get(Evidence, "source"), Limit.id)
                  /\ Bounded(Get(Evidence, "excerpt"), Limit.text)) THEN Schema
        ELSE IF ~Evident(f, request) THEN Semantic ELSE "parsed"

(* The first error is the earliest step that a finding names, and claimed  *)
(* only where every finding names one.                                     *)
FirstErrorHolds(d) ==
    LET named == {Get(f, "step_id") : f \in ToSet(Get(d, "findings").array)}
        first == Get(Get(d, "first_error"), "step_id")
    IN  first # Null => /\ Null \notin named
                        /\ StepOf(d, first) # 0
                        /\ StepOf(d, first) = Min({StepOf(d, s) : s \in named})

StatusHolds(d) ==
    LET categories == {Get(f, "category") : f \in ToSet(Get(d, "findings").array)}
    IN  IF Is(d, "status", "incorrect")
        THEN Get(d, "primary_category") \in categories /\ FirstErrorHolds(d)
        ELSE /\ Get(d, "primary_category") = Null /\ categories = {}
             /\ Get(Get(d, "first_error"), "step_id") = Null

OutputKeys == {"predicted_candidate_output", "candidate_output_basis"}
CounterexampleHolds(d) ==
    LET c == Get(d, "counterexample")
        predicted == Get(c, "predicted_candidate_output")
    IN  \/ /\ Is(c, "availability", "provided") /\ Is(d, "status", "incorrect")
           /\ \A k \in {"input", "expected_output"} : BoundedOrBlank(Get(c, k), Limit.text)
           /\ IF predicted = Null THEN Get(c, "candidate_output_basis") = Null
              ELSE /\ BoundedOrBlank(predicted, Limit.text)
                   /\ Is(c, "candidate_output_basis", "static_inference")
        \/ /\ Is(c, "availability", "unavailable")
           /\ \A k \in {"input", "expected_output"} \cup OutputKeys : Get(c, k) = Null

SolutionParts == {"strategy", "correctness", "complexity", "boundaries"}
SolutionVerdict(d) ==
    LET s == Get(d, "reference_solution")
    IN  IF Is(s, "availability", "provided")
        THEN IF Is(d, "status", "undetermined") \/ Get(s, "unavailable_reason") # Null
             THEN Semantic
             ELSE IF \A k \in SolutionParts : Bounded(Get(s, k), Limit.text)
             THEN "parsed" ELSE Schema
        ELSE IF /\ Is(s, "availability", "unavailable")
                /\ Bounded(Get(s, "unavailable_reason"), Limit.text)
                /\ \A k \in SolutionParts : Get(s, k) = Null
        THEN "parsed" ELSE Semantic

----------------------------------------------------------------------------
DiagnosisKeys ==
    {"schema_version", "request_id", "status", "summary", "limitations", "algorithm_overview",
     "steps", "first_error", "primary_category", "findings", "counterexample",
     "reference_solution"}
IdentityHolds(d, request) ==
    /\ HasExactly(d, DiagnosisKeys)
    /\ Is(d, "schema_version", "interactive-diagnosis-v2")
    /\ Get(d, "request_id") = Get(request, "request_id")
    /\ IsText(Get(d, "status")) /\ Bounded(Get(d, "summary"), Limit.text)
OverviewHolds(d) ==
    LET limitations == Get(d, "limitations")
        overview == Get(d, "algorithm_overview")
        steps == Get(d, "steps")
    IN  /\ IsArray(limitations) /\ Len(limitations.array) \in 1..Limit.limitations
        /\ \A item \in ToSet(limitations.array) : Bounded(item, Limit.text)
        /\ HasExactly(overview, {"origin", "summary"})
        /\ Is(overview, "origin", "model_code_interpretation")
        /\ Bounded(Get(overview, "summary"), Limit.text)
        /\ IsArray(steps) /\ Len(steps.array) <= Limit.steps
        /\ Is(d, "status", "undetermined") \/ steps.array # <<>>
FirstErrorShape(d) ==
    LET first == Get(d, "first_error")
    IN  /\ HasExactly(first, {"step_id", "explanation"})
        /\ Get(first, "step_id") = Null \/ ValidId(Get(first, "step_id"))
        /\ Bounded(Get(first, "explanation"), Limit.text)
ProposalShape(o, keys, provenance) ==
    HasExactly(o, keys \cup {"availability", "provenance"}) /\ Is(o, "provenance", provenance)

ValidateDiagnosis(d, request) ==
    LET lines == SourceLines(Get(request, "cpp_solution").string)
        steps == Get(d, "steps").array
        primary == Get(d, "primary_category")
        findings == Get(d, "findings")
        StepsVerdict == FirstFault([i \in DOMAIN steps |-> StepVerdict(steps, i, lines)])
        FindingsVerdict ==
            FirstFault([i \in DOMAIN findings.array |-> FindingVerdict(d, i, request, lines)])
    IN  IF ~IdentityHolds(d, request) THEN Schema
        ELSE IF \A s \in {"correct", "incorrect", "undetermined"} : ~Is(d, "status", s)
        THEN Semantic
        ELSE IF ~OverviewHolds(d) THEN Schema
        ELSE IF StepsVerdict # "parsed" THEN StepsVerdict
        ELSE IF ~FirstErrorShape(d) THEN Schema
        ELSE IF IsText(primary) /\ \A c \in DiagnosisCategories : primary # Word(c) THEN Semantic
        ELSE IF ~IsText(primary) /\ primary # Null THEN Schema
        ELSE IF ~IsArray(findings) \/ Len(ItemsOf(d, "findings")) > Limit.findings THEN Schema
        ELSE IF FindingsVerdict # "parsed" THEN FindingsVerdict
        ELSE IF ~StatusHolds(d) THEN Semantic
        ELSE IF \/ ~ProposalShape(Get(d, "counterexample"),
                       {"input", "expected_output", "explanation"} \cup OutputKeys,
                       "model_proposed_not_executed")
                \/ ~Bounded(Get(Get(d, "counterexample"), "explanation"), Limit.text) THEN Schema
        ELSE IF ~CounterexampleHolds(d) THEN Semantic
        ELSE IF ~ProposalShape(Get(d, "reference_solution"),
                               SolutionParts \cup {"unavailable_reason"},
                               "model_generated_unverified") THEN Schema
        ELSE SolutionVerdict(d)

(* The bytes of an answer: none, too many, no UTF-8, no JSON, or a value.  *)
ParseStatus(answer, request) ==
    CASE answer.form = "empty" -> "empty_response"
      [] answer.form = "long" -> "schema_invalid"
      [] answer.form = "bytes" -> "invalid_utf8"
      [] answer.form = "text" -> "invalid_json"
      [] answer.form = "json" -> ValidateDiagnosis(answer.value, request)
=============================================================================
