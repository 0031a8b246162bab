-------------------------- MODULE PromptProjection --------------------------
(***************************************************************************)
(* From a problem file and one of its traces to the text of a prompt:      *)
(* projectTraceInput, auditStructuralLeakage, extractTemplateBody and      *)
(* renderPrompt.  A text is a sequence of pieces: a hole (a placeholder),  *)
(* a serialized section, or other text.                                    *)
(***************************************************************************)
EXTENDS JsonDocument, SequencesExt

CONSTANTS
    SafeIds,        \* the strings that isSafeId lets through
    Mentioning      \* strings that contain placeholders |-> which ones

ForbiddenKeys == {"diagnoses", "review_status", "reviewer", "reviewed_at",
                  "trace_origin", "generator_model", "annotator"}

(* The allowlists.                                                         *)
ProblemKeys == {"id", "source", "title", "statement", "constraints", "algorithm_type",
                "reference_tags"}
ReferenceKeys == {"expected_choice", "expected_proof", "expected_complexity",
                  "expected_boundaries", "common_wrong_strategy_counterexample"}
(* Mutant: the notes are copied too.                                       *)
TestKeysAndNotes == {"id", "input", "expected_output", "origin", "purpose", "notes"}
TestKeys == {"id", "input", "expected_output", "origin", "purpose"}
TraceKeys == {"id", "problem_id", "author", "steps", "intended_outcome"}
SolutionKeys == {"id", "trace_id", "language", "standard", "source_code", "execution_status"}

(* Sections, in the order in which they are filled in.                     *)
Sections == <<"problem", "reference_verdict", "test_cases", "reasoning_trace",
              "candidate_solution">>

ASSUME MentioningAssumption ==
    \A text \in DOMAIN Mentioning : Mentioning[text] \subseteq ToSet(Sections)
ASSUME SafeIdsAssumption == "" \notin SafeIds

----------------------------------------------------------------------------
SubObject(doc, key) ==
    IF HasType(doc, key, {"object"}) THEN Get(doc, key) ELSE Object(<<>>)

(* The first solution of the same file that names the trace.               *)
Candidate(doc, trace) ==
    LET solutions == ItemsOf(doc, "candidate_solutions")
        own == {i \in DOMAIN solutions : /\ HasType(solutions[i], "trace_id", {"string"})
                                         /\ TextOf(solutions[i], "trace_id") = TextOf(trace, "id")}
    IN  IF own = {} THEN Null ELSE Project(solutions[Min(own)], SolutionKeys)

ProjectTraceInput(doc, trace) ==
    LET verdict == SubObject(doc, "reference_verdict")
        tests == ItemsOf(doc, "test_cases")
        problem == IF HasType(doc, "problem", {"object"}) THEN Get(doc, "problem") ELSE doc
    IN  Object(
        [problem |-> Project(problem, ProblemKeys),
         reference_verdict |->
             Copied(Kept(verdict, ReferenceKeys) @@ Kept(doc, ReferenceKeys)),
         test_cases |-> Array([i \in DOMAIN tests |-> Project(tests[i], TestKeys)]),
         reasoning_trace |-> Project(trace, TraceKeys),
         candidate_solution |-> Candidate(doc, trace)])

LeaksStructurally(payload) ==
    \E v \in {payload} \cup Parts(payload) : KeysWithin(v) \cap ForbiddenKeys # {}

----------------------------------------------------------------------------
(* A template is what its bytes decode to, and its lines: the two markers  *)
(* count where they are a whole line.                                      *)
Hole(s) == [hole |-> s]
Words == [words |-> TRUE]
Begin == [marker |-> "begin"]
End == [marker |-> "end"]
Encodings == {"utf8", "E_UTF8_INVALID", "E_EMBEDDED_NUL"}
Lines == {Words, Begin, End} \cup {Hole(s) : s \in ToSet(Sections)}

Positions(lines, marker) == {i \in DOMAIN lines : lines[i] = marker}
HasBody(lines) ==
    \E b, e \in DOMAIN lines : /\ Positions(lines, Begin) = {b}
                               /\ Positions(lines, End) = {e}
                               /\ b < e
BodyOf(lines) ==
    SubSeq(lines, SelectInSeq(lines, LAMBDA l : l = Begin) + 1,
                  SelectInSeq(lines, LAMBDA l : l = End) - 1)

TemplateError(template) ==
    IF template.encoding # "utf8" THEN template.encoding
    ELSE IF ~HasBody(template.lines) THEN "E_TEMPLATE_MARKER" ELSE "ok"

----------------------------------------------------------------------------
(* A serialized section carries the placeholders that its strings mention. *)
StringsWithin(v) == {u.string : u \in {w \in Values(v) : DOMAIN w = {"string"}}}
Mentioned(v) ==
    UNION {Mentioning[t] : t \in IF IsContainer(v) THEN StringsWithin(v) \cap DOMAIN Mentioning
                                 ELSE {}}
Serialized(v) == <<[json |-> v]>> \o SetToSeq({Hole(s) : s \in Mentioned(v)})

HoleAt(text, s) == SelectInSeq(text, LAMBDA piece : piece = Hole(s))
ReplaceOnce(text, s, value) ==
    LET i == HoleAt(text, s)
    IN  IF i = 0 THEN text
        ELSE SubSeq(text, 1, i - 1) \o Serialized(value) \o SubSeq(text, i + 1, Len(text))

HasEachHoleOnce(body) ==
    \A s \in ToSet(Sections) : Cardinality(Positions(body, Hole(s))) = 1
Residual(text) == \E s \in ToSet(Sections) : Hole(s) \in ToSet(text)

Filled(body, payload) ==
    LET Fill(text, n) == ReplaceOnce(text, Sections[n], payload.object[Sections[n]])
    IN  Fill(Fill(Fill(Fill(Fill(body, 1), 2), 3), 4), 5)

(* Mutant: what is left after the substitution is not looked at.           *)
RenderErrorBefore(body, payload) ==
    IF HasEachHoleOnce(body) THEN "ok" ELSE "E_TEMPLATE_PLACEHOLDER"

RenderError(body, payload) ==
    IF HasEachHoleOnce(body) /\ ~Residual(Filled(body, payload)) THEN "ok"
    ELSE "E_TEMPLATE_PLACEHOLDER"
=============================================================================
