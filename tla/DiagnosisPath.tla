--------------------------- MODULE DiagnosisPath ---------------------------
(***************************************************************************)
(* What one exchange of InteractiveDiagnosis does with the documents: the  *)
(* checks of diagnose() on the body, the second check and the prompt of    *)
(* runInteractiveDiagnosis, and the classification of the answer.  The     *)
(* files and the flag of the exchange are in InteractiveDiagnosis; the two *)
(* meet in ParseStatusOf.                                                  *)
(***************************************************************************)
EXTENDS InteractiveDiagnosis, DiagnosisContract

CONSTANTS
    Posts,          \* bodies: [type, form, value]
    Templates,      \* prompt templates a server may have loaded
    Answers         \* what a model may answer: [form, value]

ASSUME DocumentsAssumption ==
    /\ \A p \in Posts : p.json_type \in BOOLEAN /\ p.form \in {"empty", "long", "text", "json"}
    /\ \A a \in Answers : a.form \in {"empty", "long", "bytes", "text", "json"}
    /\ \A p \in Posts \cup Answers : p.form = "json" => IsValue(p.value)

VARIABLES
    stage,          \* none, posted, accepted, asked, judged or refused
    post,           \* the body
    request,        \* the request as it is known so far, a JSON value
    answer,         \* what the model answered
    verdict         \* the error code of a refusal, or the parse_status

path == <<stage, post, request, answer, verdict>>
NoDocument == [form |-> "none", value |-> Null]

PathInit ==
    /\ stage = "none" /\ verdict = "none"
    /\ post = NoDocument /\ request = Null /\ answer = NoDocument

Arrive(p) ==
    /\ stage = "none"
    /\ stage' = "posted" /\ post' = p
    /\ UNCHANGED <<request, answer, verdict>>

Refuse(code) ==
    stage' = "refused" /\ verdict' = code /\ UNCHANGED <<post, request, answer>>

(* diagnose(): content type, size, JSON, then the schema of the request.   *)
BodyError(p) ==
    CASE ~p.json_type -> "E_HTTP_CONTENT_TYPE"
      [] p.json_type /\ p.form \in {"empty", "long"} -> "E_HTTP_BODY_SIZE"
      [] p.json_type /\ p.form = "text" -> "E_HTTP_JSON_PARSE"
      [] p.json_type /\ p.form = "json" -> RequestError(p.value)

Check ==
    /\ stage = "posted"
    /\ IF BodyError(post) # "ok" THEN Refuse(BodyError(post))
       ELSE /\ stage' = "accepted" /\ request' = Canonical(post.value)
            /\ UNCHANGED <<post, answer, verdict>>

(* runInteractiveDiagnosis parses what it was given once more, and goes on *)
(* with that.                                                              *)
Prepare(template) ==
    /\ stage = "accepted"
    /\ IF PromptError(template, request) # "ok" THEN Refuse(PromptError(template, request))
       ELSE /\ stage' = "asked" /\ request' = Canonical(request)
            /\ UNCHANGED <<post, answer, verdict>>

Judge(a) ==
    /\ stage = "asked"
    /\ stage' = "judged" /\ answer' = a /\ verdict' = ParseStatus(a, request)
    /\ UNCHANGED <<post, request>>

PathNext ==
    \/ \E p \in Posts : Arrive(p)
    \/ Check
    \/ \E t \in Templates : Prepare(t)
    \/ \E a \in Answers : Judge(a)

(* A document takes its way before the exchanges of the disk begin.        *)
DocumentsInit == Init /\ PathInit
DocumentsNext ==
    \/ stage = "none" /\ Next /\ UNCHANGED path
    \/ /\ \A x \in Exchanges : pc[x] = "unborn"
       /\ faults = 0
       /\ PathNext /\ UNCHANGED vars
DocumentsSpec == DocumentsInit /\ [][DocumentsNext]_<<vars, path>>

----------------------------------------------------------------------------
(* Properties                                                              *)

LineFeeds(text) == Cardinality({i \in DOMAIN text : text[i] = "lf"})

(* Whole lines of the text, counted from 1.                                *)
Stands(location, text) ==
    LET snippet == Get(location, "snippet").string
        first == LineOf(location, "start_line")
        last == LineOf(location, "end_line")
    IN  \E p \in 0..(Len(text) - Len(snippet)) :
            LET before == SubSeq(text, 1, p)
                after == SubSeq(text, p + Len(snippet) + 1, Len(text))
            IN  /\ text = before \o snippet \o after
                /\ before = <<>> \/ Last(before) = "lf"
                /\ after = <<>> \/ Head(after) = "lf"
                /\ LineFeeds(before) = first - 1
                /\ LineFeeds(snippet) = last - first

IsGrounded(d, asked) ==
    LET code == Get(asked, "cpp_solution").string
        steps == Get(d, "steps").array
        findings == ToSet(Get(d, "findings").array)
        Location(o) == Get(o, "code_location")
        StepsOf(f) == {i \in DOMAIN steps : Get(steps[i], "id") = Get(f, "step_id")}
        Source(f) == Get(Get(f, "input_evidence"), "source").string[1]
        Excerpt(f) == Get(Get(f, "input_evidence"), "excerpt").string
        first == Get(Get(d, "first_error"), "step_id")
    IN  /\ Get(d, "request_id") = Get(asked, "request_id")
        /\ \A s \in ToSet(steps) : Stands(Location(s), code)
        /\ \A f \in findings :
              /\ Location(f) # Null =>
                    /\ Stands(Location(f), code)
                    /\ \E i \in StepsOf(f) : Within(Location(f), Location(steps[i]))
              /\ IsText(Get(asked, Source(f)))
              /\ Quotes(Get(asked, Source(f)).string, Excerpt(f))
              /\ AboutReasoning(f) => Source(f) = "reasoning"
        /\ Is(d, "status", "incorrect") <=> findings # {}
        /\ Get(d, "primary_category") # Null <=> findings # {}
        /\ first # Null =>
              /\ \E f \in findings : Get(f, "step_id") = first
              /\ \A f \in findings : \E i \in StepsOf(f) :
                    \E j \in 1..i : Get(steps[j], "id") = first
        /\ Is(Get(d, "counterexample"), "availability", "provided") => findings # {}

(* What is shown as a diagnosis is about this request: every location is   *)
(* whole lines of the code as the model saw it, every finding lies within  *)
(* its step and quotes an input that was given, a finding about the        *)
(* reasoning quotes the reasoning, and the status, the first error and the *)
(* counterexample claim no more than the findings (the doc's rule that     *)
(* model output is shown only after strict validation; tests/              *)
(* test_interactive_diagnosis.cpp has single cases).                       *)
DiagnosisIsGrounded ==
    (stage = "judged" /\ verdict = "parsed") => IsGrounded(answer.value, request)
=============================================================================
