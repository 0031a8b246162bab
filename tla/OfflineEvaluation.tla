-------------------------- MODULE OfflineEvaluation --------------------------
(***************************************************************************)
(* hy3_evaluate without its paid calls: responses are imported as records, *)
(* records are put into a bundle, and a report is made of a bundle, of the *)
(* evidence of executed code and of a review.  Every output is a new file, *)
(* and a command that refuses writes none.  The responses are the answers  *)
(* of DiagnosisPath with the solution's code beside the diagnosis.         *)
(***************************************************************************)
EXTENDS DiagnosisPath, EvaluationRules

CONSTANTS
    EvaluationSets, \* data sets a command may be given
    Raw,            \* raw responses: [form, value]
    EvidenceFor,    \* the evidence files there may be for a data set
    ReviewsFor,     \* the reviews there may be for a data set
    MaxRecords,     \* bound on the records of a bundle
    FormalPerDifficulty, FormalCategories \* what a frozen data set must cover

(* Texts are sequences, and responses JSON values.                         *)
ASSUME EvaluationAssumption ==
    /\ MaxRecords \in Nat /\ FormalPerDifficulty \in Nat
    /\ \A d \in EvaluationSets :
          /\ IsSequence(d.samples) /\ IsSequence(d.problems)
          /\ \A p \in ToSet(d.problems) : IsSequence(p.test_cases)
          /\ \A s \in ToSet(d.samples) : IsSequence(s.id) /\ IsSequence(s.code)
    /\ \A r \in Raw : /\ r.form \in {"empty", "long", "bytes", "text", "json"}
                      /\ r.form = "json" => \A u \in Values(r.value) : IsValue(u)
    /\ \A d \in EvaluationSets : ValidateDataset(d) =>
          \A e \in EvidenceFor[d] : \A r \in ToSet(e.results) : IsSequence(r.tests)

VARIABLES
    dataset,        \* the data set that was validated, or NoDataset
    bundle,         \* the records of the bundle, in order
    report          \* what the last command reported, of what; or NoReport

evaluation == <<dataset, bundle, report>>
NoDataset == [problems |-> <<>>, samples |-> <<>>]
NoEvidence(d) == [dataset |-> d, results |-> <<>>]
NoReview == [status |-> "none", reviewer |-> <<>>, entries |-> <<>>]
NoReport == [made |-> FALSE]

EvaluationInit == dataset = NoDataset /\ bundle = <<>> /\ report = NoReport

OpenDataset(d) ==
    /\ dataset = NoDataset /\ ValidateDataset(d)
    /\ dataset' = d
    /\ UNCHANGED <<bundle, report>>

AddRecord(r) ==
    /\ report = NoReport /\ Len(bundle) < MaxRecords
    /\ bundle' = Append(bundle, r)
    /\ UNCHANGED <<dataset, report>>
Import(s, response, version) ==
    AddRecord(RecordOf(dataset, s, response, version))
CallWithoutAnswer(s, version) == AddRecord(CallFailed(s, version))

(* The records of one version, replayed, without a status of their own.    *)
Replays(r) ==
    IsParsed(r) =>
        Parse([form |-> "json", value |-> r.response],
              RequestFor(dataset, SampleOf(dataset, r.sample_id)),
              r.expected_schema_version) = "parsed"
OfOneVersion(version) == \A r \in ToSet(bundle) : r.expected_schema_version = version

Publish(command, version, e, review) ==
    /\ EvidenceHolds(dataset, bundle, e) /\ RecordsHold(dataset, bundle)
    /\ report' = [made |-> TRUE, command |-> command, version |-> version, evidence |-> e,
                  review |-> review, summary |-> ReportOf(dataset, bundle, e, review)]
    /\ UNCHANGED <<dataset, bundle>>

ReportCommand(version, e) ==
    /\ report = NoReport
    /\ OfOneVersion(version) /\ \A r \in ToSet(bundle) : Replays(r)
    /\ Publish("report", version, e, NoReview)

(* What a frozen experiment asks of its data set: in the code three        *)
(* samples of each difficulty, and five categories.                        *)
ValidateFormalIdentity(d) ==
    /\ \A p \in ToSet(d.problems) : p.split = "holdout"
    /\ \A difficulty \in Difficulties :
          Cardinality({i \in DOMAIN d.samples :
                          ProblemOf(d, d.samples[i]).difficulty = difficulty})
              >= FormalPerDifficulty
    /\ {s.gold.process_status : s \in ToSet(d.samples)} = {"correct", "incorrect"}
    /\ FormalCategories \subseteq {s.gold.primary_category : s \in ToSet(d.samples)}

(* formal-bundle takes the record of every sample, in their order.         *)
FormalBundle ==
    /\ [i \in DOMAIN bundle |-> bundle[i].sample_id]
           = [i \in DOMAIN dataset.samples |-> dataset.samples[i].id]
    /\ OfOneVersion("greedy-evaluation-v2") /\ \A r \in ToSet(bundle) : Replays(r)

(* The candidates' evidence must be complete (formalAnswerEvidence); that  *)
(* of the solutions and the review may be left out.                        *)
FormalReport(e, review) ==
    /\ report = NoReport
    /\ ValidateFormalIdentity(dataset) /\ FormalBundle
    /\ \A s \in ToSet(dataset.samples) : ResultFor(e, s.id) # {}
    /\ review # NoReview => ReviewHolds(dataset, bundle, review)
    /\ Publish("formal-report", "greedy-evaluation-v2", e, review)

OfflineNext ==
    \/ \E d \in EvaluationSets : OpenDataset(d)
    \/ \E s \in ToSet(dataset.samples), version \in Versions :
          \/ \E response \in Raw : Import(s, response, version)
          \/ CallWithoutAnswer(s, version)
    \/ /\ dataset # NoDataset
       /\ \E e \in EvidenceFor[dataset] :
             \/ \E version \in Versions : ReportCommand(version, e)
             \/ \E review \in ReviewsFor[dataset] : FormalReport(e, review)

(* The evaluation takes its way while the demo rests.                      *)
EvaluationsInit == DocumentsInit /\ EvaluationInit
EvaluationsNext ==
    \/ dataset = NoDataset /\ DocumentsNext /\ UNCHANGED evaluation
    \/ /\ stage = "none" /\ faults = 0 /\ \A x \in Exchanges : pc[x] = "unborn"
       /\ OfflineNext /\ UNCHANGED <<vars, path>>
EvaluationsSpec == EvaluationsInit /\ [][EvaluationsNext]_<<vars, path, evaluation>>

----------------------------------------------------------------------------
(* Properties                                                              *)

RecordsFor(s) == {r \in ToSet(bundle) : r.sample_id = s.id}
Provides(s) == \E r \in RecordsFor(s) : IsProvided(r)

(* Every test of the sample's own problem was run with this code.          *)
RunsOf(key, source) ==
    {r \in ToSet(report.evidence.results) : r.id = key /\ r.source = source /\ r.compile = "success"}
Solved(s, key, source) ==
    \E r \in RunsOf(key, source) : \A c \in ToSet(ProblemOf(dataset, s).test_cases) :
        \E t \in ToSet(r.tests) :
            /\ <<t.test_id, t.input, t.outcome>> = <<c.id, c.input, "success">>
            /\ SameOutput(t.stdout, c.expected_output)
Confirmed(s) ==
    \E entry \in ToSet(report.review.entries) :
        entry.sample_id = s.id /\ entry.solution_process_decision = "confirmed"

(* A run that did not succeed has the verdict for its outcome.             *)
Claims(outcome) ==
    \E r \in ToSet(report.evidence.results) : \E t \in ToSet(r.tests) : t.outcome = outcome
RowFor(s) == CHOOSE row \in ToSet(report.summary.rows) : row.sample_id = s.id

InFamily(strata, names, c) ==
    MapThenSumSet(LAMBDA n : strata[n][c], names \cap DOMAIN strata)

(* docs/evaluation-v1.md:58: the actual stdout is compared anew, and a     *)
(* "passed" is not believed.  Whatever has passed was solved.              *)
(* attachAnswerEvidence takes any outcome but "success" for the verdict.   *)
PassedIsCompared ==
    report.made => \A s \in ToSet(dataset.samples) :
        /\ RowFor(s).candidate_answer_status = "passed" => Solved(s, s.id, s.code)
        /\ RowFor(s).solution_answer_status = "passed" =>
              \E r \in RecordsFor(s) : Solved(s, EvidenceId(s.id, TRUE), SourceOf(r))

(* A solution counts as passed only where its own code ran every test of   *)
(* its problem with the expected output, a process only where a reviewer   *)
(* confirmed it; what failed, or has no record, stays in every             *)
(* denominator, and no record of another version is counted (attach-       *)
(* AnswerEvidence, attachHumanResultReview, report; the report's own       *)
(* limitations say so).  The one exception is evidence with a run whose    *)
(* outcome is "passed" (PassedIsCompared): it can only add to the passed.  *)
(* The slices by split and by difficulty add up to the totals, unless a    *)
(* gold category, which no rule of validate restricts, has the name of one *)
(* of them: slices are kept by name alone.                                 *)
CreditIsEarned ==
    report.made =>
        LET samples == ToSet(dataset.samples)
            totals == report.summary.totals
            strata == report.summary.strata
            passed ==
                {s \in samples : /\ Provides(s)
                                 /\ \E r \in RecordsFor(s) :
                                       Solved(s, EvidenceId(s.id, TRUE), SourceOf(r))}
            confirmed ==
                {s \in samples : report.command = "formal-report" /\ Provides(s) /\ Confirmed(s)}
        IN  /\ totals.n = Cardinality(samples)
            /\ totals.answer_passed >= Cardinality(passed)
            /\ ~Claims("passed") =>
                  /\ totals.answer_passed = Cardinality(passed)
                  /\ \A s \in samples : RowFor(s).candidate_answer_status = "passed" =>
                                            Solved(s, s.id, s.code)
            /\ totals.process_passed = Cardinality(confirmed)
            /\ \A s \in samples : RecordsFor(s) = {} => "failed" \in RowFor(s).counted
            /\ \A r \in ToSet(bundle) : r.expected_schema_version = report.version
            /\ \A c \in Counters : \A family \in {Splits, Difficulties} :
                  (\A s \in samples : s.gold.primary_category \notin family) =>
                      InFamily(strata, family, c) = totals[c]

(* A location counts as hit only for a candidate that was shown to be      *)
(* wrong (unless the outcome of a run is itself "wrong_answer", which is   *)
(* then the verdict, as in PassedIsCompared), by a diagnosis that quotes   *)
(* whole lines of the code as it is stored, but for its line ends, within  *)
(* the gold lines and under the gold category, and that names no earlier   *)
(* step (report, with the contract of validateInteractiveDiagnosis on      *)
(* which it relies).                                                       *)
HitsAreGrounded ==
    report.made => \A row \in ToSet(report.summary.rows) :
        "location_hit" \in row.counted =>
            LET s == SampleOf(dataset, row.sample_id)
                d == Diagnosed(CHOOSE r \in RecordsFor(s) : TRUE)
                steps == Get(d, "steps").array
                Position(f) == StepOf(d, Get(f, "step_id"))
            IN  /\ ~Claims("wrong_answer") =>
                      \E r \in RunsOf(s.id, s.code) : \E t \in ToSet(r.tests) :
                          t.outcome = "success" /\ ~SameOutput(t.stdout, t.expected_output)
                /\ \E f \in ToSet(Get(d, "findings").array) :
                      LET location == Get(f, "code_location")
                      IN  /\ Stands(location, Normalized(s.code))
                          /\ Is(f, "category", s.gold.primary_category)
                          /\ LineOf(location, "start_line") >= s.gold.first_error[1]
                          /\ LineOf(location, "end_line") <= s.gold.first_error[2]
                          /\ \A g \in ToSet(Get(d, "findings").array) : Position(f) <= Position(g)
                /\ row.counted \cap {"agreement", "failed", "undetermined"} \subseteq {"agreement"}
=============================================================================
