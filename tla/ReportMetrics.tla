--------------------------- MODULE ReportMetrics ---------------------------
(***************************************************************************)
(* buildReport of the reporter: one pass over the traces of the manifest   *)
(* that compares each wrapper with the gold diagnosis and counts.          *)
(* Wrappers and gold do not change while it runs.                          *)
(***************************************************************************)
EXTENDS ResponseClassifier, Sequences, FiniteSets, FiniteSetsExt, Bags

CONSTANT TraceIds       \* trace_ids of the run manifest, in their order

ASSUME TraceIdsAssumption ==
    /\ Len(TraceIds) \in Nat
    /\ \A i, j \in 1..Len(TraceIds) : TraceIds[i] = TraceIds[j] => i = j

(* The taxonomy has no category of the name of a sentinel.                 *)
ASSUME SentinelAssumption == {"__parse_failed__", "<parse_failed>"} \cap Categories = {}

VARIABLES
    wrapper,    \* predictions/<t>.json
    gold,       \* the gold diagnosis of each trace
    counted,    \* how many traces the pass has done
    metrics     \* the counters

metricsVars == <<wrapper, gold, counted, metrics>>

TraceSet == {TraceIds[i] : i \in 1..Len(TraceIds)}

(* A diagnosis of the dataset or of a parsed wrapper.                      *)
Diagnosis(s, p, fs) == [status |-> s, primary |-> p, findings |-> fs]
NoDiagnosis == Diagnosis("none", Null, {})

Wrapper(s, d) == [parse_status |-> s, prediction |-> d]
NoWrapper == Wrapper("wrapper_missing", NoDiagnosis)

(* serializeWrapper: a prediction only if parsed.                          *)
WrapperFor(s, d) ==
    Wrapper(s, IF s = "parsed" THEN Diagnosis(d.status, d.primary, d.findings)
               ELSE NoDiagnosis)

----------------------------------------------------------------------------
(* The counters.  macro is the sum of F1_t in units of 1/Scale, exact for  *)
(* traces with up to four items.  The counts by name are bags: the parse   *)
(* statuses, and the cells <<gold, predicted>> of two confusion matrices.  *)
Scale == 12

Plus(matrix, name) == matrix (+) SetToBag({name})

NoCounts ==
    [parsed |-> 0, statusCorrect |-> 0, primaryCorrect |-> 0, incorrectGold |-> 0,
     tp |-> 0, fp |-> 0, fn |-> 0, pairTp |-> 0, pairFp |-> 0, pairFn |-> 0,
     macro |-> 0, undetermined |-> 0, runComplete |-> TRUE,
     statusCounts |-> EmptyBag, statusConf |-> EmptyBag, primaryConf |-> EmptyBag]

PairSet(findings) == {<<f.stage, f.category>> : f \in findings}
One(condition) == IF condition THEN 1 ELSE 0

(* A trace whose wrapper is missing: one false positive, and no more.      *)
CountMissing(m) ==
    [m EXCEPT !.runComplete = FALSE, !.fp = @ + 1, !.pairFp = @ + 1,
              !.statusCounts = Plus(@, "wrapper_missing"),
              !.statusConf = Plus(@, <<"<missing>", "<missing>">>)]

(* Only an incorrect gold diagnosis has findings to compare with.          *)
GoldFindings(g) == IF g.status = "incorrect" THEN g.findings ELSE {}

F1(P, G) == IF P = {} /\ G = {} THEN Scale
            ELSE (2 * Scale * Cardinality(P \cap G)) \div (Cardinality(P) + Cardinality(G))

GoldRow(g) == IF g = NoDiagnosis THEN "<unknown>" ELSE g.status

(* Only traces with an incorrect gold diagnosis enter the second matrix.   *)
AddPrimary(matrix, g, column) ==
    IF g.status = "incorrect" THEN Plus(matrix, <<g.primary, column>>) ELSE matrix

(* What both kinds of wrapper count alike.                                 *)
CountPresent(m, w, g) ==
    [m EXCEPT !.statusCounts = Plus(@, w.parse_status),
              !.incorrectGold = @ + One(g.status = "incorrect")]

(* Mutant: only the sentinel is counted, as for a missing wrapper.         *)
CountSentinelOnly(m, g) ==
    [m EXCEPT !.fp = @ + 1, !.pairFp = @ + 1,
              !.statusConf = Plus(@, <<GoldRow(g), "<parse_failed>">>),
              !.primaryConf = AddPrimary(@, g, "<parse_failed>")]

(* No prediction: the sentinel is a false positive, gold is all missed.    *)
CountParseFailed(m, g) ==
    [m EXCEPT !.fp = @ + 1, !.pairFp = @ + 1,
              !.fn = @ + Cardinality(CategorySet(GoldFindings(g))),
              !.pairFn = @ + Cardinality(PairSet(GoldFindings(g))),
              !.statusConf = Plus(@, <<GoldRow(g), "<parse_failed>">>),
              !.primaryConf = AddPrimary(@, g, "<parse_failed>")]

(* A prediction for a trace that the dataset does not know is put into the *)
(* column of the parse failures.                                           *)
CountParsed(m, p, g) ==
    LET P == CategorySet(p.findings)    G == CategorySet(GoldFindings(g))
        SP == PairSet(p.findings)       SG == PairSet(GoldFindings(g))
        known == g # NoDiagnosis
    IN  [m EXCEPT !.parsed = @ + 1,
                  !.statusCorrect = @ + One(p.status = g.status),
                  !.primaryCorrect = @ + One(/\ g.status = "incorrect" /\ p.primary # Null
                                           /\ p.primary = g.primary),
                  !.tp = @ + Cardinality(P \cap G),
                  !.fp = @ + Cardinality(P \ G),
                  !.fn = @ + Cardinality(G \ P),
                  !.pairTp = @ + Cardinality(SP \cap SG),
                  !.pairFp = @ + Cardinality(SP \ SG),
                  !.pairFn = @ + Cardinality(SG \ SP),
                  !.macro = @ + F1(P, G),
                  !.undetermined = @ + One(p.status = "undetermined"),
                  !.statusConf =
                      Plus(@, <<GoldRow(g), IF known THEN p.status ELSE "<parse_failed>">>),
                  !.primaryConf = AddPrimary(@, g, p.primary)]

CountTrace ==
    LET t == TraceIds[counted + 1]
        w == wrapper[t]
        present == CountPresent(metrics, w, gold[t])
    IN  /\ counted < Len(TraceIds)
        /\ counted' = counted + 1
        /\ metrics' = CASE w = NoWrapper -> CountMissing(metrics)
                        [] w.parse_status = "parsed" ->
                              CountParsed(present, w.prediction, gold[t])
                        [] OTHER -> CountParseFailed(present, gold[t])
        /\ UNCHANGED <<wrapper, gold>>

----------------------------------------------------------------------------
(* Properties *)

Done == {TraceIds[i] : i \in 1..counted}
Present == {t \in Done : wrapper[t] # NoWrapper}
Parsed == {t \in Done : wrapper[t].parse_status = "parsed"}
Incorrect == {t \in Done : gold[t].status = "incorrect"}

(* docs/phase-02-metrics.md, sections 0, 3 and 4: predicted and gold items *)
(* of all traces as sets, where a trace without prediction predicts the    *)
(* sentinel.                                                               *)
Items(Of(_), S) == UNION {{<<t, x>> : x \in Of(t)} : t \in S}
PredictedCategories(t) ==
    IF t \in Parsed THEN CategorySet(wrapper[t].prediction.findings) ELSE {"__parse_failed__"}
GoldCategories(t) == CategorySet(GoldFindings(gold[t]))
PredictedPairs(t) ==
    IF t \in Parsed THEN PairSet(wrapper[t].prediction.findings)
    ELSE {<<"__parse_failed__", "__parse_failed__">>}
GoldPairs(t) == PairSet(GoldFindings(gold[t]))

Missed == Items(GoldCategories, Done) \ Items(PredictedCategories, Done)
MissedPairs == Items(GoldPairs, Done) \ Items(PredictedPairs, Done)

Cells(matrix, S) == MapThenSumSet(LAMBDA c : matrix[c], DOMAIN matrix \cap S)
AllCells(matrix) == Cells(matrix, DOMAIN matrix)
Diagonal(S) == {<<x, x>> : x \in S}

(* "metrics treat missing like parse failure" (reporter.cpp:199): the gold *)
(* items of a trace without wrapper are missed, and where its gold         *)
(* diagnosis is incorrect it is one of those by which the accuracy of the  *)
(* primary category is divided.  buildReport leaves both out.              *)
MissesAreCounted ==
    <<metrics.fn, metrics.pairFn, metrics.incorrectGold>> =
        <<Cardinality(Missed), Cardinality(MissedPairs), Cardinality(Incorrect)>>

(* The counters of the pass are what the definitions of the metrics say of *)
(* the traces done so far: micro counts as differences of sets, accuracies *)
(* as numbers of traces, the macro F1 at its maximum exactly when each     *)
(* prediction names the categories of its gold diagnosis; and each matrix  *)
(* has one cell for each trace of its denominator, with the accuracy that  *)
(* is reported beside it on its diagonal.  The misses and the incorrect    *)
(* gold diagnoses are exact in a run that buildReport calls complete, and  *)
(* otherwise never too many (MissesAreCounted says what they should be).   *)
CountsMatchDefinitions ==
    LET P == Items(PredictedCategories, Done)   G == Items(GoldCategories, Done)
        SP == Items(PredictedPairs, Done)       SG == Items(GoldPairs, Done)
        Same == {t \in Parsed : PredictedCategories(t) = GoldCategories(t)}
    IN  /\ <<metrics.tp, metrics.fp>> = <<Cardinality(P \cap G), Cardinality(P \ G)>>
        /\ <<metrics.pairTp, metrics.pairFp>> = <<Cardinality(SP \cap SG), Cardinality(SP \ SG)>>
        /\ metrics.runComplete => MissesAreCounted
        /\ metrics.fn <= Cardinality(Missed) /\ metrics.pairFn <= Cardinality(MissedPairs)
        /\ metrics.incorrectGold <= Cardinality(Incorrect)
        /\ metrics.macro <= Scale * Cardinality(Parsed)
        /\ metrics.macro = Scale * counted <=> Same = Done
        /\ metrics.runComplete <=> Present = Done
        /\ AllCells(metrics.statusCounts) = counted
        /\ Cells(metrics.statusCounts, {"parsed"}) = metrics.parsed
        /\ AllCells(metrics.statusConf) = counted
        /\ Cells(metrics.statusConf, Diagonal(DiagnosisStatuses)) = metrics.statusCorrect
        /\ AllCells(metrics.primaryConf) = metrics.incorrectGold
        /\ Cells(metrics.primaryConf, Diagonal(Categories)) = metrics.primaryCorrect

(* A prediction that is counted is one the evaluator's contract allows: it *)
(* says incorrect exactly if it has findings and a primary category, the   *)
(* primary category is that of a finding, and the implementation is only   *)
(* judged as a mismatch and where there is a candidate solution.           *)
PredictionKeepsContract(t, hasCandidateSolution) ==
    LET p == wrapper[t].prediction
    IN  IF wrapper[t].parse_status # "parsed" THEN p = NoDiagnosis
        ELSE /\ p.status \in DiagnosisStatuses
             /\ p.status = "incorrect" <=> p.findings # {}
             /\ p.status = "incorrect" <=> p.primary # Null
             /\ p.primary # Null => \E f \in p.findings : f.category = p.primary
             /\ \A f \in p.findings : f.stage = ImplementationStage =>
                    f.category = MismatchCategory /\ hasCandidateSolution
============================================================================
