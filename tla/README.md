# TLA+ verification of hy3-algotrace

hy3-algotrace asks a paid language model (Hy3, through TokenHub) to diagnose
reasoning traces and program solutions, and keeps every step as evidence on disk.
What can go wrong is first of all the *order* of file operations and billable
requests: two commands on one directory, a process killed between a request and its
record, a write that fails after the money is spent.  Second come the *contracts*: a
model's answer counts only if it is grounded in what was asked, a prompt must hold no
gold, a data set must be consistent.  This directory models both, checks them with TLC
and proves the central part with TLAPS.  All line numbers refer to `src/`, the
repository root.

## 1. The system

| Part | Source | State | Operations | Interacts with |
|---|---|---|---|---|
| ModelRunner | `src/model_runner.cpp` | `model-calls/<t>.json` (the sidecar) | `runRecordedModelForTrace` (`call-hy3`) | client (one `invoke`), importer, run directory |
| PredictionImporter | `src/prediction_importer.cpp` | `raw-responses/<t>.txt`, `predictions/<t>.json` | `importResponse`, `importResponseBytes`, `markNotAttempted` | run directory; called by ModelRunner |
| Reporter | `src/reporter.cpp` | `report.json`, `report.md`, `run-manifest.json` | `generateReport` | reads the wrappers |
| Validator, loader | `src/validator.cpp`, `src/json_loader.cpp` | none | `validate` (`validateDataset`) | reads the data set |
| PromptExporter | `src/prompt_exporter.cpp` | a temporary directory, then the run directory | `export-prompts` | reads the data set; makes what the run commands work on |
| Token budget | `src/evaluation.cpp` (`class Budget`) | `<a>.reserve`, `<a>.done`, `lock/` | `summary`, `requireBatchCapacity`, `reserve`, `reconcile` | the campaign commands |
| Campaign commands | `src/evaluation_main.cpp` | one directory per attempt, `halt.json` | `call`, `call-v2`, `formal-call` | budget, client |
| Interactive diagnosis | `src/interactive_diagnosis.cpp` | `<root>/<request_id>/` with prompt, record, raw response, diagnosis | `runInteractiveDiagnosis` | client; called by the server |
| Interactive server | `src/interactive_server.cpp` | `call_active_` | `POST /api/diagnose`, `health` | browser page |
| Browser page | `web/app.js` | `calling`, `submitted`, `lastJson`, the view | submit, clear, copy | server |
| Hy3 client | `src/hy3_model_client.cpp` | none beyond one call | `invoke`: one HTTP request, classified | HTTP transport |
| HTTP transport | `src/production_http_transport.cpp` | none beyond one request: bytes received, time spent | `perform` through WinHTTP or libcurl | TokenHub |
| Evaluation rules | `src/evaluation.cpp` 40-437 | none; each command writes one new file | `validate`, `import`, `report`, `formal-bundle`, `formal-report` | records of the campaign, evidence of executed code, a review |

Processes interact only through files (and, in the demo, through one atomic flag
per server).  There is no retry anywhere: the common promise of the three subsystems
that call the model is *at most one billable request per key, never without a
durable record*.  A key is a trace of a run, an attempt of a campaign, a
`request_id` of the demo.

Hard behaviours: concurrent commands on one directory; kills between any two file
operations; a file that is created empty and filled later (`std::ofstream`); writes
whose failure is ignored; checks that are stale when used (`fs::exists` before
`ofstream`, an unlocked summary before `reserve`); a lock directory that outlives
its process; usage reports that are missing or inconsistent; a response that trickles in beyond
every single timeout, or in chunks beyond the size limit; a directory that is renamed into
place while another one is prepared; rules that relate two places of a document, or two
files, and that overwrite or de-duplicate without a word when they are broken.  `PROJECT.json` lists
them as hazards, each at its line with the properties that cover it.

## 2. Modules

    OneShotCall            what every paid path promises (abstract)
      ^ implemented by
    EvaluationRun          run directory: call-hy3, import, mark, report
    TokenBudget            the ledger of a campaign   <- EXTENDED by
    Campaign               call, call-v2, formal-call on one ledger
    InteractiveDiagnosis   POST /api/diagnose, its directory and its flag  <- EXTENDED by
    InteractiveDemo        the pages of web/app.js in front of the servers

    HttpTransport          one request, two platforms     <- EXTENDED by
    Hy3Client              one invocation                 <- EXTENDED by
    ResponseClassifier     document -> parse status       <- EXTENDED by
    ReportMetrics          the counting pass              <- EXTENDED by
    EvaluationPath         traces through Hy3Client and ReportMetrics

    AtomicPublish          what export-prompts promises (abstract)
      ^ implemented by
    PromptExporter         validate and export-prompts    <- EXTENDS
      DatasetValidator       validateDataset, rule by rule
      PromptProjection       problem file -> prompt
      JsonDocument           JSON values (used by all contracts)

    DiagnosisContract      requests and answers of the demo   <- EXTENDED by
    DiagnosisPath          one document from the body to the verdict, beside
                           InteractiveDiagnosis
    EvaluationRules        rules of hy3_evaluate              <- EXTENDED by
    OfflineEvaluation      its offline commands, beside DiagnosisPath

    MC*                    values of the constants for TLC
    MCAnswerPaths          EvaluationPath or InteractiveDemo, whichever way an answer takes
    MCPublishedRun         PromptExporter, then EvaluationRun on what it published
    *Proofs                theorems about the module of that name
    FiniteSums             what they need to know of sums, sizes and extremes of
                           finite sets

**OneShotCall** is the abstract specification: each key goes idle -> latched -> sent
-> settled, one step at a time and never back.  `EvaluationRun`, `Campaign` and
`InteractiveDiagnosis` each instantiate it with a refinement mapping (`CallStates`)
and have `ImplementsOneShotCall` as a property and as a theorem.  The latch is
a published sidecar (`link`), or a directory (`create_directory`); sent is
the history count of `client.invoke`; settled is the final sidecar, the complete
`.done` file, the final `model-call.json`.

**EvaluationRun.**  Each command is a process with a program counter; one action per
file operation, in the order of the code.  `raw`, `predictions`, `sidecar`, `reportJson`,
`reportMd` and `manifest` are the files; `bytes`, `callStatus`, `good`, `saved`, `imported`,
`seen` are the locals of the handlers that a later step still reads.  A response
stands for its bytes and for its hash; `ParseStatusOf` is what `classifyResponse` makes
of it.  Opening a file truncates it, a later step writes it; two writers may leave torn
content.  `importResponseBytes` is shared by `call-hy3` and `import-response`, as in the
code.  `Crash` kills a command at any step.  Two switches choose the environment: `inTurns`,
a Boolean that is chosen at the start and never changes (the operator waits for a command to end), and
`LateWriteErrors` (a write is lost after, or in spite of, what the stream reports).  What holds only in turns
says so: `RawIsImmutable`, `WrapperNamesRaw`, `SidecarIsTruthful`, `EndedCallIsSettled` and `CompletedRunIsWhole`.

**TokenBudget** is the ledger as data: the state of the `.reserve` and `.done` files and
of the lock directory, and the numbers `summary()` derives from them.  `TokenLimit` and
`CallLimit` stand for 300000 and 38.

**Campaign** composes it with the three paid commands.  Every `saveNew` is an
open step (the file is torn) and a write step.  `Throw` is an exception: it unlocks on
the way out (`Unwind`, the destructor of `Lock`) and, in `formal-call`, writes
`halt.json` (`Mark`, the lambda `halt`).  `Kill` kills a process; the lock stays.  The refusals
of `reconcile` for a missing `.reserve` or an existing `.done` are not disjuncts of their
own: `OwnerInv` shows that they cannot happen.

**InteractiveDiagnosis** models the HTTP handler and `runInteractiveDiagnosis` for several
servers on one artifacts root: the flag, the directory latch, the prompt, the record
(`replaceJson`, atomic), the raw response (`writeBytes`, in place), `diagnosis.json`, the
result and the reply.  `Restart` kills a server with all its exchanges.

**InteractiveDemo** puts the pages of `web/app.js` in front.  `calling`, `submitted` and `lastJson` are
the globals of a page, `view` what it shows, `handler` where the submit handler of an exchange waits: in
`fetch` or in `response.json()`.  A submission is one exchange with a request_id of its own.  The page may
give it up at either wait (`Abort`, `BodyFails`) and submit again while the server still works on it; the
POST may even arrive later.

The modules up to here see a response as an opaque value and a call as one step.  The
next five open these up, for commands that follow one another:

**HttpTransport** is `perform`.  The two branches of its `#ifdef` differ in who watches
the clock: `performWindows` computes the remaining time before each blocking operation
(`WinSend`, `WinReceive`, `WinRead`, each preceded by the check `WinExpired`), libcurl gets the
deadline once and calls `curlWrite` back (`CurlTransfer`).  `elapsed` is time, `received` the
length of the body.  The libraries are external: what they do within a timeout is
nondeterministic (`Wait`, `CurlWait`).

**Hy3Client** is `invoke`: `RefuseConfig`, `Send`, the steps of the transport, and
`ReceiveResponse`, which classifies what came back.  An envelope is five facts about a body and
its headers; `envelope` is a history variable, so that the result can be compared with what the
provider sent.  Running out of memory while a response is taken apart is not modelled.

**ResponseClassifier** is `classifyResponse` as an operator on documents, with the
schema stage before the semantic one; **ReportMetrics** is the loop of `buildReport`, one
trace for one step, with the counters and the confusion matrices as bags.  `F1_t` is counted in
twelfths, exact for the sizes of the run.

**EvaluationPath** composes them: each trace is asked for and imported, or marked, and
then the report counts, against a dataset that may not know each trace (`OpenDataset`).

The rest is about documents.  A JSON value (**JsonDocument**) is a record whose one field
names its type; a text is a sequence of symbols or pieces, so that lines, prefixes, placeholders
and excerpts are real; a document is taken from a catalogue of the MC module: one that is right, and
others that differ from it in one place or in two that a rule relates.

**DatasetValidator** is `validateDataset` as operators: one per rule, each the set of diagnostics it
emits.  The index of phase 1 (first occurrence wins, in the order of the file names), the foreign keys of
phase 2 and the counts of the manifest, in unsigned arithmetic (`IntRange`), are kept.
**PromptProjection** is `projectTraceInput`, `auditStructuralLeakage`, `extractTemplateBody` and
`renderPrompt`, whose replacement goes on behind each hole it filled, also into text that came from the data.

**PromptExporter** runs `validate` and any number of exports on one run directory: a template is read,
the run directory looked at, the data loaded, a temporary directory made, one prompt written after the
other, the manifest, then `rename`; `CleanUp` is `failCleanup`, `Reload` the reading back of the manifest.  `faults` counts
failed writes, kills and late losses.  **AtomicPublish** is its abstract specification: publishers prepare,
at most one publishes, in one step; nobody touches what is published.

**DiagnosisContract** is `parseInteractiveDiagnosisRequest` and `validateDiagnosis` with the normalization of
line ends and byte order mark; the length limits on the texts of an answer are one constant.
**DiagnosisPath** takes a document from the body (`Arrive`, `Check`) through the prompt (`Prepare`) to the verdict
(`Judge`), beside the exchanges of InteractiveDiagnosis: the two meet in `ParseStatusOf`, the only thing the
files depend on, so a document takes its way before the exchanges begin.

**EvaluationRules** and **OfflineEvaluation** are `hy3_evaluate` without its paid calls: `OpenDataset`, `Import`,
`CallWithoutAnswer` (a record of a failed call), `ReportCommand`, `FormalReport`.  A command that throws has written nothing, so the rules are guards.
A hash is the value it was computed of.

## 3. Runs

| Run | Question | Result |
|---|---|---|
| RunCommands | commands on one trace, killed anywhere: of three at once, is the trace billed once, on record, by the one that owns the sidecar?  After four in turns, do raw file, wrapper, sidecar, reports and manifest agree? | holds |
| LedgerRaces | one of each paid command at once, one fault: limits, evidence, one send, one unknown bill | holds |
| SharedRoot | three POSTs, two servers, two ids, two faults: single flight, one call per id, replies and records that are true; beside them: is a diagnosis that is shown grounded in its request, and does a report of hy3_evaluate give credit only for what was run, matched or reviewed, unless the evidence itself claims a verdict? | holds |
| AnswerPaths | two traces from the request to the report: limit, deadline, what is kept of a response, which predictions count, and do the counters match the definitions of the metrics, but for the misses of a run without all its wrappers?  Two pages of one demo server that submit, give up and submit again: is what a page shows true of its own submission, and does a busy server become free? | holds |
| ExportRaces | validate, then two exports to one directory, one fault: is the verdict the contract's but for four named oversights, does a run appear whole and once, is gold kept out of prompts, and does what validates export?  Two commands in turns on a published run, writes lost: does the final sidecar claim only what can be read back, and does each call settle? | holds |
| RunNotAttempted | is "not attempted" only said of traces that were never sent? | violated |
| RunUnsettled | does every call that ends settle its sidecar when others mark the trace meanwhile? | violated |
| PilotLimitRace | do development calls at once respect their own limit? | violated |
| ResponseSaved | is a response that is recorded as saved on disk? | violated |
| AnswerCredit | is the output of every solution that passes compared anew, whatever the evidence reports? | violated |
| MissingWrapper | do the metrics treat a trace without wrapper like a parse failure? | violated |
| AcceptedFaults | does a data set that passes keep the contract? | violated |

The seven violated properties are disagreements of the code with its own documentation;
`PROJECT.json` quotes the lines under "findings" (four for AcceptedFaults, whose data set has four faults at
once).  One more that no run repeats: two `import-response` at once can
leave a wrapper beside the raw file of the other (`NamesRaw` where commands do not take turns); the documents
promise nothing for concurrent imports.

`VerdictMatchesContract` compares the validator with a definition of a consistent data set that was written
without its two phases and its index.  `DiagnosisIsGrounded`, `NoGoldInPrompt`, `CreditIsEarned` and
`HitsAreGrounded` are likewise stated on the documents, not with the operators of the code.

Four violated properties name what the passing property beside them has to leave open; each passing one says
so in so many words, and claims the rest without reserve:

* `EndedCallIsSettled`: in turns.  `EveryEndedCallIsSettled` says it of all calls; RunUnsettled shows the call that
  meets a wrapper another command has written meanwhile.
* `VerdictMatchesContract`: a sound data set is accepted, and an accepted one is sound unless it is
  `Overlooked`: a count that is no `int` (the code compares after `get<int>`), an empty
  `reference_verdict.problem_id`, an empty version of the manifest, a reviewer that is neither null nor a name
  (`readStr` makes the empty text of it).  `PassedIsSound` has no such exception.
* `CreditIsEarned` and `HitsAreGrounded`: evidence where no run `Claims` the verdict itself.  `evaluation.cpp` 398 takes any
  outcome but "success" for the verdict, so "passed" is believed (`PassedIsCompared`).  The worker writes no such outcome.
* `CountsMatchDefinitions`: the misses and the incorrect gold diagnoses are exact where `runComplete` holds, and never
  too many otherwise.  For a trace without wrapper `buildReport` counts the sentinel, no missed gold item and no row of
  the second matrix, where the comment at `src/reporter.cpp` 199 says that the metrics treat it like a parse failure
  (`MissesAreCounted`); the recall of an incomplete run is better than that.  Its reports say that the run is incomplete.

`PageIsTruthful` claims nothing for the view "invalid_model_response": the inner `catch` of the page
(`web/app.js` 175) shows it also when the connection or the 120 s end while the body is read.
`EndsByDeadline` states what each platform keeps: under WinHTTP the resolve and connect
timeouts of the send operation come on top of the total timeout.

"At most one call" is not a property of its own in RunCommands, LedgerRaces and SharedRoot: it is part of
`ImplementsOneShotCall`.  `TypeOK` of EvaluationRun is proved.

*Bounds.*  RunCommands needs two calls to race and a third command to interfere
(import, mark or report) on one trace, since traces share nothing but the manifest and the report: `MaxRacing` 3.
In turns it needs call, import or mark, completed report and one more report: four commands.
LedgerRaces has three processes and one attempt of each kind; TokenLimit 5 with upper bounds 3, 3, 2 and
costs 1 or 3 makes both limits bind, costs above the bound of an attempt occur, and `CallLimit` 2 refuses a
third call.  `MaxFaults` bounds failed writes and kills together: 1 with three processes,
2 in SharedRoot, so that a failed write can be followed by a restart.  Two ids and three exchanges give a duplicate
during and after a call and an independent exchange.  AnswerPaths has two submissions to the demo, of one page or of two: the older
one can be at work when the newer one is told "busy".  On the way to the report, a limit of 2 bytes and chunks of
1 or 2 reach the limit, meet it exactly and cross it, in one chunk or several; timeouts 0 and 2 with defaults
1 and 3 make the connect timeout shorter than the total one or equal to it; `MaxWait` 4, longer
than the deadline, is how long an operation without a timeout may take.  Two traces, all objects with up to two well-formed findings, one
document for each fault of the schema, and gold diagnoses with up to two findings give every row of each
matrix.  ExportRaces: some fifty data sets of two problem files and three traces, each with one
or two deviations (a file that cannot be read, ids that clash across files, a status rule broken, a
count that wraps), and templates with missing, doubled and foreign placeholders; two exporters race, one fault
tears or kills at any step.  The documents of SharedRoot: thirty bodies and 238 answers, three lines of code
after normalization, the second empty, so that a location can be off by one at both ends.  The evaluations: six data sets, two of
them valid, with two samples each; five responses; bundles of up to two records (`MaxRecords`), twelve evidence files (two of them with the outcomes
"passed" and "wrong_answer") and four
reviews per data set, so that process, location and answer all pass, fail and stay open.  `FormalPerDifficulty` is 0
there and 3 in the code: nine samples would add rows and no rule.  The documents and evaluations take their way
while no exchange runs, and a behaviour of AnswerPaths takes one of its two ways; interleaving them with exchanges would multiply states that share nothing.
In ExportRaces the commands begin at one point: a data set with one trace was validated and published without
a fault, and the other exporter has not begun.  Two commands are enough there: one whose writes are lost, and one
that finds its files.
Commands, processes and exchanges are used once each and end, hence `CHECK_DEADLOCK FALSE` where it
stands.  In ExportRaces deadlock is checked, and the end is an explicit stutter.

*Fairness.*  `FairSpec` of EvaluationRun (and `PublishedSpec`, its commands on a published run): a command that is not killed keeps running,
because its loops are finite and `invoke` ends within the total timeout of its
transport; a killed command has no fair step left.  `FairSpec` of InteractiveDiagnosis: a
thread that handles an exchange runs on; `POST`s need not arrive.  `DemoFairSpec`
is the same for InteractiveDemo (and `AnswerSpec` for its way in AnswerPaths); nobody has to submit, and a page need not see its answer.  There is no fairness for
kills, faults or arrivals.

## 4. Proofs

For every number of commands, traces, processes, attempts, exchanges, servers, ids and
responses, every usage report and every bound on faults:

* `EvaluationRunProofs`: `TypeOK`; `LatchInv`, and from it `AtMostOneInvocation`,
  `InvocationIsRecorded`, `SidecarIsWrittenTwice` and `ImplementsOneShotCall`.  For commands that take turns
  `SerialInv`, and from it `SidecarIsTruthful`,
  `EndedCallIsSettled` and `RawIsImmutable`, with lost writes and kills; on a disk that loses no write
  `SoundDiskInv`, and from it `WrapperNamesRaw` and `CompletedRunIsWhole`.
* `CampaignProofs`: `TypeOK /\ CampaignInv`, and from it `LockIsExclusive`, `AtMostOneSend`,
  `SendIsReserved`, `SettledIsEvidenced` and `ImplementsOneShotCall`; with `MarkInv`,
  `FormalFailureIsMarked`; with `BudgetInv`, `OneUnresolved` and `WithinLimits`, for every token and call limit.
* `PromptExporterProofs`: `ExportInv`, and from it `ExportIsTruthful` and `ImplementsAtomicPublish`; with
  `WholeInv`, `PublishedRunIsWhole` and `NoGoldInPrompt`; with `VerdictInv`, `VerdictMatchesContract`; with
  that and `ErrorInv`, `ValidatedExport`, for every number of exporters, every data set and every template.
* `InteractiveDiagnosisProofs`: `TypeOK /\ InteractiveInv`, and from it `SingleFlight`,
  `AtMostOneCall`, `CallIsOnRecord`, `ReplyIsBacked`, `DiagnosisIsSaved` and
  `ImplementsOneShotCall`.
* `InteractiveDemoProofs`: `DemoInv`, on top of the invariant of InteractiveDiagnosis, which every
  behaviour of the demo satisfies (`DemoIsInteractive`); from both, `PageIsTruthful`, for every number of pages.
  `DemoInv` says that a handler that waits owns the globals of its page, and that an exchange
  that was turned away was never called for.
* `EvaluationPathProofs`: `PathInv`, and from it `ResponseWithinLimit`, `EndsByDeadline`,
  `ReportedUsageIsKept` and `PredictionsKeepContract`; `ReportInv`, and from it
  `CountsMatchDefinitions`; from both, `PathTypeOK`, for every limit, timeout, chunk size, set of
  documents and number of traces.  `PathInv` ties the transport's counters to its step (what
  `elapsed` may be before and after each operation, that a status line was read before the body),
  the result of a call to the envelope it came from, and a wrapper to the document it was made of.
* `OfflineEvaluationProofs`: `DocumentInv`, and from it `DiagnosisIsGrounded`, for every body, template,
  answer and limit on lengths; `EvaluationInv`, and from it `HitsAreGrounded` and `CreditIsEarned`, for every data
  set, response, evidence file and review.  Documents and evaluations take no step on the demo's files but those of
  `Spec` (`EvaluationsKeepTheDisk`), so the theorems of InteractiveDiagnosisProofs hold beside them.

For the three paid paths the argument is the same.  "At most one call" is not inductive: it does
not say why the second caller is refused.  The strengthening names an *owner* of a key: the process
between the latch and its end.  It says that there is at most one owner
(`OneHolder`, `OwnersAreUnique`), and what the owner finds on disk and in the history at each
of its steps (`HolderOwnsSidecar`, `OwnerInv`); what has no owner is described by what its
files say (`AttemptInv`, `RequestInv`).  The latch keeps the owner unique, since an owner
has a directory or sidecar that makes the next one fail; only owners write, so the rest is preserved; a
kill removes an owner and changes no file.

`SerialInv` is the same idea without rivals: `OneRuns` says that nobody else runs, and `KnowsRaw`,
`KnowsWrapper`, `KnowsOutcome`, `KnowsReport` say what a command has seen and may still rely on at each of its
steps.  `WrapperNamesRaw` alone is not inductive, since nothing in it says that the importer at `wrapper_write`
wrote the raw file it is about to name; `SidecarIsTruthful` needs that a raw file is opened only where no sidecar claims one
(`ClaimsAreTrue`).  `ExportInv` says who owns which temporary directory, and that a command publishes
only by its `rename`: before that it is not the author of the run directory, after it nobody else can be.
`MarkInv` follows a `formal-call` from its mark to its end.

*Sums.*  `WithinLimits` is about sums over the attempts, `CountsMatchDefinitions` about sizes of unions and cells
of bags, `CreditIsEarned` about sums of the slices of a report.  The sums of the community modules take the addends as
an operator, which no theorem can be instantiated with.  `FiniteSums` has them as functions: it shows that
the recursion has a solution and only one (by looking at a smallest counterexample among the subsets, since
an induction rule would need an operator too), and how a sum changes when one addend does, is
bounded, and counts what is sorted into classes.  `BudgetInv` holds the charges of the ledger (the account of an
attempt, until then its reservation) below the limit.  It needs `ViewInv`: what a process has read of the ledger
before it opens a reservation still holds when it writes it, because it has the lock; and `BillInv`: an account is
the true bill.  `ReportInv` says, counter by counter, that the pass has added what
its definition adds for the traces done so far (`CountsSoFar`): each definition splits into the traces before and the new one.
It counts what `buildReport` counts, the gold items of traces that have a wrapper; `ReportedAsDefined` relates that to the
definitions, which are over all traces.

*Prompts.*  `WholeInv` follows a prompt through its replacements.  A text is either its template with some
placeholders filled in place, or *spoiled*: a value brought a placeholder with it, so that one is there twice, or again after
it was filled.  Spoiled texts stay spoiled, and `renderPrompt` rejects them; so what is written was filled in
place.  `NoGoldInPrompt` adds that every section of a prompt is a part of the payload that
`auditStructuralLeakage` looked through, and that the projection of a file without its gold data is the
same, field by field.

*Validation.*  `VerdictInv` says what `validateDataset` knows between two files, as long as no field is wrong: the
index holds exactly the places of the records of the files read so far, with the ids, references and
labels that stand there (`IndexIs`), each of those files has the fields its schemas demand, and there is a
diagnostic exactly if those files do not agree (`ConsistentSoFar`: no id twice, in one
file or in two, each problem with the name of its file, each trace and test case with the problem of its file).  "Exactly" is what makes it inductive: `OneMoreFile` shows
that a set of files with one more agrees if and only if the set did and the code finds nothing in the new one.  At the end of phase 1 every
file was read, since the next file is the first unread one (`NextIsUnread`).  Phase 2 is then compared rule by rule with the
definition over all files: `TracesResolve`, `TracesComplete` and `DiagnosesConsistent` for the records, `SummaryFaults` for the
manifest.  What the code accepts is first stated as it compares (`ReferencesAccepted`, `ManifestAccepted`): numbers in the
width of `int`, where two integers have the same low bits exactly if their difference is a multiple of `IntRange` (`SameInt`), and no
comparison with an empty text.  `AcceptedIsSound` then shows that this is the contract but for `Overlooked`.  A wrong field stays on record (`FaultShows`), so the verdict is right where none is (`VerdictIsRight`).

An accepted data set therefore has no wrong file, and its manifest names every problem; so `loadDataset` and
`collectRefs` take it too (`AcceptedLoads`), and their list of traces, file by file in the order of the manifest, pairs the
places of the traces with the prompts one to one (`AcceptedIdsArePlaces`).

*Diagnoses.*  `LocationStands` is the heart of `DiagnosisIsGrounded`: if the lines that the code joins are the snippet,
then the snippet lies in the text between line ends.  Line n is described by the rank of its start among all starts
(`RanksAreTaken`, `NthHasRank`), and the lines between two starts, joined, are the text between
them (`JoinedLines`).  `ParsedIsGrounded` then reads the rest of the contract off the checks of
`validateDiagnosis`: no fault among the findings, the first error at the smallest index.

*Evaluations.*  `EvaluationInv` keeps what the guards of the commands establish: a data set that validates, records
that replay, evidence that holds.  A hit is that of a diagnosis that validates against the request of its own
sample, so `HitStands` is again `ParsedIsGrounded`; "wrong answer" and "passed" are shown to mean
runs of that sample's own code (`WrongAnswerIsShown`, `AnswerIsSolved`), where the evidence does not say these words itself (`NoneSays`).  That *every* test was run is a counting
argument: as many runs as tests, each of another test, each run that of some test (`AllTestsRan`).

*Assumptions.*  They are those named in the modules: distinct special values (`Absent`, `Torn`, `Missing`), a
classifier that returns a status, positive upper bounds, finitely many attempts and traces, distinct trace ids.  About
documents: texts and the lists that the proofs count are sequences, a placeholder is told from other pieces, a value has the shape that the JSON parser
gives it (`DocumentsAssumption`, `ExporterAssumption`, `MentioningAssumption`, `EvaluationAssumption`), the names of
the files are in some order and none is empty (`DatasetAssumption`), loading a file ends with a document or with one of its own
errors, and a JSON integer is an integer (`LoadedAssumption`), the empty text is no safe id (`SafeIdsAssumption`), and `Values`
looks six levels deep, more than a document that validates has.  `SentinelAssumption`: no category is named like the marker of a parse
failure.  No theorem uses a bound on what TLC enumerates.

`CreditIsEarned` claims that slices add up only where no gold category has the name of a split or a
difficulty: the slices are kept by name alone, and no rule of `validate` keeps the names apart.

Model-checked only: the two liveness properties, `HeldCallSettles` and `ServerBecomesFree` (the prover has no reasoning about
fairness or ENABLED).

## 5. What is not modelled

* Option parsing, logging, wording of messages, fingerprints and approval files (they gate a command
  before its first change of state).  `main.cpp` 260 multiplies a timeout by 1000 in the width of the option; a
  run would only restate it.
* The inside of libcurl and WinHTTP, of the sockets of the server, and of `sha256.cpp`: a hash is the value
  it is computed of.
* `hy3_evaluate`: the hash comparisons of the freeze checks and of `formalDataset`, and `formal-plan`, `jobs`,
  `formal-solution-jobs` and `export`, which derive one new file from files they are given; the queue for human
  review, the ratios, and the rendering of its prompts.
* The rates computed from the counters of `report`, and its Markdown.
* The fake clients, which serve the tests, and `main` of the demo, which parses options and constructs the server.
* Disk loss on power failure: a file that was written stays.  Clock values, so no two exports make the same
  temporary directory (`prompt_exporter.cpp` 415 names it by the clock).
* The second `remove_all` after a rename that failed (`prompt_exporter.cpp` 570): the model tries once, which leaves
  more behind than the code does.
* The sum of a batch beyond 64 bits, which `evaluation.cpp` 466 refuses term by term: sums are naturals.

Hazards without a property, because the code promises nothing there: `reporter.cpp` 208 (one torn
wrapper makes every report fail until it is repaired by hand) and 511 (a report that was written empty still
succeeds); `evaluation_main.cpp` 313 (a campaign that is halted between the look at `halt.json` and the reservation
still sends one request); `web/app.js` 175 (see above).

## 6. Plan

Done, in this order: the run directory (most code, most commands), the ledger and its
commands, the demo server, the proofs of each latch, the path from a request to the metrics, the page, validation and
export with their refinement, the contracts of the demo, the offline evaluation, the proofs for commands that take
turns, and those about sums, prompts, diagnoses, reports and validation.  What could follow:

1. Shorter proofs: what PromptExporterProofs says of validation alone, in a module of its own that other
   theorems about the index can cite.
2. `jobs` and `formal-solution-jobs` in front of the evidence, so that an evidence file is one the
   worker could have written.
