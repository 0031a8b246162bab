--------------------------- MODULE PromptExporter ---------------------------
(***************************************************************************)
(* export-prompts: several commands prepare one run directory, each in a   *)
(* temporary directory of its own that is renamed at the end.  The data    *)
(* set does not change while they run; validate may be run before them.    *)
(***************************************************************************)
EXTENDS DatasetValidator, PromptProjection

CONSTANTS
    Exporters,      \* export-prompts commands with the same run_dir
    TemplatesFor,   \* the template files that may be used with a data set
    LateWriteErrors,\* writes may be lost when the buffer is flushed
    MaxFaults       \* bound on operations of the file system that fail

ASSUME ExporterAssumption ==
    /\ LateWriteErrors \in BOOLEAN /\ MaxFaults \in Nat
    /\ \A d \in Datasets : \A t \in TemplatesFor[d] :
          t.encoding \in Encodings /\ t.lines \in Seq(Lines)

VARIABLES
    template,       \* the template each command reads
    epc,            \* the next step of each command
    nextRef,        \* the loop over the traces: how many are done
    temp,           \* <run_dir>.tmp-<clock>, by command
    run,            \* run_dir
    eresult,        \* what a command returns
    faults          \* faults so far

exporterVars == <<template, epc, nextRef, temp, run, eresult, faults>>
vars == <<validatorVars, exporterVars>>

Absent == [absent |-> TRUE]
Torn == [torn |-> TRUE]
Prompt(text) == [text |-> text]
Directory(e, prompts, manifest) == [by |-> e, prompts |-> prompts, manifest |-> manifest]

----------------------------------------------------------------------------
ProblemFile(pid) ==
    IF pid \in DOMAIN data.files THEN data.files[pid] ELSE Unreadable

HasTraces(pid) ==
    IsLoaded(ProblemFile(pid)) /\ HasType(ProblemFile(pid).loaded, "reasoning_traces", {"array"})
TracesOf(pid) == ItemsOf(ProblemFile(pid).loaded, "reasoning_traces")

ForeignTrace(pid, trace) ==
    LET problem == SubObject(ProblemFile(pid).loaded, "problem")
    IN  /\ HasType(problem, "id", {"string"}) /\ HasType(trace, "problem_id", {"string"})
        /\ TextOf(trace, "problem_id") # TextOf(problem, "id")

TraceError(pid, trace) ==
    IF ~HasType(trace, "id", {"string"}) THEN "E_DATA_LOAD"
    ELSE IF TextOf(trace, "id") \notin SafeIds THEN "E_UNSAFE_ID"
    ELSE IF ForeignTrace(pid, trace) THEN "E_FOREIGN_KEY" ELSE "ok"

FirstError(codes) ==
    LET faulty == {i \in DOMAIN codes : i \in Nat /\ codes[i] # "ok"}
    IN  IF faulty = {} THEN "ok" ELSE codes[Min(faulty)]

ProblemError(pid) ==
    IF pid \notin SafeIds THEN "E_UNSAFE_ID"
    ELSE IF ~HasTraces(pid) THEN "E_DATA_LOAD"
    ELSE FirstError([i \in DOMAIN TracesOf(pid) |-> TraceError(pid, TracesOf(pid)[i])])

CollectError ==
    LET ids == ItemsOf(data.manifest.loaded, "problem_ids")
    IN  FirstError([i \in DOMAIN ids |->
            IF DOMAIN ids[i] = {"string"} THEN ProblemError(ids[i].string) ELSE "ok"])

(* The traces of the problems that the manifest names, in that order; what *)
(* is no string is passed over.                                            *)
RefsOf(v) ==
    IF DOMAIN v # {"string"} THEN <<>>
    ELSE [j \in DOMAIN TracesOf(v.string) |->
              [problem |-> v.string, trace |-> TracesOf(v.string)[j]]]
Refs ==
    LET ids == ItemsOf(data.manifest.loaded, "problem_ids")
    IN  FlattenSeq([i \in DOMAIN ids |-> RefsOf(ids[i])])
RefId(ref) == TextOf(ref.trace, "id")
AllTraceIds == {RefId(ref) : ref \in ToSet(Refs)}

(* One round of the loop: project, audit, render.                          *)
PayloadOf(ref) == ProjectTraceInput(ProblemFile(ref.problem).loaded, ref.trace)
PromptError(e, ref) ==
    IF LeaksStructurally(PayloadOf(ref)) THEN "E_LEAKAGE_AUDIT"
    ELSE RenderError(BodyOf(template[e].lines), PayloadOf(ref))
PromptFor(e, ref) == Filled(BodyOf(template[e].lines), PayloadOf(ref))

----------------------------------------------------------------------------
AtStep(e, step) == epc[e] = step
Goto(e, step) == epc' = [epc EXCEPT ![e] = step]
Leave(e, result) ==
    /\ Goto(e, "ended")
    /\ eresult' = [eresult EXCEPT ![e] = result]
(* failCleanup: remove_all comes before the error is returned.             *)
Fail(e, code) ==
    /\ Goto(e, "cleanup")
    /\ eresult' = [eresult EXCEPT ![e] = code]
Fault == faults < MaxFaults /\ faults' = faults + 1

ExporterInit ==
    /\ template \in [Exporters -> TemplatesFor[data]]
    /\ epc = [e \in Exporters |-> "template"]
    /\ nextRef = [e \in Exporters |-> 0]
    /\ temp = [e \in Exporters |-> Absent]
    /\ run = Absent
    /\ eresult = [e \in Exporters |-> "none"]
    /\ faults = 0

Init == ValidatorInit /\ ExporterInit

(* main reads the template before it looks at anything else.               *)
ReadTemplate(e) ==
    /\ AtStep(e, "template")
    /\ IF template[e].encoding # "utf8" THEN Leave(e, template[e].encoding)
       ELSE Goto(e, "check") /\ UNCHANGED eresult
    /\ UNCHANGED <<template, nextRef, temp, run, faults>>

CheckRunDir(e) ==
    /\ AtStep(e, "check")
    /\ IF run # Absent THEN Leave(e, "E_RUN_DIR_EXISTS")
       ELSE Goto(e, "load") /\ UNCHANGED eresult
    /\ UNCHANGED <<template, nextRef, temp, run, faults>>

(* Mutant: the code of the loader is passed on.                            *)
LoadErrorAsRead(e) ==
    IF ~IsLoaded(data.manifest) THEN data.manifest.error ELSE TemplateError(template[e])

LoadError(e) ==
    IF ~IsLoaded(data.manifest) THEN "E_DATA_LOAD"
    ELSE IF ~HasType(data.manifest.loaded, "problem_ids", {"array"}) THEN "E_DATA_LOAD"
    ELSE TemplateError(template[e])

LoadData(e) ==
    /\ AtStep(e, "load")
    /\ IF LoadError(e) # "ok" THEN Leave(e, LoadError(e))
       ELSE Goto(e, "mktemp") /\ UNCHANGED eresult
    /\ UNCHANGED <<template, nextRef, temp, run, faults>>

(* Names with the clock in them do not collide.                            *)
MakeTemp(e) ==
    /\ AtStep(e, "mktemp")
    /\ \/ /\ temp' = [temp EXCEPT ![e] = Directory(e, <<>>, Absent)]
          /\ Goto(e, "collect")
          /\ UNCHANGED <<eresult, faults>>
       \/ Fault /\ Fail(e, "E_WRITE_FAILED") /\ UNCHANGED temp
    /\ UNCHANGED <<template, nextRef, run>>

Collect(e) ==
    /\ AtStep(e, "collect")
    /\ IF CollectError # "ok" THEN Fail(e, CollectError)
       ELSE Goto(e, "prompts") /\ UNCHANGED eresult
    /\ UNCHANGED <<template, nextRef, temp, run, faults>>

(* A file of that name is replaced.                                        *)
WithFile(prompts, id, text) ==
    [x \in DOMAIN prompts \cup {id} |-> IF x = id THEN text ELSE prompts[x]]
PutPrompt(e, id, text) ==
    temp' = [temp EXCEPT ![e].prompts = WithFile(temp[e].prompts, id, text)]

WritePrompt(e) ==
    /\ AtStep(e, "prompts") /\ nextRef[e] < Len(Refs)
    /\ LET ref == Refs[nextRef[e] + 1]
       IN  IF PromptError(e, ref) # "ok"
           THEN Fail(e, PromptError(e, ref)) /\ UNCHANGED <<nextRef, temp, faults>>
           ELSE \/ /\ PutPrompt(e, RefId(ref), Prompt(PromptFor(e, ref)))
                   /\ nextRef' = [nextRef EXCEPT ![e] = @ + 1]
                   /\ UNCHANGED <<epc, eresult, faults>>
                \/ /\ Fault /\ PutPrompt(e, RefId(ref), Torn)
                   /\ \/ Fail(e, "E_WRITE_FAILED") /\ UNCHANGED nextRef
                      \/ /\ LateWriteErrors
                         /\ nextRef' = [nextRef EXCEPT ![e] = @ + 1]
                         /\ UNCHANGED <<epc, eresult>>
    /\ UNCHANGED <<template, run>>

ManifestOf(e) ==
    [trace_ids |-> AllTraceIds, total_traces |-> Cardinality(AllTraceIds),
     template |-> template[e]]

WriteManifest(e) ==
    /\ AtStep(e, "prompts") /\ nextRef[e] = Len(Refs)
    /\ \/ /\ temp' = [temp EXCEPT ![e].manifest = ManifestOf(e)]
          /\ Goto(e, "rename")
          /\ UNCHANGED <<eresult, faults>>
       \/ /\ Fault /\ temp' = [temp EXCEPT ![e].manifest = Torn]
          /\ \/ Fail(e, "E_WRITE_FAILED")
             \/ LateWriteErrors /\ Goto(e, "rename") /\ UNCHANGED eresult
    /\ UNCHANGED <<template, nextRef, run>>

(* Mutant: the directory is moved over another one.                        *)
MayRenameOver == TRUE

(* rename() does not replace a directory that is not empty.                *)
MayRename == run = Absent

Rename(e) ==
    /\ AtStep(e, "rename")
    /\ \/ /\ MayRename
          /\ run' = temp[e]
          /\ temp' = [temp EXCEPT ![e] = Absent]
          /\ Goto(e, "reload")
          /\ UNCHANGED <<eresult, faults>>
       \/ ~MayRename /\ Fail(e, "E_WRITE_FAILED") /\ UNCHANGED <<run, temp, faults>>
       \/ Fault /\ Fail(e, "E_WRITE_FAILED") /\ UNCHANGED <<run, temp>>
    /\ UNCHANGED <<template, nextRef>>

(* remove_all is tried once, its error is ignored.                         *)
CleanUp(e) ==
    /\ AtStep(e, "cleanup")
    /\ Goto(e, "ended")
    /\ \/ temp' = [temp EXCEPT ![e] = Absent] /\ UNCHANGED faults
       \/ Fault /\ temp[e] # Absent /\ UNCHANGED temp
    /\ UNCHANGED <<template, nextRef, run, eresult>>

(* main reads back the manifest it has published.                          *)
(* Mutant: the manifest is not read back.                                  *)
ReloadUnchecked(e) ==
    /\ AtStep(e, "reload")
    /\ Leave(e, "ok")
    /\ UNCHANGED <<template, nextRef, temp, run, faults>>

Reload(e) ==
    /\ AtStep(e, "reload")
    /\ Leave(e, IF run.manifest = Torn THEN "E_JSON_PARSE" ELSE "ok")
    /\ UNCHANGED <<template, nextRef, temp, run, faults>>

Kill(e) ==
    /\ ~AtStep(e, "ended")
    /\ Fault
    /\ Leave(e, "killed")
    /\ UNCHANGED <<template, nextRef, temp, run>>

Export(e) ==
    \/ ReadTemplate(e) \/ CheckRunDir(e) \/ LoadData(e) \/ MakeTemp(e) \/ Collect(e)
    \/ WritePrompt(e) \/ WriteManifest(e) \/ Rename(e) \/ CleanUp(e) \/ Reload(e) \/ Kill(e)

NoneStarted == \A e \in Exporters : epc[e] = "template"

Next ==
    \/ NoneStarted /\ Validate /\ UNCHANGED exporterVars
    \/ /\ vpc \in {"idle", "done"}
       /\ \E e \in Exporters : Export(e)
       /\ UNCHANGED validatorVars
    \/ (\A e \in Exporters : epc[e] = "ended") /\ UNCHANGED vars

Spec == Init /\ [][Next]_vars

----------------------------------------------------------------------------
Results ==
    {"none", "ok", "killed", "E_RUN_DIR_EXISTS", "E_DATA_LOAD", "E_UNSAFE_ID", "E_FOREIGN_KEY",
     "E_LEAKAGE_AUDIT", "E_TEMPLATE_MARKER", "E_TEMPLATE_PLACEHOLDER", "E_UTF8_INVALID",
     "E_EMBEDDED_NUL", "E_WRITE_FAILED", "E_JSON_PARSE"}

(* The type invariant of validate and of the export commands.              *)
TypeOK ==
    /\ data \in Datasets /\ filesRead \subseteq DOMAIN data.files
    /\ vpc \in {"idle", "manifest", "problems", "summary", "done"}
    /\ verdict \in {"none", "pass", "fail"}
    /\ epc \in [Exporters -> {"template", "check", "load", "mktemp", "collect", "prompts",
                              "rename", "reload", "cleanup", "ended"}]
    /\ nextRef \in [Exporters -> Nat]
    /\ \A e \in Exporters : temp[e] # Absent => temp[e].by = e
    /\ run # Absent => run.by \in Exporters
    /\ eresult \in [Exporters -> Results]
    /\ faults \in 0..MaxFaults

(* A template whose holes are filled where they are, from one trace.       *)
InPlace(lines, payload) ==
    [i \in DOMAIN BodyOf(lines) |->
        LET piece == BodyOf(lines)[i]
        IN  IF "hole" \in DOMAIN piece THEN [json |-> payload.object[piece.hole]] ELSE piece]

(* A run directory that can be seen has a prompt for each trace, and its   *)
(* manifest lists them; each prompt is its template filled, hole by hole,  *)
(* from a trace of that id (exportPrompts 5 to 8, renderPrompt).  Only a   *)
(* write that is lost after the stream was checked tears one.              *)
PublishedRunIsWhole ==
    run # Absent =>
        LET refs == Refs
            Made(id, i) ==
                /\ RefId(refs[i]) = id
                /\ run.prompts[id] = Prompt(InPlace(template[run.by].lines, PayloadOf(refs[i])))
        IN  /\ DOMAIN run.prompts = {RefId(refs[i]) : i \in DOMAIN refs}
            /\ run.manifest # Torn =>
                  /\ run.manifest.trace_ids = DOMAIN run.prompts
                  /\ run.manifest.total_traces = Cardinality(DOMAIN run.prompts)
            /\ \A id \in DOMAIN run.prompts :
                  \/ LateWriteErrors /\ faults > 0 /\ run.prompts[id] = Torn
                  \/ \E i \in DOMAIN refs : Made(id, i)

(* The same file without anything that is gold, a review or about another  *)
(* trace; one solution is left, the first of this trace.                   *)
Without(o, keys) ==
    IF IsObject(o) THEN Object([k \in DOMAIN o.object \ keys |-> o.object[k]]) ELSE o
Blinded(doc, trace) ==
    LET solutions == ItemsOf(doc, "candidate_solutions")
        tests == ItemsOf(doc, "test_cases")
        own == {i \in DOMAIN solutions : /\ HasType(solutions[i], "trace_id", {"string"})
                                         /\ TextOf(solutions[i], "trace_id") = TextOf(trace, "id")}
        replaced ==
            [reasoning_traces |-> Array(<<Without(trace, ForbiddenKeys)>>),
             candidate_solutions |->
                 Array(IF own = {} THEN <<>> ELSE <<solutions[Min(own)]>>),
             test_cases |-> Array([i \in DOMAIN tests |-> Without(tests[i], {"notes"})]),
             problem |-> Without(SubObject(doc, "problem"), {"notes"})]
    IN  Object([k \in DOMAIN doc.object \ {"diagnoses", "verification_results", "meta"} |->
                    IF k \in DOMAIN replaced THEN replaced[k] ELSE doc.object[k]])

(* No key that the audit forbids is in a published prompt at any depth,    *)
(* and the prompt would be the same if all gold, all review data, the      *)
(* notes, the other traces and the other solutions were cut from the file  *)
(* (projectTraceInput, auditStructuralLeakage).                            *)
NoGoldInPrompt ==
    run # Absent =>
        LET refs == Refs IN
        \A i \in DOMAIN refs :
            LET ref == refs[i]
                doc == ProblemFile(ref.problem).loaded
                prompt == run.prompts[RefId(ref)]
                blind == Blinded(doc, ref.trace)
                twins == {j \in DOMAIN refs : RefId(refs[j]) = RefId(ref)}
            IN  (prompt # Torn /\ twins = {i} /\ HasType(doc, "problem", {"object"})) =>
                    /\ prompt.text = InPlace(template[run.by].lines,
                                 ProjectTraceInput(blind, ItemsOf(blind, "reasoning_traces")[1]))
                    /\ \A p \in ToSet(prompt.text) :
                          "json" \in DOMAIN p => KeysWithin(p.json) \cap ForbiddenKeys = {}

(* What validate has accepted loads, and each of its traces gets a prompt  *)
(* of its own: the exporter overwrites and de-duplicates without a word,   *)
(* so the ids must be unique over all files (validateDataset,              *)
(* exportPrompts 5).                                                       *)
ValidatedExport ==
    verdict = "pass" =>
        /\ \A e \in Exporters : eresult[e] \notin {"E_DATA_LOAD", "E_FOREIGN_KEY"}
        /\ run # Absent =>
              Cardinality(DOMAIN run.prompts) = Cardinality(Places("reasoning_traces"))

(* A command returns ok only for the directory it has published, and an    *)
(* error only if it has published none, but for a torn manifest; and it    *)
(* leaves no temporary directory behind, unless remove_all fails too       *)
(* (exportPrompts failCleanup and 8, main).                                *)
ExportIsTruthful ==
    \A e \in Exporters : epc[e] = "ended" /\ eresult[e] # "killed" =>
        /\ (run # Absent /\ run.by = e) <=> eresult[e] \in {"ok", "E_JSON_PARSE"}
        /\ eresult[e] = "ok" => run.manifest # Torn
        /\ temp[e] # Absent =>
              faults >= IF eresult[e] = "E_WRITE_FAILED" /\ run = Absent THEN 2 ELSE 1

PublisherStates ==
    [e \in Exporters |->
        IF run # Absent /\ run.by = e THEN "published"
        ELSE IF epc[e] \in {"cleanup", "ended"} THEN "gave up" ELSE "preparing"]

(* The run directory appears in one step, by one command, and stays.       *)
Atomic == INSTANCE AtomicPublish WITH
    Publishers <- Exporters, Nothing <- Absent, published <- run, publisher <- PublisherStates
ImplementsAtomicPublish == Atomic!Spec
=============================================================================
