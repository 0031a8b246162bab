--------------------------- MODULE EvaluationRun ---------------------------
(***************************************************************************)
(* One experiment run directory and the commands that work on it:          *)
(* call-hy3 (the audited ModelRunner), import-response and                 *)
(* mark-not-attempted (PredictionImporter), report (Reporter).  Each       *)
(* command is a process of its own; a process may be killed at any step.   *)
(* The directory survives it.                                              *)
(*                                                                         *)
(* Abstractions.  A response is a member of Bytes and stands for its bytes *)
(* and for its SHA-256.  Prompts, identities and timestamps never change   *)
(* here.  A file that is opened for writing is truncated by that step and  *)
(* gets its bytes in a later one, as std::ofstream does.                   *)
(***************************************************************************)
EXTENDS Naturals, FiniteSets

CONSTANTS
    Commands,       \* invocations of the command-line program
    Traces,         \* trace_ids of run-manifest.json
    Bytes,          \* responses a model may give or an operator may import
    Empty,          \* the zero-byte response, also a file just truncated
    Absent, Torn,   \* no such file; a file with some other content
    ParseStatusOf,  \* classifyResponse: the parse_status of each response
    LateWriteErrors \* whether a write may be lost after the stream reported ok

ImportStatuses ==
    {"empty_response", "invalid_json", "schema_invalid", "semantic_invalid",
     "parsed"}

ParseStatuses == ImportStatuses \cup {"model_call_not_attempted"}

(* What a report may count for a trace, before and after it is read.       *)
Tally == ParseStatuses \cup {"none", "wrapper_missing", "unread"}

ASSUME BytesAssumption ==
    /\ Empty \in Bytes
    /\ Absent \notin Bytes /\ Torn \notin Bytes /\ Absent # Torn

ASSUME TracesAssumption == Traces # {}

ASSUME ClassifierAssumption ==
    /\ ParseStatusOf \in [Bytes -> ImportStatuses]
    /\ ParseStatusOf[Empty] = "empty_response"

VARIABLES
    inTurns,    \* whether the operator waits for a command to end; never changes
    manifest,   \* run-manifest.json: completed_at null, set, or unreadable
    raw,        \* raw-responses/<t>.txt
    predictions, \* predictions/<t>.json
    sidecar,    \* model-calls/<t>.json
    reportJson, \* report.json, as the statuses it counted, Absent or Torn
    reportMd,   \* report.md, the same
    pc,         \* the next step of each command
    cmd,        \* which command it is
    trace,      \* the trace it works on
    bytes,      \* raw_response of its call, or the bytes of its raw file
    callStatus, \* ModelCallResult.status: not known yet, succeeded, failed
    good,       \* result.ok so far
    saved,      \* responseSaved of finishAudit
    imported,   \* parse_status finishAudit accepts, or "none"
    seen,       \* per trace, what the reporter has counted
    invoked     \* history: how often client.invoke ran for each trace

disk == <<manifest, raw, predictions, sidecar, reportJson, reportMd>>
locals == <<cmd, trace, bytes, callStatus, good, saved, imported, seen>>
vars == <<inTurns, disk, pc, locals, invoked>>

----------------------------------------------------------------------------
(* Records kept in files                                                   *)

WrapperFile(state, sha, parseStatus) ==
    [state |-> state, sha |-> sha, parse_status |-> parseStatus]

NoWrapperFile == WrapperFile("absent", Absent, "none")
TruncatedWrapper == WrapperFile("truncated", Absent, "none")
TornWrapper == WrapperFile("torn", Absent, "none")
NotAttemptedWrapper == WrapperFile("complete", Absent, "model_call_not_attempted")
ImportedWrapper(b) == WrapperFile("complete", b, ParseStatusOf[b])

Sidecar(outcome, isSaved, sha, parseStatus) ==
    [outcome |-> outcome, response_saved |-> isSaved, sha |-> sha,
     prediction_imported |-> parseStatus # "none", parse_status |-> parseStatus]

NoSidecar == Sidecar("absent", FALSE, Absent, "none")
Attempting == Sidecar("attempting", FALSE, Absent, "none")
FinalOutcomes == {"success", "empty_response", "postprocess_error", "call_failed"}

Settled(t) == sidecar[t].outcome \in FinalOutcomes

(* ModelRunner's steps from the published sidecar to its replacement; the  *)
(* importer's steps among them are shared with import-response.            *)
CallSteps == {"precheck_raw", "precheck_prediction", "precheck_sidecar",
              "publish_sidecar"}
ImportSteps == {"import_context", "import_prediction", "raw_check", "raw_open",
                "raw_write", "wrapper_check", "wrapper_open", "wrapper_write"}
AuditSteps == {"audit_raw", "audit_prediction", "audit_replace"}
HeldSteps == {"invoke", "await"} \cup ImportSteps \cup AuditSteps
MarkSteps == {"mark_check", "wrapper_open", "wrapper_write"}
ReportSteps == {"report_read", "report_json", "report_md_open", "report_md",
                "manifest_load", "manifest_open", "manifest_write"}
Steps == CallSteps \cup HeldSteps \cup MarkSteps \cup ReportSteps
Ended == {"unborn", "done", "audit_lost", "crashed"}

Running(p) == pc[p] \notin Ended

(* p is the call that owns the sidecar of t.                               *)
Holds(p, t) == cmd[p] = "call" /\ trace[p] = t /\ pc[p] \in HeldSteps

TypeOK ==
    /\ manifest \in {"open", "completed", "torn"}
    /\ raw \in [Traces -> Bytes \cup {Absent, Torn}]
    /\ predictions \in [Traces ->
          [state : {"absent", "truncated", "torn", "complete"},
           sha : Bytes \cup {Absent}, parse_status : ParseStatuses \cup {"none"}]]
    /\ sidecar \in [Traces ->
          [outcome : {"absent", "attempting"} \cup FinalOutcomes,
           response_saved : BOOLEAN, sha : Bytes \cup {Absent},
           prediction_imported : BOOLEAN,
           parse_status : ParseStatuses \cup {"none"}]]
    /\ reportJson \in [Traces -> Tally] \cup {Absent, Torn}
    /\ reportMd \in [Traces -> Tally] \cup {Absent, Torn}
    /\ pc \in [Commands -> Steps \cup Ended]
    /\ cmd \in [Commands -> {"none", "call", "import", "mark", "report", "complete"}]
    /\ trace \in [Commands -> Traces]
    /\ bytes \in [Commands -> Bytes]
    /\ callStatus \in [Commands -> {"none", "succeeded", "failed"}]
    /\ good \in [Commands -> BOOLEAN]
    /\ saved \in [Commands -> BOOLEAN]
    /\ imported \in [Commands -> ParseStatuses \cup {"none"}]
    /\ seen \in [Commands -> [Traces -> Tally]]
    /\ invoked \in [Traces -> Nat]

Init ==
    /\ inTurns \in BOOLEAN
    /\ manifest = "open"
    /\ raw = [t \in Traces |-> Absent]
    /\ predictions = [t \in Traces |-> NoWrapperFile]
    /\ sidecar = [t \in Traces |-> NoSidecar]
    /\ reportJson = Absent
    /\ reportMd = Absent
    /\ pc = [p \in Commands |-> "unborn"]
    /\ cmd = [p \in Commands |-> "none"]
    /\ trace = [p \in Commands |-> CHOOSE t \in Traces : TRUE]
    /\ bytes = [p \in Commands |-> Empty]
    /\ callStatus = [p \in Commands |-> "none"]
    /\ good = [p \in Commands |-> TRUE]
    /\ saved = [p \in Commands |-> FALSE]
    /\ imported = [p \in Commands |-> "none"]
    /\ seen = [p \in Commands |-> [t \in Traces |-> "unread"]]
    /\ invoked = [t \in Traces |-> 0]

----------------------------------------------------------------------------
(* Steps every command shares                                              *)

Goto(p, from, to) == pc[p] = from /\ pc' = [pc EXCEPT ![p] = to]

(* In turns, the operator runs the next command once the last one has      *)
(* ended or was killed.                                                    *)
Begin(p, name, t) ==
    /\ inTurns => \A q \in Commands : ~Running(q)
    /\ cmd' = [cmd EXCEPT ![p] = name]
    /\ trace' = [trace EXCEPT ![p] = t]
    /\ UNCHANGED <<disk, callStatus, saved, imported, seen, invoked>>

(* A command that is refused ends; a refusal inside a call ends only the   *)
(* import, and finishAudit follows.  "audit_lost" is the call that could   *)
(* not replace its sidecar and says so with E_AUDIT_WRITE.                 *)
Refuse(p, from) ==
    /\ Goto(p, from, IF from = "audit_replace" THEN "audit_lost" ELSE "done")
    /\ good' = [good EXCEPT ![p] = FALSE]
    /\ UNCHANGED <<disk, cmd, trace, bytes, callStatus, saved, imported, seen, invoked>>

(* Mutant: an import that is refused returns before finishAudit.           *)
RefuseImportEndsCall(p, from) ==
    /\ Goto(p, from, "done")
    /\ good' = [good EXCEPT ![p] = FALSE]
    /\ UNCHANGED <<disk, cmd, trace, bytes, callStatus, saved, imported, seen, invoked>>

RefuseImport(p, from) ==
    /\ Goto(p, from, IF cmd[p] = "call" THEN "audit_raw" ELSE "done")
    /\ good' = [good EXCEPT ![p] = FALSE]
    /\ UNCHANGED <<disk, cmd, trace, bytes, callStatus, saved, imported, seen, invoked>>

Pass(p, from, to) == Goto(p, from, to) /\ UNCHANGED <<disk, locals, invoked>>

(* The process is killed; the directory keeps whatever it has.             *)
Crash(p) ==
    /\ Running(p)
    /\ pc' = [pc EXCEPT ![p] = "crashed"]
    /\ UNCHANGED <<disk, locals, invoked>>

----------------------------------------------------------------------------
(* call-hy3: runRecordedModelForTrace                                      *)

(* The manifest must be readable and completed_at must still be null.      *)
StartCall(p, t) ==
    /\ Goto(p, "unborn", IF manifest = "open" THEN "precheck_raw" ELSE "done")
    /\ Begin(p, "call", t)
    /\ good' = [good EXCEPT ![p] = manifest = "open"]
    /\ UNCHANGED bytes

PrecheckRaw(p) ==
    \/ raw[trace[p]] = Absent /\ Pass(p, "precheck_raw", "precheck_prediction")
    \/ raw[trace[p]] # Absent /\ Refuse(p, "precheck_raw")

PrecheckPrediction(p) ==
    \/ predictions[trace[p]].state = "absent"
       /\ Pass(p, "precheck_prediction", "precheck_sidecar")
    \/ predictions[trace[p]].state # "absent" /\ Refuse(p, "precheck_prediction")

PrecheckSidecar(p) ==
    \/ sidecar[trace[p]] = NoSidecar /\ Pass(p, "precheck_sidecar", "publish_sidecar")
    \/ sidecar[trace[p]] # NoSidecar /\ Refuse(p, "precheck_sidecar")

(* Mutant: the sidecar is published by rename(), which replaces.           *)
PublishByRename(p) ==
    \/ /\ Goto(p, "publish_sidecar", "invoke")
       /\ sidecar' = [sidecar EXCEPT ![trace[p]] = Attempting]
       /\ UNCHANGED <<manifest, raw, predictions, reportJson, reportMd, locals, invoked>>
    \/ Refuse(p, "publish_sidecar")

(* Mutant: the result of publishing is not looked at.                      *)
PublishUnchecked(p) ==
    /\ Goto(p, "publish_sidecar", "invoke")
    /\ \/ /\ sidecar[trace[p]] = NoSidecar
          /\ sidecar' = [sidecar EXCEPT ![trace[p]] = Attempting]
       \/ UNCHANGED sidecar
    /\ UNCHANGED <<manifest, raw, predictions, reportJson, reportMd, locals, invoked>>

(* link() succeeds for exactly one caller; it may also fail for the disk.  *)
PublishNewSidecar(p) ==
    \/ /\ sidecar[trace[p]] = NoSidecar
       /\ Goto(p, "publish_sidecar", "invoke")
       /\ sidecar' = [sidecar EXCEPT ![trace[p]] = Attempting]
       /\ UNCHANGED <<manifest, raw, predictions, reportJson, reportMd, locals, invoked>>
    \/ Refuse(p, "publish_sidecar")

(* client.invoke() runs: the request may be billed from here on.           *)
Invoke(p) ==
    /\ Goto(p, "invoke", "await")
    /\ invoked' = [invoked EXCEPT ![trace[p]] = @ + 1]
    /\ UNCHANGED <<disk, locals>>

(* The call returns.  A success with missing or foreign identity skips the *)
(* import, and so does a failure, with or without bytes.                   *)
InvokeReturns(p, s, b, identityOk) ==
    LET importing == s = "succeeded" /\ identityOk
    IN  /\ Goto(p, "await", IF importing THEN "import_context" ELSE "audit_raw")
        /\ callStatus' = [callStatus EXCEPT ![p] = s]
        /\ bytes' = [bytes EXCEPT ![p] = b]
        /\ good' = [good EXCEPT ![p] = importing]
        /\ UNCHANGED <<disk, cmd, trace, saved, imported, seen, invoked>>

(* Mutant: finishAudit believes the importer instead of reading back.      *)
AuditTrustsImport(p) ==
    /\ Goto(p, "audit_raw", "audit_prediction")
    /\ saved' = [saved EXCEPT ![p] = callStatus[p] = "succeeded"]
    /\ UNCHANGED <<disk, cmd, trace, bytes, callStatus, good, imported, seen, invoked>>

(* finishAudit, first part: the raw file is read back and compared.        *)
AuditReadRaw(p) ==
    /\ Goto(p, "audit_raw", "audit_prediction")
    /\ saved' = [saved EXCEPT ![p] = raw[trace[p]] = bytes[p]]
    /\ UNCHANGED <<disk, cmd, trace, bytes, callStatus, good, imported, seen, invoked>>

(* Second part: the wrapper counts if it names the bytes just read back.   *)
(* A not_attempted wrapper has a null hash, and value() throws on it: the  *)
(* exception leaves the sidecar as it is and ends the command.             *)
AuditReadPrediction(p) ==
    LET w == predictions[trace[p]]
        throws == saved[p] /\ w = NotAttemptedWrapper
        accepted == saved[p] /\ w.state = "complete" /\ w.sha = bytes[p]
    IN  /\ Goto(p, "audit_prediction", IF throws THEN "done" ELSE "audit_replace")
        /\ good' = [good EXCEPT ![p] = @ /\ ~throws]
        /\ imported' = [imported EXCEPT ![p] = IF accepted THEN w.parse_status ELSE "none"]
        /\ UNCHANGED <<disk, cmd, trace, bytes, callStatus, saved, seen, invoked>>

AuditedOutcome(p) ==
    IF callStatus[p] = "failed" THEN "call_failed"
    ELSE IF ~good[p] THEN "postprocess_error"
    ELSE IF bytes[p] = Empty THEN "empty_response" ELSE "success"

FinalSidecar(p) ==
    Sidecar(AuditedOutcome(p), saved[p],
            IF saved[p] THEN bytes[p] ELSE Absent, imported[p])

(* rename() over the old sidecar, or E_AUDIT_WRITE.                        *)
ReplaceSidecar(p) ==
    \/ /\ Goto(p, "audit_replace", "done")
       /\ sidecar' = [sidecar EXCEPT ![trace[p]] = FinalSidecar(p)]
       /\ UNCHANGED <<manifest, raw, predictions, reportJson, reportMd, locals, invoked>>
    \/ Refuse(p, "audit_replace")

----------------------------------------------------------------------------
(* import-response, and the import inside a call: importResponseBytes      *)

StartImport(p, t, b) ==
    /\ Goto(p, "unborn", "import_context")
    /\ Begin(p, "import", t)
    /\ bytes' = [bytes EXCEPT ![p] = b]
    /\ UNCHANGED good

ImportContext(p) ==
    \/ manifest # "torn" /\ Pass(p, "import_context", "import_prediction")
    \/ manifest = "torn" /\ RefuseImport(p, "import_context")

ImportCheckPrediction(p) ==
    \/ predictions[trace[p]].state = "absent" /\ Pass(p, "import_prediction", "raw_check")
    \/ predictions[trace[p]].state # "absent" /\ RefuseImport(p, "import_prediction")

(* Mutants: an existing raw file is overwritten; or taken for one's own.   *)
SaveRawOverwrites(p) == Pass(p, "raw_check", "raw_open")

SaveRawAdopts(p) ==
    \/ raw[trace[p]] = Absent /\ Pass(p, "raw_check", "raw_open")
    \/ raw[trace[p]] # Absent /\ Pass(p, "raw_check", "wrapper_check")

SaveRawCheck(p) ==
    \/ raw[trace[p]] = Absent /\ Pass(p, "raw_check", "raw_open")
    \/ raw[trace[p]] # Absent /\ RefuseImport(p, "raw_check")

SaveRawOpen(p) ==
    \/ /\ Goto(p, "raw_open", "raw_write")
       /\ raw' = [raw EXCEPT ![trace[p]] = Empty]
       /\ UNCHANGED <<manifest, predictions, sidecar, reportJson, reportMd, locals, invoked>>
    \/ RefuseImport(p, "raw_open")

(* What a file holds after b is written at offset 0 over what was there: b, *)
(* unless another writer's longer content still shows behind it; zero bytes *)
(* change nothing; a write the disk loses leaves old or partial content.    *)
RawAfterWrite(old, b) ==
    IF b = Empty THEN {old}
    ELSE {b} \cup (IF old \in {Empty, b} THEN {} ELSE {Torn})
             \cup (IF LateWriteErrors THEN {old, Torn} ELSE {})

SaveRawWrite(p) ==
    /\ Goto(p, "raw_write", "wrapper_check")
    /\ \E content \in RawAfterWrite(raw[trace[p]], bytes[p]) :
          raw' = [raw EXCEPT ![trace[p]] = content]
    /\ UNCHANGED <<manifest, predictions, sidecar, reportJson, reportMd, locals, invoked>>

(* The write is reported to fail: part of the bytes may be on disk.        *)
SaveRawFails(p) ==
    /\ LateWriteErrors
    /\ Goto(p, "raw_write", IF cmd[p] = "call" THEN "audit_raw" ELSE "done")
    /\ \E content \in {raw[trace[p]], Torn} :
          raw' = [raw EXCEPT ![trace[p]] = content]
    /\ good' = [good EXCEPT ![p] = FALSE]
    /\ UNCHANGED <<manifest, predictions, sidecar, reportJson, reportMd,
                   cmd, trace, bytes, callStatus, saved, imported, seen, invoked>>

(* writePredictionWrapper reads the manifest again and checks again.       *)
WrapperCheck(p) ==
    LET clear == manifest # "torn" /\ predictions[trace[p]].state = "absent"
    IN  \/ clear /\ Pass(p, "wrapper_check", "wrapper_open")
        \/ ~clear /\ RefuseImport(p, "wrapper_check")

(* The file is created; it may be that it cannot be, or that the text has  *)
(* the internal sentinel in it and is not written at all.                  *)
WrapperOpen(p) ==
    \/ /\ Goto(p, "wrapper_open", "wrapper_write")
       /\ predictions' = [predictions EXCEPT ![trace[p]] = TruncatedWrapper]
       /\ UNCHANGED <<manifest, raw, sidecar, reportJson, reportMd, locals, invoked>>
    \/ RefuseImport(p, "wrapper_open")

WrapperOf(p) ==
    IF cmd[p] = "mark" THEN NotAttemptedWrapper ELSE ImportedWrapper(bytes[p])

WrapperAfterWrite(old, w) ==
    {w} \cup (IF old \in {TruncatedWrapper, w} THEN {} ELSE {TornWrapper})
        \cup (IF LateWriteErrors THEN {old, TornWrapper} ELSE {})

WrapperWrite(p) ==
    /\ Goto(p, "wrapper_write", IF cmd[p] = "call" THEN "audit_raw" ELSE "done")
    /\ \E content \in WrapperAfterWrite(predictions[trace[p]], WrapperOf(p)) :
          predictions' = [predictions EXCEPT ![trace[p]] = content]
    /\ UNCHANGED <<manifest, raw, sidecar, reportJson, reportMd, locals, invoked>>

WrapperWriteFails(p) ==
    /\ LateWriteErrors
    /\ Goto(p, "wrapper_write", IF cmd[p] = "call" THEN "audit_raw" ELSE "done")
    /\ \E content \in {predictions[trace[p]], TornWrapper} :
          predictions' = [predictions EXCEPT ![trace[p]] = content]
    /\ good' = [good EXCEPT ![p] = FALSE]
    /\ UNCHANGED <<manifest, raw, sidecar, reportJson, reportMd,
                   cmd, trace, bytes, callStatus, saved, imported, seen, invoked>>

----------------------------------------------------------------------------
(* mark-not-attempted: only the wrapper is looked at                       *)

StartMark(p, t) ==
    /\ Goto(p, "unborn", IF manifest # "torn" THEN "mark_check" ELSE "done")
    /\ Begin(p, "mark", t)
    /\ good' = [good EXCEPT ![p] = manifest # "torn"]
    /\ UNCHANGED bytes

MarkCheck(p) ==
    \/ predictions[trace[p]].state = "absent" /\ Pass(p, "mark_check", "wrapper_open")
    \/ predictions[trace[p]].state # "absent" /\ Refuse(p, "mark_check")

----------------------------------------------------------------------------
(* report, with (name = "complete") or without a completed_at to record    *)

StartReport(p, name) ==
    /\ Goto(p, "unborn", IF manifest # "torn" THEN "report_read" ELSE "done")
    /\ Begin(p, name, trace[p])
    /\ good' = [good EXCEPT ![p] = manifest # "torn"]
    /\ UNCHANGED bytes

(* An unreadable wrapper fails the whole report (E_WRAPPER_PARSE).         *)
ReadWrapper(p, t) ==
    /\ seen[p][t] = "unread"
    /\ \/ /\ predictions[t].state \in {"absent", "complete"}
          /\ Goto(p, "report_read", "report_read")
          /\ seen' = [seen EXCEPT ![p][t] =
                        IF predictions[t].state = "absent" THEN "wrapper_missing"
                        ELSE predictions[t].parse_status]
          /\ UNCHANGED <<disk, cmd, trace, bytes, callStatus, good, saved, imported, invoked>>
       \/ predictions[t].state \in {"truncated", "torn"} /\ Refuse(p, "report_read")

(* Mutant: the run counts as complete once one wrapper was read.           *)
RunCompleteOnFirst(counts) == \E t \in Traces : counts[t] # "unread"

RunComplete(counts) == \A t \in Traces : counts[t] # "wrapper_missing"

(* A report file is truncated, then written; a lost write goes unnoticed.  *)
OpenReportJson(p) ==
    /\ \A t \in Traces : seen[p][t] # "unread"
    /\ \/ /\ Goto(p, "report_read", "report_json")
          /\ reportJson' = Torn
          /\ UNCHANGED <<manifest, raw, predictions, sidecar, reportMd, locals, invoked>>
       \/ Refuse(p, "report_read")

WriteReportJson(p) ==
    /\ Goto(p, "report_json", "report_md_open")
    /\ \/ reportJson' = seen[p]
       \/ LateWriteErrors /\ UNCHANGED reportJson
    /\ UNCHANGED <<manifest, raw, predictions, sidecar, reportMd, locals, invoked>>

OpenReportMd(p) ==
    \/ /\ Goto(p, "report_md_open", "report_md")
       /\ reportMd' = Torn
       /\ UNCHANGED <<manifest, raw, predictions, sidecar, reportJson, locals, invoked>>
    \/ Refuse(p, "report_md_open")

WriteReportMd(p) ==
    /\ Goto(p, "report_md", IF cmd[p] = "complete" /\ RunComplete(seen[p])
                            THEN "manifest_load" ELSE "done")
    /\ \/ reportMd' = seen[p]
       \/ LateWriteErrors /\ UNCHANGED reportMd
    /\ UNCHANGED <<manifest, raw, predictions, sidecar, reportJson, locals, invoked>>

(* The manifest is read again, then rewritten in place; a manifest that    *)
(* cannot be read or opened is left alone and the report still succeeds.   *)
LoadManifest(p) ==
    \/ manifest # "torn" /\ Pass(p, "manifest_load", "manifest_open")
    \/ manifest = "torn" /\ Pass(p, "manifest_load", "done")

OpenManifest(p) ==
    \/ /\ Goto(p, "manifest_open", "manifest_write")
       /\ manifest' = "torn"
       /\ UNCHANGED <<raw, predictions, sidecar, reportJson, reportMd, locals, invoked>>
    \/ Pass(p, "manifest_open", "done")

WriteManifest(p) ==
    /\ Goto(p, "manifest_write", "done")
    /\ \/ manifest' = "completed"
       \/ LateWriteErrors /\ UNCHANGED manifest
    /\ UNCHANGED <<raw, predictions, sidecar, reportJson, reportMd, locals, invoked>>

----------------------------------------------------------------------------
(* The whole system                                                        *)

Start(p) ==
    \/ \E t \in Traces : StartCall(p, t) \/ StartMark(p, t)
    \/ \E t \in Traces, b \in Bytes : StartImport(p, t, b)
    \/ \E name \in {"report", "complete"} : StartReport(p, name)

CallStep(p) ==
    \/ PrecheckRaw(p) \/ PrecheckPrediction(p) \/ PrecheckSidecar(p)
    \/ PublishNewSidecar(p) \/ Invoke(p)
    \/ \E s \in {"succeeded", "failed"}, b \in Bytes, identityOk \in BOOLEAN :
          InvokeReturns(p, s, b, identityOk)
    \/ AuditReadRaw(p) \/ AuditReadPrediction(p) \/ ReplaceSidecar(p)

ImportStep(p) ==
    \/ ImportContext(p) \/ ImportCheckPrediction(p)
    \/ SaveRawCheck(p) \/ SaveRawOpen(p) \/ SaveRawWrite(p) \/ SaveRawFails(p)
    \/ WrapperCheck(p) \/ WrapperOpen(p) \/ WrapperWrite(p) \/ WrapperWriteFails(p)
    \/ MarkCheck(p)

ReportStep(p) ==
    \/ \E t \in Traces : ReadWrapper(p, t)
    \/ OpenReportJson(p) \/ WriteReportJson(p) \/ OpenReportMd(p) \/ WriteReportMd(p)
    \/ LoadManifest(p) \/ OpenManifest(p) \/ WriteManifest(p)

Step(p) == CallStep(p) \/ ImportStep(p) \/ ReportStep(p)

Next ==
    /\ \E p \in Commands : Start(p) \/ Step(p) \/ Crash(p)
    /\ UNCHANGED inTurns

Spec == Init /\ [][Next]_vars

(* A command that is not killed keeps running: its loops are finite and    *)
(* client.invoke returns within the total timeout of its transport.        *)
FairSpec == Spec /\ \A p \in Commands : WF_vars(Step(p) /\ UNCHANGED inTurns)

----------------------------------------------------------------------------
(* What holds however many commands run at once                            *)

(* A trace is billed at most once: client.invoke runs at most once for it, *)
(* whatever is killed, rerun or run twice (model_runner.cpp:361-374).      *)
AtMostOneInvocation == \A t \in Traces : invoked[t] <= 1

(* No request leaves without its durable record: from the moment invoke    *)
(* runs there is a sidecar that makes every later call-hy3 refuse.         *)
InvocationIsRecorded ==
    \A t \in Traces : invoked[t] > 0 => sidecar[t] # NoSidecar

(* Why that is so.  Some steps belong to one command; the holder of a      *)
(* trace, of which there is at most one, still finds its own "attempting"  *)
(* sidecar and alone has invoked, or will invoke, for the trace.           *)
StepsOfCall == CallSteps \cup {"invoke", "await"} \cup AuditSteps

StepsFitCommands ==
    \A p \in Commands :
        /\ pc[p] \in StepsOfCall => cmd[p] = "call"
        /\ pc[p] = "mark_check" => cmd[p] = "mark"

HolderOwnsSidecar ==
    \A p \in Commands, t \in Traces : Holds(p, t) =>
        /\ sidecar[t] = Attempting
        /\ invoked[t] = IF pc[p] = "invoke" THEN 0 ELSE 1

OneHolder ==
    \A p, q \in Commands, t \in Traces : Holds(p, t) /\ Holds(q, t) => p = q

(* The inductive invariant: the latch works.                               *)
LatchInv ==
    /\ StepsFitCommands
    /\ HolderOwnsSidecar
    /\ OneHolder
    /\ AtMostOneInvocation
    /\ InvocationIsRecorded

(* The audit record of a trace is created once as "attempting", replaced   *)
(* once by a final outcome, by the call that created it, and never after.  *)
SidecarIsWrittenTwice ==
    [][\A t \in Traces : sidecar'[t] # sidecar[t] =>
          \/ sidecar[t] = NoSidecar /\ sidecar'[t] = Attempting
          \/ /\ sidecar[t] = Attempting
             /\ sidecar'[t].outcome \in FinalOutcomes
             /\ invoked[t] = 1]_vars

(* The refinement: model-calls sidecars and client.invoke are the latch    *)
(* and the request of a one-shot call.                                     *)
CallState(record, count) ==
    IF record = NoSidecar THEN "idle"
    ELSE IF record.outcome \in FinalOutcomes THEN "settled"
    ELSE IF count = 0 THEN "latched" ELSE "sent"

CallStates == [t \in Traces |-> CallState(sidecar[t], invoked[t])]

Audited == INSTANCE OneShotCall WITH Keys <- Traces, call <- CallStates

(* The audited runner implements OneShotCall.                              *)
ImplementsOneShotCall == Audited!Spec

(* A call that got past its latch settles its sidecar, unless it is killed *)
(* or cannot write: when commands take turns, nothing else may stop it.    *)
HeldCallSettles ==
    \A p \in Commands : \A t \in Traces :
        inTurns /\ Holds(p, t) ~> Settled(t) \/ pc[p] \in {"crashed", "audit_lost"}

----------------------------------------------------------------------------
(* What holds when commands are run one at a time, killed ones included    *)

(* Saved responses are evidence: once written, a raw file keeps its bytes. *)
RawIsImmutable ==
    [][inTurns =>
          \A t \in Traces :
             raw[t] # Absent /\ (\A p \in Commands : trace[p] = t => pc[p] # "raw_write")
                => raw'[t] = raw[t]]_vars

(* The hash in an imported wrapper is the hash of the raw file beside it.  *)
NamesRaw ==
    \A t \in Traces :
        predictions[t].state = "complete" /\ predictions[t] # NotAttemptedWrapper
            => raw[t] = predictions[t].sha

WrapperNamesRaw == inTurns => NamesRaw

(* A final sidecar claims only what the other two files show, even when a  *)
(* write was lost unnoticed; a failed call claims no response at all.      *)
SidecarIsTruthful ==
    inTurns =>
        \A t \in Traces : Settled(t) =>
            /\ sidecar[t].response_saved => raw[t] = sidecar[t].sha
            /\ sidecar[t].prediction_imported =>
                  predictions[t] =
                      WrapperFile("complete", sidecar[t].sha, sidecar[t].parse_status)
            /\ sidecar[t].outcome = "call_failed" =>
                  ~sidecar[t].response_saved /\ ~sidecar[t].prediction_imported

(* A call that ran to its end (no kill, no E_AUDIT_WRITE) left a final     *)
(* sidecar, as protocol section 6.2 requires.                              *)
EndsSettled(p) ==
    cmd[p] = "call" /\ pc[p] = "done" /\ callStatus[p] # "none" => Settled(trace[p])

EndedCallIsSettled == inTurns => \A p \in Commands : EndsSettled(p)

(* A completed run stays whole: every trace has a readable wrapper, and    *)
(* both reports show the statuses in these wrappers, unless a later report *)
(* command was killed between truncating and writing them.                 *)
CompletedIsWhole ==
    manifest = "completed" =>
        LET statuses == [t \in Traces |-> predictions[t].parse_status]
        IN  /\ \A t \in Traces : predictions[t].state = "complete"
            /\ reportJson \in {statuses, Torn}
            /\ reportMd \in {statuses, Torn}

CompletedRunIsWhole == inTurns => CompletedIsWhole

(* Why these hold when commands take turns.  Nobody else runs, so what a   *)
(* command has seen of its raw file, its wrapper and its report is still   *)
(* there at the step that relies on it.                                    *)
OneRuns == \A p, q \in Commands : Running(p) /\ Running(q) => p = q

KnowsRaw(p) ==
    LET t == trace[p]
    IN  /\ pc[p] \in (CallSteps \ {"precheck_raw"}) \cup {"invoke", "await", "raw_open"}
              => raw[t] = Absent
        /\ cmd[p] = "call" /\ pc[p] \in {"import_context", "import_prediction", "raw_check"}
              => raw[t] = Absent
        /\ pc[p] \in AuditSteps /\ callStatus[p] = "failed" => raw[t] = Absent
        /\ pc[p] = "raw_write" => raw[t] = Empty
        /\ pc[p] \in {"raw_open", "raw_write"} => ~sidecar[t].response_saved

KnowsWrapper(p) ==
    LET w == predictions[trace[p]]
    IN  /\ pc[p] \in {"precheck_sidecar", "publish_sidecar", "invoke", "await", "raw_check",
                      "raw_open", "raw_write", "wrapper_open"} => w.state = "absent"
        /\ cmd[p] = "call" /\ pc[p] \in {"import_context", "import_prediction", "wrapper_check"}
              => w.state = "absent"
        /\ pc[p] = "wrapper_write" => w = TruncatedWrapper
        /\ pc[p] \in AuditSteps => w # NotAttemptedWrapper

KnowsOutcome(p) ==
    /\ pc[p] \in CallSteps \cup {"unborn", "invoke", "await"} => callStatus[p] = "none"
    /\ cmd[p] = "call" /\ pc[p] \in ImportSteps => callStatus[p] = "succeeded"
    /\ pc[p] \in ReportSteps => cmd[p] # "call"
    /\ pc[p] \in {"audit_prediction", "audit_replace"} /\ saved[p] =>
          raw[trace[p]] = bytes[p] /\ callStatus[p] # "failed"
    /\ pc[p] = "audit_replace" /\ imported[p] # "none" =>
          saved[p] /\ predictions[trace[p]] = WrapperFile("complete", bytes[p], imported[p])

Mine(p) == KnowsRaw(p) /\ KnowsWrapper(p) /\ KnowsOutcome(p)

(* What needs a disk that loses no write, besides.                         *)
KnowsSavedBytes(p) ==
    pc[p] \in {"wrapper_check", "wrapper_open", "wrapper_write"} /\ cmd[p] # "mark"
        => raw[trace[p]] = bytes[p]

Counted(p, t) ==
    \/ predictions[t].state = "absent" /\ seen[p][t] = "wrapper_missing"
    \/ predictions[t].state = "complete" /\ seen[p][t] = predictions[t].parse_status

ManifestSteps == {"manifest_load", "manifest_open", "manifest_write"}

KnowsReport(p) ==
    /\ pc[p] = "unborn" => \A t \in Traces : seen[p][t] = "unread"
    /\ pc[p] \in ReportSteps =>
          \A t \in Traces : Counted(p, t) \/ (pc[p] = "report_read" /\ seen[p][t] = "unread")
    /\ pc[p] \in {"report_md_open", "report_md"} \cup ManifestSteps => reportJson = seen[p]
    /\ pc[p] \in ManifestSteps => reportMd = seen[p] /\ RunComplete(seen[p])

(* A sidecar claims nothing before it is final.                            *)
ClaimsAreTrue ==
    \A t \in Traces :
        /\ sidecar[t].response_saved =>
              raw[t] = sidecar[t].sha /\ sidecar[t].sha # Absent
        /\ sidecar[t].prediction_imported =>
              predictions[t] = WrapperFile("complete", sidecar[t].sha, sidecar[t].parse_status)
        /\ sidecar[t].outcome = "call_failed" =>
              ~sidecar[t].response_saved /\ ~sidecar[t].prediction_imported

(* The inductive invariants: of commands that take turns, and of commands  *)
(* that take turns on a disk that loses no write.                          *)
SerialInv ==
    inTurns =>
        /\ OneRuns
        /\ \A p \in Commands : Mine(p) /\ EndsSettled(p)
        /\ ClaimsAreTrue

SoundDiskInv ==
    inTurns /\ ~LateWriteErrors =>
        /\ \A p \in Commands : KnowsSavedBytes(p) /\ KnowsReport(p)
        /\ NamesRaw
        /\ CompletedIsWhole

(* model_call_not_attempted is said only of a trace the model was never    *)
(* called for (docs/phase-02-protocol.md:165).                             *)
NotAttemptedMeansNotInvoked ==
    \A t \in Traces : predictions[t] = NotAttemptedWrapper => invoked[t] = 0

(* finishAudit settles the sidecar of a call that ran to its end, however  *)
(* many commands run (docs/phase-02-protocol.md, section 6.2).             *)
EveryEndedCallIsSettled == \A p \in Commands : EndsSettled(p)
============================================================================
