------------------------ MODULE EvaluationRunProofs ------------------------
(***************************************************************************)
(* Proofs about EvaluationRun, for every set of commands, traces and       *)
(* responses and both values of LateWriteErrors, whether or not commands   *)
(* take turns; then, for those that do, the two inductive invariants       *)
(* SerialInv and SoundDiskInv, kills included.                             *)
(***************************************************************************)
EXTENDS EvaluationRun, TLAPS

(* Four frames leave everything but the program counter (and result.ok)    *)
(* alone, and keep the state well typed.                                   *)
LEMMA PassIsTyped ==
    ASSUME TypeOK, NEW p \in Commands, NEW from, NEW to \in Steps \cup Ended, Pass(p, from, to)
    PROVE  TypeOK'
BY DEF TypeOK, Pass, Goto, disk, locals

LEMMA RefuseIsTyped ==
    ASSUME TypeOK, NEW p \in Commands, NEW from, Refuse(p, from)
    PROVE  TypeOK'
BY DEF TypeOK, Refuse, Goto, disk, Ended

LEMMA RefuseImportIsTyped ==
    ASSUME TypeOK, NEW p \in Commands, NEW from, RefuseImport(p, from)
    PROVE  TypeOK'
BY DEF TypeOK, RefuseImport, Goto, disk, Steps, HeldSteps, AuditSteps, Ended

LEMMA CrashIsTyped ==
    ASSUME TypeOK, NEW p \in Commands, Crash(p)
    PROVE  TypeOK'
BY DEF TypeOK, Crash, disk, locals, Ended

(* The first step of a command.                                            *)
LEMMA StartIsTyped ==
    ASSUME TypeOK, NEW p \in Commands, Start(p)
    PROVE  TypeOK'
<1>1. ASSUME NEW t \in Traces, StartCall(p, t) PROVE TypeOK'
  BY <1>1 DEF TypeOK, StartCall, Begin, Goto, disk, Steps, Ended, CallSteps
<1>2. ASSUME NEW t \in Traces, StartMark(p, t) PROVE TypeOK'
  BY <1>2 DEF TypeOK, StartMark, Begin, Goto, disk, Steps, Ended, MarkSteps
<1>3. ASSUME NEW t \in Traces, NEW b \in Bytes, StartImport(p, t, b) PROVE TypeOK'
  BY <1>3 DEF TypeOK, StartImport, Begin, Goto, disk, Steps, Ended, HeldSteps, ImportSteps
<1>4. ASSUME NEW name \in {"report", "complete"}, StartReport(p, name) PROVE TypeOK'
  BY <1>4 DEF TypeOK, StartReport, Begin, Goto, disk, Steps, Ended, ReportSteps
<1> QED BY <1>1, <1>2, <1>3, <1>4 DEF Start

(* The steps of call-hy3 outside the import.                               *)
LEMMA CallStepIsTyped ==
    ASSUME TypeOK, NEW p \in Commands, CallStep(p)
    PROVE  TypeOK'
<1> USE DEF Steps, Ended, HeldSteps, CallSteps, AuditSteps, ImportSteps
<1>1. CASE PrecheckRaw(p) \/ PrecheckPrediction(p) \/ PrecheckSidecar(p)
  BY <1>1, PassIsTyped, RefuseIsTyped DEF PrecheckRaw, PrecheckPrediction, PrecheckSidecar
<1>2. CASE PublishNewSidecar(p)
  <2>1. CASE Refuse(p, "publish_sidecar")
    BY <2>1, RefuseIsTyped
  <2>2. ASSUME ~Refuse(p, "publish_sidecar") PROVE TypeOK'
    <3>1. /\ pc' = [pc EXCEPT ![p] = "invoke"]
          /\ sidecar' = [sidecar EXCEPT ![trace[p]] = Attempting]
          /\ UNCHANGED <<manifest, raw, predictions, reportJson, reportMd, locals, invoked>>
      BY <1>2, <2>2 DEF PublishNewSidecar, Goto
    <3>2. Attempting \in
            [outcome : {"absent", "attempting"} \cup FinalOutcomes,
             response_saved : BOOLEAN, sha : Bytes \cup {Absent},
             prediction_imported : BOOLEAN, parse_status : ParseStatuses \cup {"none"}]
      BY DEF Attempting, Sidecar
    <3> QED BY <3>1, <3>2 DEF TypeOK, locals
  <2> QED BY <2>1, <2>2
<1>3. CASE Invoke(p)
  BY <1>3 DEF Invoke, TypeOK, Goto, disk, locals
<1>4. ASSUME NEW s \in {"succeeded", "failed"}, NEW b \in Bytes,
             NEW identityOk \in BOOLEAN, InvokeReturns(p, s, b, identityOk)
      PROVE  TypeOK'
  BY <1>4 DEF InvokeReturns, TypeOK, Goto, disk
<1>5. CASE AuditReadRaw(p)
  BY <1>5 DEF AuditReadRaw, TypeOK, Goto, disk
<1>6. CASE AuditReadPrediction(p)
  BY <1>6 DEF AuditReadPrediction, TypeOK, Goto, disk
<1>7. CASE ReplaceSidecar(p)
  <2>1. CASE Refuse(p, "audit_replace")
    BY <2>1, RefuseIsTyped
  <2>2. FinalSidecar(p) \in
          [outcome : {"absent", "attempting"} \cup FinalOutcomes,
           response_saved : BOOLEAN, sha : Bytes \cup {Absent},
           prediction_imported : BOOLEAN, parse_status : ParseStatuses \cup {"none"}]
    BY DEF FinalSidecar, Sidecar, AuditedOutcome, FinalOutcomes, TypeOK
  <2>3. ASSUME ~Refuse(p, "audit_replace") PROVE TypeOK'
    <3>1. /\ pc' = [pc EXCEPT ![p] = "done"]
          /\ sidecar' = [sidecar EXCEPT ![trace[p]] = FinalSidecar(p)]
          /\ UNCHANGED <<manifest, raw, predictions, reportJson, reportMd, locals, invoked>>
      BY <1>7, <2>3 DEF ReplaceSidecar, Goto
    <3> QED BY <3>1, <2>2 DEF TypeOK, locals
  <2> QED BY <2>1, <2>3
<1> QED BY <1>1, <1>2, <1>3, <1>4, <1>5, <1>6, <1>7 DEF CallStep

(* The steps of the importer and of mark-not-attempted.                    *)
LEMMA ImportStepIsTyped ==
    ASSUME TypeOK, NEW p \in Commands, ImportStep(p)
    PROVE  TypeOK'
<1> USE DEF Steps, Ended, HeldSteps, ImportSteps, MarkSteps, AuditSteps
<1>1. CASE ImportContext(p) \/ ImportCheckPrediction(p) \/ SaveRawCheck(p)
           \/ WrapperCheck(p) \/ MarkCheck(p)
  BY <1>1, PassIsTyped, RefuseIsTyped, RefuseImportIsTyped
     DEF ImportContext, ImportCheckPrediction, SaveRawCheck, WrapperCheck, MarkCheck
<1>2. CASE SaveRawOpen(p)
  <2>1. CASE RefuseImport(p, "raw_open")
    BY <2>1, RefuseImportIsTyped
  <2>2. ASSUME ~RefuseImport(p, "raw_open") PROVE TypeOK'
    <3>1. /\ pc' = [pc EXCEPT ![p] = "raw_write"]
          /\ raw' = [raw EXCEPT ![trace[p]] = Empty]
          /\ UNCHANGED <<manifest, predictions, sidecar, reportJson, reportMd, locals, invoked>>
      BY <1>2, <2>2 DEF SaveRawOpen, Goto
    <3> QED BY <3>1, BytesAssumption DEF TypeOK, locals
  <2> QED BY <2>1, <2>2
<1>3. CASE SaveRawWrite(p)
  <2>1. RawAfterWrite(raw[trace[p]], bytes[p]) \subseteq Bytes \cup {Absent, Torn}
    BY DEF RawAfterWrite, TypeOK
  <2> QED BY <1>3, <2>1 DEF SaveRawWrite, TypeOK, Goto, locals
<1>4. CASE SaveRawFails(p)
  BY <1>4 DEF SaveRawFails, TypeOK, Goto
<1>5. CASE WrapperOpen(p)
  <2>1. CASE RefuseImport(p, "wrapper_open")
    BY <2>1, RefuseImportIsTyped
  <2>2. ASSUME ~RefuseImport(p, "wrapper_open") PROVE TypeOK'
    <3>1. /\ pc' = [pc EXCEPT ![p] = "wrapper_write"]
          /\ predictions' = [predictions EXCEPT ![trace[p]] = TruncatedWrapper]
          /\ UNCHANGED <<manifest, raw, sidecar, reportJson, reportMd, locals, invoked>>
      BY <1>5, <2>2 DEF WrapperOpen, Goto
    <3> QED BY <3>1 DEF TypeOK, locals, TruncatedWrapper, WrapperFile
  <2> QED BY <2>1, <2>2
<1>6. CASE WrapperWrite(p)
  <2> DEFINE Records == [state : {"absent", "truncated", "torn", "complete"},
                         sha : Bytes \cup {Absent}, parse_status : ParseStatuses \cup {"none"}]
  <2>1. WrapperOf(p) \in Records /\ TornWrapper \in Records /\ predictions[trace[p]] \in Records
    BY ClassifierAssumption
       DEF WrapperOf, NotAttemptedWrapper, ImportedWrapper, TornWrapper, WrapperFile,
           ParseStatuses, TypeOK
  <2>2. WrapperAfterWrite(predictions[trace[p]], WrapperOf(p)) \subseteq Records
    BY <2>1 DEF WrapperAfterWrite
  <2> QED BY <1>6, <2>2 DEF WrapperWrite, TypeOK, Goto, locals
<1>7. CASE WrapperWriteFails(p)
  <2>1. ASSUME NEW content \in {predictions[trace[p]], TornWrapper}
        PROVE  content \in [state : {"absent", "truncated", "torn", "complete"},
                            sha : Bytes \cup {Absent},
                            parse_status : ParseStatuses \cup {"none"}]
    BY <2>1 DEF TypeOK, TornWrapper, WrapperFile
  <2> QED BY <1>7, <2>1 DEF WrapperWriteFails, TypeOK, Goto
<1> QED BY <1>1, <1>2, <1>3, <1>4, <1>5, <1>6, <1>7 DEF ImportStep

(* The steps of report.                                                    *)
LEMMA ReportStepIsTyped ==
    ASSUME TypeOK, NEW p \in Commands, ReportStep(p)
    PROVE  TypeOK'
<1> USE DEF Steps, Ended, ReportSteps, Tally
<1>1. ASSUME NEW t \in Traces, ReadWrapper(p, t) PROVE TypeOK'
  <2>1. CASE Refuse(p, "report_read")
    BY <2>1, RefuseIsTyped
  <2>2. ASSUME ~Refuse(p, "report_read") PROVE TypeOK'
    <3> DEFINE count == IF predictions[t].state = "absent" THEN "wrapper_missing"
                        ELSE predictions[t].parse_status
    <3>1. count \in Tally
      BY DEF TypeOK
    <3>2. /\ pc' = [pc EXCEPT ![p] = "report_read"]
          /\ seen' = [seen EXCEPT ![p][t] = count]
          /\ UNCHANGED <<disk, cmd, trace, bytes, callStatus, good, saved, imported, invoked>>
      BY <1>1, <2>2 DEF ReadWrapper, Goto
    <3> HIDE DEF count
    <3> QED BY <3>1, <3>2 DEF TypeOK, disk
  <2> QED BY <2>1, <2>2
<1>2. CASE WriteReportJson(p)
  BY <1>2 DEF WriteReportJson, TypeOK, Goto, locals
<1>3. CASE WriteReportMd(p)
  BY <1>3 DEF WriteReportMd, TypeOK, Goto, locals
<1>4. CASE LoadManifest(p)
  BY <1>4, PassIsTyped DEF LoadManifest
<1>5. CASE OpenManifest(p)
  <2>1. CASE Pass(p, "manifest_open", "done")
    BY <2>1, PassIsTyped
  <2>2. CASE ~Pass(p, "manifest_open", "done")
    BY <1>5, <2>2 DEF OpenManifest, TypeOK, Goto, locals
  <2> QED BY <2>1, <2>2
<1>6. CASE WriteManifest(p)
  BY <1>6 DEF WriteManifest, TypeOK, Goto, locals
<1>7. CASE OpenReportJson(p)
  <2>1. CASE Refuse(p, "report_read")
    BY <2>1, RefuseIsTyped
  <2>2. CASE ~Refuse(p, "report_read")
    BY <1>7, <2>2 DEF OpenReportJson, TypeOK, Goto, locals
  <2> QED BY <2>1, <2>2
<1>8. CASE OpenReportMd(p)
  <2>1. CASE Refuse(p, "report_md_open")
    BY <2>1, RefuseIsTyped
  <2>2. CASE ~Refuse(p, "report_md_open")
    BY <1>8, <2>2 DEF OpenReportMd, TypeOK, Goto, locals
  <2> QED BY <2>1, <2>2
<1> QED BY <1>1, <1>2, <1>3, <1>4, <1>5, <1>6, <1>7, <1>8 DEF ReportStep

(* Every state the run directory and the commands can reach is well typed. *)
THEOREM TypeCorrect == Spec => []TypeOK
<1>1. Init => TypeOK
  <2> SUFFICES ASSUME Init PROVE TypeOK
    OBVIOUS
  <2>1. /\ NoWrapperFile \in [state : {"absent", "truncated", "torn", "complete"},
                          sha : Bytes \cup {Absent}, parse_status : ParseStatuses \cup {"none"}]
        /\ NoSidecar \in [outcome : {"absent", "attempting"} \cup FinalOutcomes,
                          response_saved : BOOLEAN, sha : Bytes \cup {Absent},
                          prediction_imported : BOOLEAN,
                          parse_status : ParseStatuses \cup {"none"}]
    BY DEF NoWrapperFile, NoSidecar, WrapperFile, Sidecar
  <2>2. (CHOOSE t \in Traces : TRUE) \in Traces
    BY TracesAssumption
  <2> QED
    BY <2>1, <2>2, BytesAssumption DEF Init, TypeOK, Ended, Tally
<1>2. TypeOK /\ [Next]_vars => TypeOK'
  <2> SUFFICES ASSUME TypeOK, [Next]_vars PROVE TypeOK'
    OBVIOUS
  <2>1. CASE UNCHANGED vars
    BY <2>1 DEF TypeOK, vars, disk, locals
  <2>2. ASSUME NEW p \in Commands, Start(p) \/ Step(p) \/ Crash(p) PROVE TypeOK'
    BY <2>2, CrashIsTyped, StartIsTyped, CallStepIsTyped, ImportStepIsTyped,
       ReportStepIsTyped DEF Step
  <2> QED BY <2>1, <2>2 DEF Next
<1> QED BY <1>1, <1>2, PTL DEF Spec

----------------------------------------------------------------------------
(* The latch                                                               *)

(* A step of p that touches neither sidecars nor the wire, and does not    *)
(* make p a holder.                                                        *)
Quiet(p) ==
    /\ UNCHANGED <<sidecar, invoked>>
    /\ \A q \in Commands \ {p} : pc'[q] = pc[q] /\ cmd'[q] = cmd[q] /\ trace'[q] = trace[q]
    /\ pc'[p] \in StepsOfCall => cmd'[p] = "call"
    /\ pc'[p] = "mark_check" => cmd'[p] = "mark"
    /\ cmd'[p] = "call" /\ pc'[p] \in HeldSteps =>
          /\ cmd[p] = "call" /\ pc[p] \in HeldSteps \ {"invoke"}
          /\ trace'[p] = trace[p] /\ pc'[p] # "invoke"

LEMMA QuietKeepsLatch ==
    ASSUME LatchInv, NEW p \in Commands, Quiet(p)
    PROVE  LatchInv'
<1>1. StepsFitCommands'
  BY DEF LatchInv, Quiet, StepsFitCommands
<1>2. \A q \in Commands, t \in Traces :
        Holds(q, t)' => Holds(q, t) /\ (pc'[q] = "invoke" <=> pc[q] = "invoke")
  BY DEF Quiet, Holds
<1>3. HolderOwnsSidecar' /\ OneHolder'
  BY <1>2 DEF LatchInv, HolderOwnsSidecar, OneHolder, Quiet
<1>4. AtMostOneInvocation' /\ InvocationIsRecorded'
  BY DEF LatchInv, AtMostOneInvocation, InvocationIsRecorded, Quiet
<1> QED BY <1>1, <1>3, <1>4 DEF LatchInv

LEMMA StartIsQuiet ==
    ASSUME TypeOK, NEW p \in Commands, Start(p)
    PROVE  Quiet(p)
<1> USE DEF Quiet, Goto, Begin, disk, StepsOfCall, HeldSteps, CallSteps, AuditSteps,
            ImportSteps
<1>1. ASSUME NEW t \in Traces, StartCall(p, t) PROVE Quiet(p)
  BY <1>1 DEF TypeOK, StartCall
<1>2. ASSUME NEW t \in Traces, StartMark(p, t) PROVE Quiet(p)
  BY <1>2 DEF TypeOK, StartMark
<1>3. ASSUME NEW t \in Traces, NEW b \in Bytes, StartImport(p, t, b) PROVE Quiet(p)
  BY <1>3 DEF TypeOK, StartImport
<1>4. ASSUME NEW name \in {"report", "complete"}, StartReport(p, name) PROVE Quiet(p)
  BY <1>4 DEF TypeOK, StartReport
<1> QED BY <1>1, <1>2, <1>3, <1>4 DEF Start

(* A refusal, a crash or an advance of the importer is quiet.              *)
LEMMA FramesAreQuiet ==
    ASSUME TypeOK, StepsFitCommands, NEW p \in Commands, NEW from
    PROVE  /\ Refuse(p, from) => Quiet(p)
           /\ RefuseImport(p, from) /\ from \in ImportSteps => Quiet(p)
           /\ Crash(p) => Quiet(p)
           /\ \A to : Pass(p, from, to)
                      /\ \/ to \in CallSteps /\ from \in CallSteps
                         \/ to \in ImportSteps /\ from \in ImportSteps \cup {"mark_check"}
                         \/ to \in {"done", "manifest_open"}
                      => Quiet(p)
<1> USE DEF Quiet, Goto, disk, locals, StepsOfCall, HeldSteps, CallSteps, AuditSteps,
            ImportSteps
<1>1. Refuse(p, from) => Quiet(p)
  BY DEF TypeOK, Refuse
<1>2. RefuseImport(p, from) /\ from \in ImportSteps => Quiet(p)
  BY DEF TypeOK, RefuseImport
<1>3. Crash(p) => Quiet(p)
  BY DEF TypeOK, Crash
<1>4. ASSUME NEW to, Pass(p, from, to),
             \/ to \in CallSteps /\ from \in CallSteps
             \/ to \in ImportSteps /\ from \in ImportSteps \cup {"mark_check"}
             \/ to \in {"done", "manifest_open"}
      PROVE  Quiet(p)
  BY <1>4 DEF TypeOK, Pass, StepsFitCommands
<1> QED BY <1>1, <1>2, <1>3, <1>4

(* Every step but three is quiet.                                          *)
LEMMA OtherCallStepsAreQuiet ==
    ASSUME TypeOK, StepsFitCommands, NEW p \in Commands, CallStep(p),
           ~PublishNewSidecar(p), ~Invoke(p), ~ReplaceSidecar(p)
    PROVE  Quiet(p)
<1>1. CASE PrecheckRaw(p) \/ PrecheckPrediction(p) \/ PrecheckSidecar(p)
  BY <1>1, FramesAreQuiet DEF PrecheckRaw, PrecheckPrediction, PrecheckSidecar, CallSteps
<1> USE DEF Quiet, Goto, disk, StepsOfCall, HeldSteps, AuditSteps, CallSteps, ImportSteps
<1>2. ASSUME NEW s \in {"succeeded", "failed"}, NEW b \in Bytes,
             NEW identityOk \in BOOLEAN, InvokeReturns(p, s, b, identityOk)
      PROVE  Quiet(p)
  BY <1>2 DEF InvokeReturns, TypeOK, StepsFitCommands
<1>3. CASE AuditReadRaw(p)
  BY <1>3 DEF AuditReadRaw, TypeOK, StepsFitCommands
<1>4. CASE AuditReadPrediction(p)
  BY <1>4 DEF AuditReadPrediction, TypeOK, StepsFitCommands
<1> QED BY <1>1, <1>2, <1>3, <1>4 DEF CallStep

LEMMA ImportStepIsQuiet ==
    ASSUME TypeOK, StepsFitCommands, NEW p \in Commands, ImportStep(p)
    PROVE  Quiet(p)
<1>1. CASE ImportContext(p) \/ ImportCheckPrediction(p) \/ SaveRawCheck(p)
           \/ WrapperCheck(p) \/ MarkCheck(p)
  BY <1>1, FramesAreQuiet
     DEF ImportContext, ImportCheckPrediction, SaveRawCheck, WrapperCheck, MarkCheck,
         ImportSteps
<1>2. CASE RefuseImport(p, "raw_open") \/ RefuseImport(p, "wrapper_open")
  BY <1>2, FramesAreQuiet DEF ImportSteps
<1>3. CASE \/ SaveRawOpen(p) /\ ~RefuseImport(p, "raw_open")
           \/ WrapperOpen(p) /\ ~RefuseImport(p, "wrapper_open")
  BY <1>3 DEF SaveRawOpen, WrapperOpen, TypeOK, Quiet, Goto, locals, StepsOfCall,
              HeldSteps, AuditSteps, CallSteps, ImportSteps
<1>4. CASE SaveRawWrite(p) \/ SaveRawFails(p) \/ WrapperWrite(p) \/ WrapperWriteFails(p)
  BY <1>4 DEF SaveRawWrite, SaveRawFails, WrapperWrite, WrapperWriteFails, TypeOK, Quiet, Goto, locals,
              StepsOfCall, HeldSteps, AuditSteps, CallSteps, ImportSteps
<1> QED BY <1>1, <1>2, <1>3, <1>4 DEF ImportStep, SaveRawOpen, WrapperOpen

LEMMA ReportStepIsQuiet ==
    ASSUME TypeOK, StepsFitCommands, NEW p \in Commands, ReportStep(p)
    PROVE  Quiet(p)
<1>1. CASE \/ LoadManifest(p) \/ Pass(p, "manifest_open", "done")
           \/ Refuse(p, "report_read") \/ Refuse(p, "report_md_open")
  BY <1>1, FramesAreQuiet DEF LoadManifest
<1> USE DEF Quiet, Goto, disk, locals, StepsOfCall, HeldSteps, AuditSteps, CallSteps,
            ImportSteps, TypeOK
<1>2. ASSUME NEW t \in Traces, ReadWrapper(p, t), ~Refuse(p, "report_read") PROVE Quiet(p)
  BY <1>2 DEF ReadWrapper
<1>3. CASE WriteReportJson(p) \/ WriteReportMd(p) \/ WriteManifest(p)
  BY <1>3 DEF WriteReportJson, WriteReportMd, WriteManifest
<1>4. CASE OpenManifest(p) /\ ~Pass(p, "manifest_open", "done")
  BY <1>4 DEF OpenManifest
<1>5. CASE \/ OpenReportJson(p) /\ ~Refuse(p, "report_read")
           \/ OpenReportMd(p) /\ ~Refuse(p, "report_md_open")
  BY <1>5 DEF OpenReportJson, OpenReportMd
<1> QED BY <1>1, <1>2, <1>3, <1>4, <1>5 DEF ReportStep

(* The publication by link(): the trace had no sidecar, hence no holder    *)
(* and no invocation.                                                      *)
Publishes(p) ==
    /\ pc[p] = "publish_sidecar" /\ cmd[p] = "call"
    /\ sidecar[trace[p]] = NoSidecar
    /\ pc' = [pc EXCEPT ![p] = "invoke"]
    /\ sidecar' = [sidecar EXCEPT ![trace[p]] = Attempting]
    /\ UNCHANGED <<cmd, trace, invoked>>

Replaces(p) ==
    /\ pc[p] = "audit_replace" /\ cmd[p] = "call"
    /\ pc' = [pc EXCEPT ![p] = "done"]
    /\ sidecar' = [sidecar EXCEPT ![trace[p]] = FinalSidecar(p)]
    /\ UNCHANGED <<cmd, trace, invoked>>

(* The step relation, as the latch sees it.                                *)
LEMMA StepsOfTheLatch ==
    ASSUME TypeOK, StepsFitCommands, NEW p \in Commands, Start(p) \/ Step(p) \/ Crash(p)
    PROVE  Quiet(p) \/ Publishes(p) \/ Invoke(p) \/ Replaces(p)
<1>1. CASE Start(p)
  BY <1>1, StartIsQuiet
<1>2. CASE Crash(p)
  BY <1>2, FramesAreQuiet
<1>3. CASE ImportStep(p)
  BY <1>3, ImportStepIsQuiet
<1>4. CASE ReportStep(p)
  BY <1>4, ReportStepIsQuiet
<1>5. CASE CallStep(p)
  <2>1. CASE Refuse(p, "publish_sidecar") \/ Refuse(p, "audit_replace")
    BY <2>1, FramesAreQuiet
  <2>2. CASE PublishNewSidecar(p) /\ ~Refuse(p, "publish_sidecar")
    BY <2>2 DEF PublishNewSidecar, Publishes, Goto, locals, StepsFitCommands,
                StepsOfCall, CallSteps
  <2>3. CASE ReplaceSidecar(p) /\ ~Refuse(p, "audit_replace")
    BY <2>3 DEF ReplaceSidecar, Replaces, Goto, locals, StepsFitCommands,
                StepsOfCall, AuditSteps
  <2> QED BY <1>5, <2>1, <2>2, <2>3, OtherCallStepsAreQuiet
          DEF PublishNewSidecar, ReplaceSidecar
<1> QED BY <1>1, <1>2, <1>3, <1>4, <1>5 DEF Step

LEMMA PublishKeepsLatch ==
    ASSUME TypeOK, LatchInv, NEW p \in Commands, Publishes(p)
    PROVE  LatchInv'
<1> DEFINE s == trace[p]
<1>1. s \in Traces /\ sidecar[s] = NoSidecar /\ invoked[s] = 0
  BY DEF TypeOK, Publishes, LatchInv, InvocationIsRecorded
<1>2. Attempting # NoSidecar
  BY DEF Attempting, NoSidecar, Sidecar
<1>3. \A q \in Commands : ~Holds(q, s)
  BY <1>1, <1>2 DEF LatchInv, HolderOwnsSidecar
<1>4. StepsFitCommands'
  BY DEF LatchInv, StepsFitCommands, Publishes, TypeOK, StepsOfCall
<1>5. \A q \in Commands, t \in Traces :
        Holds(q, t)' => \/ q = p /\ t = s /\ pc'[q] = "invoke"
                        \/ q # p /\ t # s /\ Holds(q, t) /\ pc'[q] = pc[q]
  BY <1>3 DEF Holds, Publishes, TypeOK
<1>6. /\ sidecar'[s] = Attempting /\ invoked' = invoked
      /\ \A t \in Traces : t # s => sidecar'[t] = sidecar[t]
  BY <1>1 DEF Publishes, TypeOK
<1>7. HolderOwnsSidecar'
  BY <1>1, <1>5, <1>6 DEF LatchInv, HolderOwnsSidecar
<1>8. OneHolder'
  BY <1>5 DEF LatchInv, OneHolder
<1>9. AtMostOneInvocation' /\ InvocationIsRecorded'
  BY <1>1, <1>6 DEF LatchInv, AtMostOneInvocation, InvocationIsRecorded
<1> QED BY <1>4, <1>7, <1>8, <1>9 DEF LatchInv

LEMMA InvokeKeepsLatch ==
    ASSUME TypeOK, LatchInv, NEW p \in Commands, Invoke(p)
    PROVE  LatchInv'
<1> DEFINE s == trace[p]
<1>1. s \in Traces /\ Holds(p, s) /\ pc[p] = "invoke"
  BY DEF TypeOK, Invoke, Goto, Holds, HeldSteps, LatchInv, StepsFitCommands, StepsOfCall
<1>2. sidecar[s] = Attempting /\ invoked[s] = 0
  BY <1>1 DEF LatchInv, HolderOwnsSidecar
<1>3. /\ cmd' = cmd /\ trace' = trace /\ sidecar' = sidecar
      /\ pc' = [pc EXCEPT ![p] = "await"]
      /\ invoked' = [invoked EXCEPT ![s] = 1]
  BY <1>1, <1>2 DEF Invoke, Goto, disk, locals, TypeOK
<1>4. StepsFitCommands'
  BY <1>1, <1>3 DEF LatchInv, StepsFitCommands, TypeOK, StepsOfCall, Holds
<1>5. \A q \in Commands, t \in Traces :
        Holds(q, t)' => Holds(q, t) /\ (q # p => pc'[q] = pc[q])
  BY <1>1, <1>3 DEF Holds, TypeOK
<1>6. OneHolder'
  BY <1>5 DEF LatchInv, OneHolder
<1>7. HolderOwnsSidecar'
  <2> SUFFICES ASSUME NEW q \in Commands, NEW t \in Traces, Holds(q, t)'
               PROVE  /\ sidecar'[t] = Attempting
                      /\ invoked'[t] = IF pc'[q] = "invoke" THEN 0 ELSE 1
    BY DEF HolderOwnsSidecar
  <2>1. CASE q = p
    <3>1. t = s /\ pc'[p] = "await"
      BY <1>3, <2>1 DEF Holds, TypeOK
    <3> QED BY <1>2, <1>3, <2>1, <3>1, <1>1 DEF TypeOK
  <2>2. CASE q # p
    <3>1. t # s /\ Holds(q, t)
      BY <1>1, <1>5, <2>2 DEF LatchInv, OneHolder
    <3> QED BY <1>3, <1>5, <2>2, <3>1 DEF LatchInv, HolderOwnsSidecar, TypeOK
  <2> QED BY <2>1, <2>2
<1>8. AtMostOneInvocation'
  BY <1>3 DEF LatchInv, AtMostOneInvocation, TypeOK
<1>9. InvocationIsRecorded'
  BY <1>2, <1>3 DEF LatchInv, InvocationIsRecorded, TypeOK, Attempting, NoSidecar, Sidecar
<1> QED BY <1>4, <1>6, <1>7, <1>8, <1>9 DEF LatchInv

(* What the last step of a call writes is neither absent nor attempting.   *)
LEMMA FinalSidecarIsFinal ==
    ASSUME NEW p \in Commands
    PROVE  /\ FinalSidecar(p).outcome \in FinalOutcomes
           /\ FinalSidecar(p) # NoSidecar /\ FinalSidecar(p) # Attempting
BY DEF FinalSidecar, AuditedOutcome, FinalOutcomes, Sidecar, NoSidecar, Attempting

LEMMA ReplaceKeepsLatch ==
    ASSUME TypeOK, LatchInv, NEW p \in Commands, Replaces(p)
    PROVE  LatchInv'
<1> DEFINE s == trace[p]
<1>1. s \in Traces /\ Holds(p, s)
  BY DEF TypeOK, Replaces, Holds, HeldSteps, AuditSteps
<1>2. StepsFitCommands'
  BY DEF LatchInv, StepsFitCommands, TypeOK, Replaces, StepsOfCall, CallSteps, AuditSteps
<1>3. \A q \in Commands, t \in Traces :
        Holds(q, t)' => Holds(q, t) /\ pc'[q] = pc[q] /\ t # s
  <2>1. ~Holds(p, s)'
    BY DEF Holds, Replaces, TypeOK, HeldSteps, AuditSteps, ImportSteps
  <2> QED BY <1>1, <2>1 DEF LatchInv, OneHolder, Holds, Replaces, TypeOK
<1>4. \A t \in Traces : t # s => sidecar'[t] = sidecar[t]
  BY DEF Replaces, TypeOK
<1>5. sidecar'[s] # NoSidecar
  BY <1>1, FinalSidecarIsFinal DEF Replaces, TypeOK
<1>6. HolderOwnsSidecar' /\ OneHolder'
  BY <1>3, <1>4 DEF LatchInv, HolderOwnsSidecar, OneHolder, Replaces
<1>7. AtMostOneInvocation' /\ InvocationIsRecorded'
  BY <1>4, <1>5 DEF LatchInv, AtMostOneInvocation, InvocationIsRecorded, Replaces
<1> QED BY <1>2, <1>6, <1>7 DEF LatchInv

LEMMA LatchIsInductive == TypeOK /\ LatchInv /\ [Next]_vars => LatchInv'
<1> SUFFICES ASSUME TypeOK, LatchInv, [Next]_vars PROVE LatchInv'
  OBVIOUS
<1>1. CASE UNCHANGED vars
  BY <1>1 DEF vars, disk, locals, LatchInv, StepsFitCommands, HolderOwnsSidecar, OneHolder,
              Holds, AtMostOneInvocation, InvocationIsRecorded
<1>2. ASSUME NEW p \in Commands, Start(p) \/ Step(p) \/ Crash(p) PROVE LatchInv'
  BY <1>2, StepsOfTheLatch, QuietKeepsLatch, PublishKeepsLatch, InvokeKeepsLatch,
     ReplaceKeepsLatch DEF LatchInv
<1> QED BY <1>1, <1>2 DEF Next

(* The latch invariant holds in every reachable state.                     *)
THEOREM LatchHolds == Spec => [](TypeOK /\ LatchInv)
<1>1. Init => LatchInv
  <2> SUFFICES ASSUME Init PROVE LatchInv
    OBVIOUS
  <2>1. ASSUME NEW p \in Commands PROVE cmd[p] = "none" /\ pc[p] = "unborn"
    BY <2>1 DEF Init
  <2>2. StepsFitCommands
    BY <2>1 DEF StepsFitCommands, StepsOfCall, CallSteps, AuditSteps
  <2>3. HolderOwnsSidecar /\ OneHolder
    BY <2>1 DEF HolderOwnsSidecar, OneHolder, Holds
  <2>4. AtMostOneInvocation /\ InvocationIsRecorded
    BY DEF AtMostOneInvocation, InvocationIsRecorded, Init
  <2> QED BY <2>2, <2>3, <2>4 DEF LatchInv
<1>2. TypeOK /\ LatchInv /\ [Next]_vars => LatchInv'
  BY LatchIsInductive
<1> QED BY <1>1, <1>2, TypeCorrect, PTL DEF Spec

(* A trace is billed at most once, however many call-hy3 commands run, in  *)
(* any interleaving, and whichever of them are killed.                     *)
THEOREM BilledAtMostOnce == Spec => []AtMostOneInvocation
<1>1. LatchInv => AtMostOneInvocation
  BY DEF LatchInv
<1> QED BY <1>1, LatchHolds, PTL

(* No request is sent for a trace that has no sidecar on disk.             *)
THEOREM BilledOnRecord == Spec => []InvocationIsRecorded
<1>1. LatchInv => InvocationIsRecorded
  BY DEF LatchInv
<1> QED BY <1>1, LatchHolds, PTL

(* A sidecar is created once, finalised once after exactly one invocation, *)
(* and never touched again.                                                *)
THEOREM SidecarWrittenTwice == Spec => SidecarIsWrittenTwice
<1> DEFINE Change == \A t \in Traces : sidecar'[t] # sidecar[t] =>
          \/ sidecar[t] = NoSidecar /\ sidecar'[t] = Attempting
          \/ /\ sidecar[t] = Attempting
             /\ sidecar'[t].outcome \in FinalOutcomes
             /\ invoked[t] = 1
<1>1. TypeOK /\ LatchInv /\ [Next]_vars => [Change]_vars
  <2> SUFFICES ASSUME TypeOK, LatchInv, NEW p \in Commands, Start(p) \/ Step(p) \/ Crash(p)
               PROVE  Change
    BY DEF Next
  <2>1. CASE Quiet(p) \/ Invoke(p)
    BY <2>1 DEF Quiet, Invoke, disk
  <2>2. CASE Publishes(p)
    BY <2>2 DEF Publishes, TypeOK
  <2>3. CASE Replaces(p)
    <3>1. trace[p] \in Traces /\ Holds(p, trace[p]) /\ pc[p] # "invoke"
      BY <2>3 DEF TypeOK, Replaces, Holds, HeldSteps, AuditSteps
    <3>2. sidecar[trace[p]] = Attempting /\ invoked[trace[p]] = 1
      BY <3>1 DEF LatchInv, HolderOwnsSidecar
    <3> QED BY <2>3, <3>1, <3>2, FinalSidecarIsFinal DEF Replaces, TypeOK
  <2> QED BY <2>1, <2>2, <2>3, StepsOfTheLatch DEF LatchInv
<1> QED BY <1>1, LatchHolds, PTL DEF Spec, SidecarIsWrittenTwice

(* How far a call has come, read off its sidecar and its bill.             *)
LEMMA CallStateOfForms ==
    /\ CallState(NoSidecar, 0) = "idle"
    /\ CallState(Attempting, 0) = "latched"
    /\ CallState(Attempting, 1) = "sent"
    /\ \A record, count :
          record.outcome \in FinalOutcomes => CallState(record, count) = "settled"
BY DEF CallState, Attempting, NoSidecar, Sidecar, FinalOutcomes

(* One trace's sidecar and bill change, so one call state changes.         *)
LEMMA OneCallMoves ==
    ASSUME NEW t \in Traces, NEW record, NEW count,
           NEW before, NEW after, NEW billedBefore, NEW billedAfter,
           \A u \in Traces : after[u] = IF u = t THEN record ELSE before[u],
           \A u \in Traces : billedAfter[u] = IF u = t THEN count ELSE billedBefore[u]
    PROVE  [u \in Traces |-> CallState(after[u], billedAfter[u])]
             = [[u \in Traces |-> CallState(before[u], billedBefore[u])]
                   EXCEPT ![t] = CallState(record, count)]
OBVIOUS

(* The audited runner implements the one-shot call: publishing a sidecar   *)
(* latches, client.invoke sends, replacing the sidecar settles, and every  *)
(* other step of every command, a kill included, is a stutter.             *)
THEOREM RunnerImplementsOneShotCall == Spec => ImplementsOneShotCall
<1>1. Init => Audited!Init
  BY CallStateOfForms DEF Init, Audited!Init, CallStates
<1>2. TypeOK /\ LatchInv /\ [Next]_vars => [Audited!Next]_CallStates
  <2>1. CASE UNCHANGED vars
    BY <2>1 DEF vars, disk, locals, CallStates
  <2>2. ASSUME TypeOK, LatchInv, NEW p \in Commands, Quiet(p)
        PROVE  CallStates' = CallStates
    BY <2>2 DEF Quiet, CallStates
  <2>3. ASSUME TypeOK, LatchInv, NEW p \in Commands, Publishes(p)
        PROVE  Audited!Latch(trace[p]) /\ trace[p] \in Traces
    <3>1. /\ trace[p] \in Traces /\ sidecar[trace[p]] = NoSidecar
          /\ invoked[trace[p]] = 0
      BY <2>3 DEF TypeOK, LatchInv, InvocationIsRecorded, Publishes
    <3>2. CallStates[trace[p]] = "idle"
      BY <3>1, CallStateOfForms DEF CallStates
    <3>3. /\ sidecar' = [sidecar EXCEPT ![trace[p]] = Attempting]
          /\ invoked' = [invoked EXCEPT ![trace[p]] = 0]
      BY <2>3, <3>1 DEF TypeOK, Publishes
    <3>4. CallStates' = [CallStates EXCEPT ![trace[p]] = "latched"]
      <4>1. \A u \in Traces : sidecar'[u] = IF u = trace[p] THEN Attempting ELSE sidecar[u]
        BY <2>3, <3>1, <3>3 DEF TypeOK
      <4>2. \A u \in Traces : invoked'[u] = IF u = trace[p] THEN 0 ELSE invoked[u]
        BY <2>3, <3>1, <3>3 DEF TypeOK
      <4>3. CallStates' = [u \in Traces |-> CallState(sidecar'[u], invoked'[u])]
        BY DEF CallStates
      <4>4. CallStates' = [CallStates EXCEPT ![trace[p]] = CallState(Attempting, 0)]
        BY <3>1, <4>1, <4>2, <4>3, OneCallMoves DEF CallStates
      <4> QED BY <4>4, CallStateOfForms
    <3> QED BY <3>1, <3>2, <3>4 DEF Audited!Latch
  <2>4. ASSUME TypeOK, LatchInv, NEW p \in Commands, Invoke(p)
        PROVE  Audited!Send(trace[p]) /\ trace[p] \in Traces
    <3>1. /\ trace[p] \in Traces /\ sidecar[trace[p]] = Attempting
          /\ invoked[trace[p]] = 0
      <4>1. trace[p] \in Traces /\ Holds(p, trace[p]) /\ pc[p] = "invoke"
        BY <2>4 DEF TypeOK, Invoke, Goto, Holds, HeldSteps, LatchInv, StepsFitCommands,
                    StepsOfCall
      <4> QED BY <2>4, <4>1 DEF LatchInv, HolderOwnsSidecar
    <3>2. CallStates[trace[p]] = "latched"
      BY <3>1, CallStateOfForms DEF CallStates
    <3>3. sidecar' = sidecar /\ invoked' = [invoked EXCEPT ![trace[p]] = 1]
      BY <2>4, <3>1 DEF Invoke, disk, TypeOK
    <3>5. CallStates' = [CallStates EXCEPT ![trace[p]] = "sent"]
      <4>1. \A u \in Traces : sidecar'[u] = IF u = trace[p] THEN Attempting ELSE sidecar[u]
        BY <2>4, <3>1, <3>3 DEF TypeOK
      <4>2. \A u \in Traces : invoked'[u] = IF u = trace[p] THEN 1 ELSE invoked[u]
        BY <2>4, <3>1, <3>3 DEF TypeOK
      <4>3. CallStates' = [u \in Traces |-> CallState(sidecar'[u], invoked'[u])]
        BY DEF CallStates
      <4>4. CallStates' = [CallStates EXCEPT ![trace[p]] = CallState(Attempting, 1)]
        BY <3>1, <4>1, <4>2, <4>3, OneCallMoves DEF CallStates
      <4> QED BY <4>4, CallStateOfForms
    <3> QED BY <3>1, <3>2, <3>5 DEF Audited!Send
  <2>5. ASSUME TypeOK, LatchInv, NEW p \in Commands, Replaces(p)
        PROVE  Audited!Settle(trace[p]) /\ trace[p] \in Traces
    <3>1. /\ trace[p] \in Traces /\ sidecar[trace[p]] = Attempting
          /\ invoked[trace[p]] = 1
      <4>1. trace[p] \in Traces /\ Holds(p, trace[p]) /\ pc[p] # "invoke"
        BY <2>5 DEF TypeOK, Replaces, Holds, HeldSteps, AuditSteps
      <4> QED BY <2>5, <4>1 DEF LatchInv, HolderOwnsSidecar
    <3>2. CallStates[trace[p]] = "sent"
      BY <3>1, CallStateOfForms DEF CallStates
    <3>3. /\ sidecar' = [sidecar EXCEPT ![trace[p]] = FinalSidecar(p)]
          /\ invoked' = [invoked EXCEPT ![trace[p]] = 1]
      BY <2>5, <3>1 DEF TypeOK, Replaces
    <3>4. CallState(FinalSidecar(p), 1) = "settled"
      BY <2>5, FinalSidecarIsFinal, CallStateOfForms
    <3>5. CallStates' = [CallStates EXCEPT ![trace[p]] = "settled"]
      <4>1. \A u \in Traces : sidecar'[u] = IF u = trace[p] THEN FinalSidecar(p) ELSE sidecar[u]
        BY <2>5, <3>1, <3>3 DEF TypeOK
      <4>2. \A u \in Traces : invoked'[u] = IF u = trace[p] THEN 1 ELSE invoked[u]
        BY <2>5, <3>1, <3>3 DEF TypeOK
      <4>3. CallStates' = [u \in Traces |-> CallState(sidecar'[u], invoked'[u])]
        BY DEF CallStates
      <4>4. CallStates' = [CallStates EXCEPT ![trace[p]] = CallState(FinalSidecar(p), 1)]
        BY <3>1, <4>1, <4>2, <4>3, OneCallMoves DEF CallStates
      <4> QED BY <4>4, CallStateOfForms, <3>4
    <3> QED BY <3>1, <3>2, <3>5 DEF Audited!Settle
  <2> QED BY <2>1, <2>2, <2>3, <2>4, <2>5, StepsOfTheLatch
          DEF Next, LatchInv, Audited!Next
<1> QED BY <1>1, <1>2, LatchHolds, PTL DEF Spec, ImplementsOneShotCall, Audited!Spec

----------------------------------------------------------------------------
(* Commands that take turns                                                *)

(* A step of one command leaves what the others know alone.                *)
LEMMA OthersStay ==
    ASSUME TypeOK, NEW p \in Commands, Start(p) \/ Step(p) \/ Crash(p),
           NEW q \in Commands \ {p}
    PROVE  /\ pc'[q] = pc[q] /\ cmd'[q] = cmd[q] /\ trace'[q] = trace[q]
           /\ callStatus'[q] = callStatus[q] /\ seen'[q] = seen[q]
<1> DEFINE Same == /\ pc'[q] = pc[q] /\ cmd'[q] = cmd[q] /\ trace'[q] = trace[q]
                   /\ callStatus'[q] = callStatus[q] /\ seen'[q] = seen[q]
<1> SUFFICES Same
  OBVIOUS
<1>1. ASSUME NEW from, Refuse(p, from) \/ RefuseImport(p, from) PROVE Same
  BY <1>1 DEF TypeOK, Refuse, RefuseImport, Goto
<1>2. ASSUME NEW from, NEW to, Pass(p, from, to) PROVE Same
  BY <1>2 DEF TypeOK, Pass, Goto, locals
<1>3. CASE Crash(p)
  BY <1>3 DEF TypeOK, Crash, locals
<1>4. CASE Start(p)
  BY <1>4 DEF TypeOK, Start, StartCall, StartMark, StartImport, StartReport, Begin, Goto
<1>5. CASE CallStep(p)
  <2>1. CASE PrecheckRaw(p) \/ PrecheckPrediction(p) \/ PrecheckSidecar(p)
    BY <1>1, <1>2, <2>1 DEF PrecheckRaw, PrecheckPrediction, PrecheckSidecar
  <2>2. CASE PublishNewSidecar(p) \/ ReplaceSidecar(p)
    BY <1>1, <2>2 DEF TypeOK, PublishNewSidecar, ReplaceSidecar, Goto, locals
  <2>3. CASE Invoke(p) \/ AuditReadRaw(p) \/ AuditReadPrediction(p)
    BY <2>3 DEF TypeOK, Invoke, AuditReadRaw, AuditReadPrediction, Goto, locals
  <2>4. ASSUME NEW s \in {"succeeded", "failed"}, NEW b \in Bytes,
               NEW identityOk \in BOOLEAN, InvokeReturns(p, s, b, identityOk)
        PROVE  Same
    BY <2>4 DEF TypeOK, InvokeReturns, Goto
  <2> QED BY <1>5, <2>1, <2>2, <2>3, <2>4 DEF CallStep
<1>6. CASE ImportStep(p)
  <2>1. CASE ImportContext(p) \/ ImportCheckPrediction(p) \/ SaveRawCheck(p)
             \/ WrapperCheck(p) \/ MarkCheck(p)
    BY <1>1, <1>2, <2>1
       DEF ImportContext, ImportCheckPrediction, SaveRawCheck, WrapperCheck, MarkCheck
  <2>2. CASE SaveRawOpen(p) \/ WrapperOpen(p)
    BY <1>1, <2>2 DEF TypeOK, SaveRawOpen, WrapperOpen, Goto, locals
  <2>3. CASE SaveRawWrite(p) \/ SaveRawFails(p) \/ WrapperWrite(p) \/ WrapperWriteFails(p)
    BY <2>3 DEF TypeOK, SaveRawWrite, SaveRawFails, WrapperWrite, WrapperWriteFails,
                Goto, locals
  <2> QED BY <1>6, <2>1, <2>2, <2>3 DEF ImportStep
<1>7. CASE ReportStep(p)
  <2>1. ASSUME NEW t \in Traces, ReadWrapper(p, t) PROVE Same
    BY <1>1, <2>1 DEF TypeOK, ReadWrapper, Goto, disk
  <2>2. CASE OpenReportJson(p) \/ OpenReportMd(p)
    BY <1>1, <2>2 DEF TypeOK, OpenReportJson, OpenReportMd, Goto, locals
  <2>3. CASE WriteReportJson(p) \/ WriteReportMd(p) \/ WriteManifest(p)
    BY <2>3 DEF TypeOK, WriteReportJson, WriteReportMd, WriteManifest, Goto, locals
  <2>4. CASE LoadManifest(p) \/ OpenManifest(p)
    BY <1>2, <2>4 DEF TypeOK, LoadManifest, OpenManifest, Goto, locals
  <2> QED BY <1>7, <2>1, <2>2, <2>3, <2>4 DEF ReportStep
<1> QED BY <1>3, <1>4, <1>5, <1>6, <1>7 DEF Step

LEMMA StepsRun ==
    ASSUME NEW p \in Commands, Step(p) \/ Crash(p)
    PROVE  Running(p)
<1> USE DEF Running, Ended, Goto
<1>1. CASE Crash(p)
  BY <1>1 DEF Crash
<1>2. CASE CallStep(p)
  BY <1>2 DEF CallStep, PrecheckRaw, PrecheckPrediction, PrecheckSidecar,
              PublishNewSidecar, Invoke, InvokeReturns, AuditReadRaw,
              AuditReadPrediction, ReplaceSidecar, Pass, Refuse
<1>3. CASE ImportStep(p)
  BY <1>3 DEF ImportStep, ImportContext, ImportCheckPrediction, SaveRawCheck,
              SaveRawOpen, SaveRawWrite, SaveRawFails, WrapperCheck, WrapperOpen,
              WrapperWrite, WrapperWriteFails, MarkCheck, Pass, Refuse, RefuseImport
<1>4. CASE ReportStep(p)
  BY <1>4 DEF ReportStep, ReadWrapper, OpenReportJson, WriteReportJson, OpenReportMd,
              WriteReportMd, LoadManifest, OpenManifest, WriteManifest, Pass, Refuse
<1> QED BY <1>1, <1>2, <1>3, <1>4 DEF Step

(* The command that moves is the only one running, before and after.       *)
LEMMA OthersRest ==
    ASSUME TypeOK, inTurns, OneRuns, NEW p \in Commands, Start(p) \/ Step(p) \/ Crash(p)
    PROVE  /\ \A q \in Commands \ {p} : pc[q] \in Ended /\ pc'[q] \in Ended
           /\ OneRuns'
<1>1. \A q \in Commands \ {p} : ~Running(q)
  <2>1. CASE Start(p)
    BY <2>1 DEF Start, StartCall, StartMark, StartImport, StartReport, Begin
  <2>2. CASE Step(p) \/ Crash(p)
    BY <2>2, StepsRun DEF OneRuns
  <2> QED BY <2>1, <2>2
<1>2. \A q \in Commands \ {p} : pc'[q] = pc[q]
  BY OthersStay
<1> QED BY <1>1, <1>2 DEF OneRuns, Running

(* A settled sidecar stays as it is.                                       *)
LEMMA SettledStays ==
    ASSUME TypeOK, LatchInv, NEW p \in Commands, Start(p) \/ Step(p) \/ Crash(p),
           NEW t \in Traces, Settled(t)
    PROVE  sidecar'[t] = sidecar[t]
<1>1. sidecar[t] # NoSidecar /\ sidecar[t] # Attempting
  BY DEF Settled, FinalOutcomes, NoSidecar, Attempting, Sidecar
<1>2. CASE Quiet(p) \/ Invoke(p)
  BY <1>2 DEF Quiet, Invoke, disk
<1>3. CASE Publishes(p)
  BY <1>1, <1>3 DEF Publishes, TypeOK
<1>4. CASE Replaces(p)
  <2>1. sidecar[trace[p]] = Attempting
    BY <1>4 DEF LatchInv, HolderOwnsSidecar, Holds, HeldSteps, AuditSteps, Replaces, TypeOK
  <2> QED BY <1>1, <1>4, <2>1 DEF Replaces, TypeOK
<1> QED BY <1>2, <1>3, <1>4, StepsOfTheLatch DEF LatchInv

----------------------------------------------------------------------------
(* Commands that take turns                                                *)

(* An ended command knows nothing but that it has no outcome before birth. *)
LEMMA EndedKnowsNothing ==
    ASSUME NEW p \in Commands, pc[p] \in Ended, pc[p] = "unborn" => callStatus[p] = "none"
    PROVE  Mine(p)
BY DEF Mine, KnowsRaw, KnowsWrapper, KnowsOutcome, Ended, CallSteps, AuditSteps, ReportSteps,
       ImportSteps, ReportSteps

LEMMA EndedKnowsNothingNext ==
    ASSUME NEW p \in Commands, pc'[p] \in Ended, pc'[p] = "unborn" => callStatus'[p] = "none"
    PROVE  Mine(p)'
BY DEF Mine, KnowsRaw, KnowsWrapper, KnowsOutcome, Ended, CallSteps, AuditSteps, ReportSteps,
       ImportSteps, ReportSteps

(* Steps that leave files and outcomes alone.                              *)
LEMMA CallChecksKnow ==
    ASSUME TypeOK, StepsFitCommands, NEW p \in Commands, Mine(p), ClaimsAreTrue, EndsSettled(p),
           \/ Start(p) \/ Crash(p)
           \/ PrecheckRaw(p) \/ PrecheckPrediction(p) \/ PrecheckSidecar(p) \/ Invoke(p)
    PROVE  Mine(p)' /\ ClaimsAreTrue' /\ EndsSettled(p)'
<1> USE DEF TypeOK, Mine, KnowsRaw, KnowsWrapper, KnowsOutcome, EndsSettled, Goto, disk, locals,
            CallSteps, ImportSteps, AuditSteps, ReportSteps
<1>0. ASSUME UNCHANGED <<raw, predictions, sidecar>> PROVE ClaimsAreTrue'
  BY <1>0 DEF ClaimsAreTrue
<1>1. ASSUME NEW t \in Traces, StartCall(p, t) \/ StartMark(p, t)
      PROVE  Mine(p)' /\ ClaimsAreTrue' /\ EndsSettled(p)'
  BY <1>0, <1>1 DEF StartCall, StartMark, Begin
<1>2. ASSUME NEW t \in Traces, NEW b \in Bytes, StartImport(p, t, b)
      PROVE  Mine(p)' /\ ClaimsAreTrue' /\ EndsSettled(p)'
  BY <1>0, <1>2 DEF StartImport, Begin
<1>3. ASSUME NEW name \in {"report", "complete"}, StartReport(p, name)
      PROVE  Mine(p)' /\ ClaimsAreTrue' /\ EndsSettled(p)'
  BY <1>0, <1>3 DEF StartReport, Begin
<1>4. CASE Crash(p)
  BY <1>0, <1>4 DEF Crash
<1>5. CASE PrecheckRaw(p) \/ PrecheckPrediction(p) \/ PrecheckSidecar(p)
  BY <1>0, <1>5 DEF PrecheckRaw, PrecheckPrediction, PrecheckSidecar, Pass, Refuse
<1>6. CASE Invoke(p)
  BY <1>0, <1>6 DEF Invoke
<1> QED BY <1>1, <1>2, <1>3, <1>4, <1>5, <1>6 DEF Start

(* The call's own sidecar: still "attempting" until its last step.         *)
LEMMA SidecarStepsKnow ==
    ASSUME TypeOK, LatchInv, NEW p \in Commands, Mine(p), ClaimsAreTrue, EndsSettled(p),
           PublishNewSidecar(p) \/ ReplaceSidecar(p)
    PROVE  Mine(p)' /\ ClaimsAreTrue' /\ EndsSettled(p)'
<1> DEFINE t == trace[p]
<1> USE DEF TypeOK, Mine, KnowsRaw, KnowsWrapper, KnowsOutcome, EndsSettled, Goto, locals,
            CallSteps, ImportSteps, AuditSteps, ReportSteps
<1>1. CASE Refuse(p, "publish_sidecar") \/ Refuse(p, "audit_replace")
  BY <1>1 DEF Refuse, disk, ClaimsAreTrue
<1>2. CASE PublishNewSidecar(p) /\ ~Refuse(p, "publish_sidecar")
  <2>1. /\ sidecar' = [sidecar EXCEPT ![t] = Attempting]
        /\ UNCHANGED <<raw, predictions>>
    BY <1>2 DEF PublishNewSidecar
  <2>2. ClaimsAreTrue'
    BY <2>1 DEF ClaimsAreTrue, Attempting, Sidecar
  <2>3. Mine(p)' /\ EndsSettled(p)'
    BY <1>2 DEF PublishNewSidecar
  <2> QED BY <2>2, <2>3
<1>3. CASE ReplaceSidecar(p) /\ ~Refuse(p, "audit_replace")
  <2>1. /\ sidecar' = [sidecar EXCEPT ![t] = FinalSidecar(p)]
        /\ pc' = [pc EXCEPT ![p] = "done"] /\ pc[p] = "audit_replace"
        /\ UNCHANGED <<raw, predictions, cmd, trace, callStatus>>
    BY <1>3 DEF ReplaceSidecar
  <2>2. Settled(t)'
    BY <2>1, FinalSidecarIsFinal DEF Settled
  <2>3. t \in Traces /\ t' = t /\ sidecar'[t] = FinalSidecar(p)
    BY <2>1
  <2>4. Mine(p)' /\ EndsSettled(p)'
    BY <2>1, <2>2, <2>3
  <2>5. /\ FinalSidecar(p).response_saved = saved[p]
        /\ FinalSidecar(p).sha = IF saved[p] THEN bytes[p] ELSE Absent
        /\ FinalSidecar(p).prediction_imported <=> imported[p] # "none"
        /\ FinalSidecar(p).parse_status = imported[p]
        /\ FinalSidecar(p).outcome = "call_failed" <=> callStatus[p] = "failed"
    BY DEF FinalSidecar, Sidecar, AuditedOutcome
  <2>6. saved[p] => raw[t] = bytes[p] /\ bytes[p] # Absent
    BY <2>1, BytesAssumption
  <2>7. imported[p] # "none" =>
          saved[p] /\ predictions[t] = WrapperFile("complete", bytes[p], imported[p])
    BY <2>1
  <2>8. callStatus[p] = "failed" => ~saved[p]
    BY <2>1
  <2>9. ClaimsAreTrue'
    <3> SUFFICES ASSUME NEW u \in Traces
                 PROVE  /\ sidecar'[u].response_saved =>
                              raw[u] = sidecar'[u].sha /\ sidecar'[u].sha # Absent
                        /\ sidecar'[u].prediction_imported =>
                              predictions[u] = WrapperFile("complete", sidecar'[u].sha,
                                                   sidecar'[u].parse_status)
                        /\ sidecar'[u].outcome = "call_failed" =>
                              ~sidecar'[u].response_saved /\ ~sidecar'[u].prediction_imported
      BY <2>1 DEF ClaimsAreTrue
    <3>1. CASE u = t
      BY <3>1, <2>3, <2>5, <2>6, <2>7, <2>8
    <3>2. CASE u # t
      <4>1. sidecar'[u] = sidecar[u]
        BY <2>1, <3>2
      <4> QED BY <4>1 DEF ClaimsAreTrue
    <3> QED BY <3>1, <3>2
  <2> QED BY <2>4, <2>9
<1> QED BY <1>1, <1>2, <1>3 DEF PublishNewSidecar, ReplaceSidecar

(* The answer comes back, and finishAudit reads the two files.             *)
LEMMA AuditStepsKnow ==
    ASSUME TypeOK, StepsFitCommands, NEW p \in Commands, Mine(p), ClaimsAreTrue, EndsSettled(p),
           \/ \E s \in {"succeeded", "failed"}, b \in Bytes, identityOk \in BOOLEAN :
                 InvokeReturns(p, s, b, identityOk)
           \/ AuditReadRaw(p) \/ AuditReadPrediction(p)
    PROVE  Mine(p)' /\ ClaimsAreTrue' /\ EndsSettled(p)'
<1> USE DEF TypeOK, Mine, KnowsRaw, KnowsWrapper, KnowsOutcome, EndsSettled, Goto, disk,
            CallSteps, ImportSteps, AuditSteps, ReportSteps
<1>0. ASSUME UNCHANGED <<raw, predictions, sidecar>> PROVE ClaimsAreTrue'
  BY <1>0 DEF ClaimsAreTrue
<1>1. ASSUME NEW s \in {"succeeded", "failed"}, NEW b \in Bytes,
             NEW identityOk \in BOOLEAN, InvokeReturns(p, s, b, identityOk)
      PROVE  Mine(p)' /\ ClaimsAreTrue' /\ EndsSettled(p)'
  <2>1. cmd[p] = "call" /\ raw[trace[p]] = Absent /\ predictions[trace[p]].state = "absent"
    BY <1>1 DEF InvokeReturns, StepsFitCommands, StepsOfCall
  <2> QED BY <1>0, <1>1, <2>1 DEF InvokeReturns, NotAttemptedWrapper, WrapperFile
<1>2. CASE AuditReadRaw(p)
  <2>1. /\ pc' = [pc EXCEPT ![p] = "audit_prediction"] /\ pc[p] = "audit_raw"
        /\ UNCHANGED <<raw, predictions, sidecar, cmd, trace, bytes, callStatus>>
    BY <1>2 DEF AuditReadRaw
  <2>2. saved'[p] => raw[trace[p]] = bytes[p]
    BY <1>2, Zenon DEF AuditReadRaw
  <2>3. saved'[p] => callStatus[p] # "failed"
    BY <2>1, <2>2, BytesAssumption
  <2>4. Mine(p)' /\ EndsSettled(p)'
    BY <2>1, <2>2, <2>3
  <2> QED BY <1>0, <2>1, <2>4
<1>3. CASE AuditReadPrediction(p)
  <2> DEFINE w == predictions[trace[p]]
             accepted == saved[p] /\ w.state = "complete" /\ w.sha = bytes[p]
  <2>1. w # NotAttemptedWrapper
    BY <1>3 DEF AuditReadPrediction
  <2>2. /\ pc' = [pc EXCEPT ![p] = "audit_replace"] /\ pc[p] = "audit_prediction"
        /\ imported' = [imported EXCEPT ![p] = IF accepted THEN w.parse_status ELSE "none"]
        /\ UNCHANGED <<raw, predictions, sidecar, cmd, trace, bytes, callStatus, saved>>
    BY <1>3, <2>1 DEF AuditReadPrediction
  <2>3. imported'[p] # "none" => saved[p] /\ w = WrapperFile("complete", bytes[p], imported'[p])
    BY <2>2 DEF WrapperFile
  <2>4. Mine(p)' /\ EndsSettled(p)'
    BY <2>2, <2>3
  <2> QED BY <1>0, <2>2, <2>4
<1> QED BY <1>1, <1>2, <1>3

(* The importer's checks.                                                  *)
LEMMA ImportChecksKnow ==
    ASSUME TypeOK, StepsFitCommands, NEW p \in Commands, Mine(p), ClaimsAreTrue, EndsSettled(p),
           \/ ImportContext(p) \/ ImportCheckPrediction(p) \/ SaveRawCheck(p)
           \/ WrapperCheck(p) \/ MarkCheck(p)
           \/ RefuseImport(p, "raw_open") \/ RefuseImport(p, "wrapper_open")
    PROVE  Mine(p)' /\ ClaimsAreTrue' /\ EndsSettled(p)'
<1> USE DEF TypeOK, Mine, KnowsRaw, KnowsWrapper, KnowsOutcome, EndsSettled, Goto, disk, locals,
            CallSteps, ImportSteps, AuditSteps, ReportSteps, Pass, Refuse, RefuseImport,
            NotAttemptedWrapper, WrapperFile
<1>0. ASSUME UNCHANGED <<raw, predictions, sidecar>> PROVE ClaimsAreTrue'
  BY <1>0 DEF ClaimsAreTrue
<1>1. CASE ImportContext(p)
  BY <1>0, <1>1 DEF ImportContext
<1>2. CASE ImportCheckPrediction(p)
  BY <1>0, <1>2 DEF ImportCheckPrediction
<1>3. CASE SaveRawCheck(p)
  <2>1. raw[trace[p]] = Absent => ~sidecar[trace[p]].response_saved
    BY DEF ClaimsAreTrue
  <2> QED BY <1>0, <1>3, <2>1 DEF SaveRawCheck
<1>4. CASE WrapperCheck(p)
  BY <1>0, <1>4 DEF WrapperCheck
<1>5. CASE MarkCheck(p)
  BY <1>0, <1>5 DEF MarkCheck, StepsFitCommands
<1>6. CASE RefuseImport(p, "raw_open") \/ RefuseImport(p, "wrapper_open")
  BY <1>0, <1>6
<1> QED BY <1>1, <1>2, <1>3, <1>4, <1>5, <1>6

(* The raw file is written where no sidecar claims it.                     *)
LEMMA RawStepsKnow ==
    ASSUME TypeOK, NEW p \in Commands, Mine(p), ClaimsAreTrue, EndsSettled(p),
           \/ SaveRawOpen(p) /\ ~RefuseImport(p, "raw_open")
           \/ SaveRawWrite(p) \/ SaveRawFails(p)
    PROVE  Mine(p)' /\ ClaimsAreTrue' /\ EndsSettled(p)'
<1> DEFINE t == trace[p]
<1> USE DEF TypeOK, Goto, locals
<1>1. /\ ~sidecar[t].response_saved
      /\ \E content : raw' = [raw EXCEPT ![t] = content]
      /\ UNCHANGED <<predictions, sidecar>>
  BY DEF SaveRawOpen, SaveRawWrite, SaveRawFails, Mine, KnowsRaw
<1>2. ClaimsAreTrue'
  <2> SUFFICES ASSUME NEW u \in Traces, sidecar[u].response_saved
               PROVE  raw'[u] = raw[u]
    BY <1>1 DEF ClaimsAreTrue
  <2> QED BY <1>1
<1> USE DEF Mine, KnowsRaw, KnowsWrapper, KnowsOutcome, EndsSettled, CallSteps, ImportSteps,
            AuditSteps, ReportSteps, NotAttemptedWrapper, WrapperFile
<1>3. CASE SaveRawOpen(p) /\ ~RefuseImport(p, "raw_open")
  BY <1>2, <1>3 DEF SaveRawOpen
<1>4. CASE SaveRawWrite(p)
  BY <1>2, <1>4 DEF SaveRawWrite
<1>5. CASE SaveRawFails(p)
  BY <1>2, <1>5 DEF SaveRawFails
<1> QED BY <1>3, <1>4, <1>5

(* The wrapper is written where no sidecar claims it.                      *)
LEMMA WrapperStepsKnow ==
    ASSUME TypeOK, NEW p \in Commands, Mine(p), ClaimsAreTrue, EndsSettled(p),
           \/ WrapperOpen(p) /\ ~RefuseImport(p, "wrapper_open")
           \/ WrapperWrite(p) \/ WrapperWriteFails(p)
    PROVE  Mine(p)' /\ ClaimsAreTrue' /\ EndsSettled(p)'
<1> DEFINE t == trace[p]
<1> USE DEF TypeOK, Goto, locals
<1>1. /\ predictions[t].state # "complete"
      /\ \E content : predictions' = [predictions EXCEPT ![t] = content]
      /\ UNCHANGED <<raw, sidecar>>
  <2>1. pc[p] = "wrapper_open" => predictions[t].state = "absent"
    BY DEF Mine, KnowsWrapper
  <2>2. pc[p] = "wrapper_write" => predictions[t].state = "truncated"
    BY DEF Mine, KnowsWrapper, TruncatedWrapper, WrapperFile
  <2>3. CASE WrapperOpen(p) /\ ~RefuseImport(p, "wrapper_open")
    BY <2>1, <2>3 DEF WrapperOpen
  <2>4. CASE WrapperWrite(p)
    BY <2>2, <2>4 DEF WrapperWrite
  <2>5. CASE WrapperWriteFails(p)
    BY <2>2, <2>5 DEF WrapperWriteFails
  <2> QED BY <2>3, <2>4, <2>5
<1>2. ClaimsAreTrue'
  <2> SUFFICES ASSUME NEW u \in Traces, sidecar[u].prediction_imported
               PROVE  predictions'[u] = predictions[u]
    BY <1>1 DEF ClaimsAreTrue
  <2>1. predictions[u].state = "complete"
    BY DEF ClaimsAreTrue, WrapperFile
  <2> QED BY <1>1, <2>1
<1>3. TruncatedWrapper # NotAttemptedWrapper /\ TornWrapper # NotAttemptedWrapper
  BY DEF TruncatedWrapper, NotAttemptedWrapper, TornWrapper, WrapperFile
<1>4. cmd[p] = "call" => WrapperOf(p) # NotAttemptedWrapper
  BY ClassifierAssumption DEF WrapperOf, ImportedWrapper, NotAttemptedWrapper, WrapperFile,
                              ImportStatuses
<1> USE DEF Mine, KnowsRaw, KnowsWrapper, KnowsOutcome, EndsSettled, CallSteps, ImportSteps,
            AuditSteps, ReportSteps
<1>5. CASE WrapperOpen(p) /\ ~RefuseImport(p, "wrapper_open")
  BY <1>2, <1>5 DEF WrapperOpen
<1>6. CASE WrapperWrite(p)
  <2>1. PICK content \in WrapperAfterWrite(predictions[t], WrapperOf(p)) :
           predictions' = [predictions EXCEPT ![t] = content]
    BY <1>6 DEF WrapperWrite
  <2>2. predictions[t] = TruncatedWrapper
    BY <1>6 DEF WrapperWrite
  <2>3. cmd[p] = "call" => content # NotAttemptedWrapper
    BY <1>3, <1>4, <2>1, <2>2 DEF WrapperAfterWrite
  <2>4. predictions'[t] = content
    BY <2>1
  <2> QED BY <1>2, <1>6, <2>3, <2>4 DEF WrapperWrite
<1>7. CASE WrapperWriteFails(p)
  <2>1. PICK content \in {predictions[t], TornWrapper} :
           predictions' = [predictions EXCEPT ![t] = content]
    BY <1>7 DEF WrapperWriteFails
  <2>2. predictions'[t] = content /\ content # NotAttemptedWrapper
    BY <1>3, <1>7, <2>1 DEF WrapperWriteFails
  <2> QED BY <1>2, <1>7, <2>2 DEF WrapperWriteFails
<1> QED BY <1>5, <1>6, <1>7

(* A report touches neither evidence nor calls.                            *)
LEMMA ReportStepsKnow ==
    ASSUME TypeOK, NEW p \in Commands, Mine(p), ClaimsAreTrue, EndsSettled(p), ReportStep(p)
    PROVE  Mine(p)' /\ ClaimsAreTrue' /\ EndsSettled(p)'
<1> DEFINE Elsewhere ==
       /\ pc[p] \in ReportSteps /\ pc'[p] \in ReportSteps \cup {"done"}
       /\ UNCHANGED <<raw, predictions, sidecar, cmd, trace, callStatus, bytes>>
<1>1. ASSUME Elsewhere PROVE Mine(p)' /\ ClaimsAreTrue' /\ EndsSettled(p)'
  BY <1>1 DEF ReportSteps, Mine, KnowsRaw, KnowsWrapper, KnowsOutcome, EndsSettled,
              ClaimsAreTrue, CallSteps, ImportSteps, AuditSteps
<1>2. ASSUME NEW t \in Traces, ReadWrapper(p, t) PROVE Elsewhere
  BY <1>2 DEF TypeOK, ReadWrapper, Refuse, Goto, disk, ReportSteps
<1>3. ASSUME Refuse(p, "report_read") \/ Refuse(p, "report_md_open")
      PROVE  Elsewhere
  BY <1>3 DEF TypeOK, Refuse, Goto, disk, ReportSteps
<1>4. ASSUME NEW from \in ReportSteps, NEW to \in ReportSteps \cup {"done"}, Pass(p, from, to)
      PROVE  Elsewhere
  BY <1>4 DEF TypeOK, Pass, Goto, disk, locals
<1>5. ASSUME WriteReportJson(p) \/ WriteReportMd(p) \/ WriteManifest(p)
      PROVE  Elsewhere
  BY <1>5 DEF TypeOK, WriteReportJson, WriteReportMd, WriteManifest, Goto, locals, ReportSteps
<1>6. ASSUME OpenReportJson(p) \/ OpenReportMd(p)
      PROVE  Elsewhere
  BY <1>3, <1>6 DEF TypeOK, OpenReportJson, OpenReportMd, Goto, locals, ReportSteps
<1>7. ASSUME LoadManifest(p) \/ OpenManifest(p)
      PROVE  Elsewhere
  <2>1. CASE \E to \in ReportSteps \cup {"done"}, from \in ReportSteps : Pass(p, from, to)
    BY <1>4, <2>1
  <2>2. CASE OpenManifest(p) /\ ~Pass(p, "manifest_open", "done")
    BY <2>2 DEF TypeOK, OpenManifest, Goto, locals, ReportSteps
  <2> QED BY <1>7, <2>1, <2>2 DEF LoadManifest, OpenManifest, ReportSteps
<1> QED BY <1>1, <1>2, <1>3, <1>4, <1>5, <1>6, <1>7 DEF ReportStep

LEMMA EveryStepKnows ==
    ASSUME TypeOK, LatchInv, NEW p \in Commands, Start(p) \/ Step(p) \/ Crash(p),
           Mine(p), ClaimsAreTrue, EndsSettled(p)
    PROVE  Mine(p)' /\ ClaimsAreTrue' /\ EndsSettled(p)'
<1>0. StepsFitCommands
  BY DEF LatchInv
<1>1. CASE Start(p) \/ Crash(p)
  BY <1>0, <1>1, CallChecksKnow
<1>2. CASE CallStep(p)
  BY <1>0, <1>2, CallChecksKnow, SidecarStepsKnow, AuditStepsKnow DEF CallStep
<1>3. CASE ImportStep(p)
  BY <1>0, <1>3, ImportChecksKnow, RawStepsKnow, WrapperStepsKnow DEF ImportStep
<1>4. CASE ReportStep(p)
  BY <1>4, ReportStepsKnow
<1> QED BY <1>1, <1>2, <1>3, <1>4 DEF Step

LEMMA SerialIsInductive ==
    TypeOK /\ LatchInv /\ SerialInv /\ [Next]_vars => SerialInv'
<1> SUFFICES ASSUME TypeOK, LatchInv, SerialInv, [Next]_vars PROVE SerialInv'
  OBVIOUS
<1>0. inTurns' = inTurns
  BY DEF Next, vars
<1> SUFFICES ASSUME inTurns
             PROVE  /\ OneRuns'
                    /\ \A p \in Commands : Mine(p)' /\ EndsSettled(p)'
                    /\ ClaimsAreTrue'
  BY <1>0 DEF SerialInv
<1>1. OneRuns /\ ClaimsAreTrue /\ \A p \in Commands : Mine(p) /\ EndsSettled(p)
  BY DEF SerialInv
<1>2. CASE UNCHANGED vars
  BY <1>1, <1>2 DEF vars, disk, locals, OneRuns, Running, ClaimsAreTrue, Mine, KnowsRaw,
                    KnowsWrapper, KnowsOutcome, EndsSettled, Settled
<1>3. ASSUME NEW p \in Commands, Start(p) \/ Step(p) \/ Crash(p)
      PROVE  /\ OneRuns'
             /\ \A q \in Commands : Mine(q)' /\ EndsSettled(q)'
             /\ ClaimsAreTrue'
  <2>1. OneRuns' /\ \A q \in Commands \ {p} : pc'[q] \in Ended
    BY <1>1, <1>3, OthersRest
  <2>2. Mine(p)' /\ EndsSettled(p)' /\ ClaimsAreTrue'
    BY <1>1, <1>3, EveryStepKnows
  <2>3. ASSUME NEW q \in Commands \ {p} PROVE Mine(q)' /\ EndsSettled(q)'
    <3>1. /\ pc'[q] = pc[q] /\ cmd'[q] = cmd[q] /\ trace'[q] = trace[q]
          /\ callStatus'[q] = callStatus[q]
      BY <1>3, OthersStay
    <3>2. Mine(q)'
      BY <1>1, <2>1, <3>1, EndedKnowsNothingNext DEF Mine, KnowsOutcome
    <3>3. \A t \in Traces : Settled(t) => Settled(t)'
      BY <1>3, SettledStays DEF Settled
    <3> QED BY <1>1, <3>1, <3>2, <3>3 DEF EndsSettled, TypeOK
  <2> QED BY <2>1, <2>2, <2>3
<1> QED BY <1>2, <1>3 DEF Next

(* When commands take turns, each still finds what it saw, and sidecars    *)
(* claim only what is on disk.                                             *)
THEOREM SerialHolds == Spec => [](TypeOK /\ LatchInv /\ SerialInv)
<1>1. Init => SerialInv
  <2> SUFFICES ASSUME Init
               PROVE  OneRuns /\ (\A p \in Commands : Mine(p) /\ EndsSettled(p)) /\ ClaimsAreTrue
    BY DEF SerialInv
  <2>1. OneRuns
    BY DEF Init, OneRuns, Running, Ended
  <2>2. \A p \in Commands : Mine(p) /\ EndsSettled(p)
    BY EndedKnowsNothing DEF Init, EndsSettled, Ended
  <2>3. ClaimsAreTrue
    BY DEF Init, ClaimsAreTrue, NoSidecar, Sidecar
  <2> QED BY <2>1, <2>2, <2>3
<1>2. TypeOK /\ LatchInv /\ SerialInv /\ [Next]_vars => SerialInv'
  BY SerialIsInductive
<1> QED BY <1>1, <1>2, LatchHolds, PTL DEF Spec

(* A final sidecar claims only what the raw file and the wrapper show.     *)
THEOREM SidecarsAreTruthful == Spec => []SidecarIsTruthful
<1>1. SerialInv => SidecarIsTruthful
  BY DEF SerialInv, ClaimsAreTrue, SidecarIsTruthful
<1> QED BY <1>1, SerialHolds, PTL

(* A call that ran to its end left a final sidecar.                        *)
THEOREM EndedCallsAreSettled == Spec => []EndedCallIsSettled
<1>1. SerialInv => EndedCallIsSettled
  BY DEF SerialInv, EndedCallIsSettled
<1> QED BY <1>1, SerialHolds, PTL

(* A saved response keeps its bytes: a raw file changes only between its   *)
(* creation and the end of the write that fills it.                        *)
THEOREM RawFilesAreImmutable == Spec => RawIsImmutable
<1> DEFINE Kept == inTurns =>
              \A t \in Traces :
                 raw[t] # Absent /\ (\A p \in Commands : trace[p] = t => pc[p] # "raw_write")
                    => raw'[t] = raw[t]
<1>1. TypeOK /\ LatchInv /\ SerialInv /\ [Next]_vars => [Kept]_vars
  <2> SUFFICES ASSUME TypeOK, SerialInv, NEW p \in Commands, Start(p) \/ Step(p) \/ Crash(p),
                      inTurns, NEW t \in Traces, raw[t] # Absent,
                      \A q \in Commands : trace[q] = t => pc[q] # "raw_write"
               PROVE  raw'[t] = raw[t]
    BY DEF Next
  <2>1. CASE SaveRawOpen(p)
    <3>0. Mine(p)
      BY DEF SerialInv
    <3>1. pc[p] = "raw_open" => raw[trace[p]] = Absent
      BY <3>0 DEF Mine, KnowsRaw
    <3> QED BY <2>1, <3>1 DEF SaveRawOpen, RefuseImport, Goto, disk, TypeOK
  <2>2. CASE SaveRawWrite(p) \/ SaveRawFails(p)
    BY <2>2 DEF SaveRawWrite, SaveRawFails, Goto, TypeOK
  <2>3. CASE Start(p) \/ Crash(p)
    BY <2>3 DEF Start, Crash, StartCall, StartMark, StartImport, StartReport, Begin, disk
  <2>4. CASE CallStep(p)
    BY <2>4 DEF CallStep, PrecheckRaw, PrecheckPrediction, PrecheckSidecar,
                PublishNewSidecar, Invoke, InvokeReturns, AuditReadRaw,
                AuditReadPrediction, ReplaceSidecar, Pass, Refuse, disk
  <2>5. CASE ImportContext(p) \/ ImportCheckPrediction(p) \/ SaveRawCheck(p)
             \/ WrapperCheck(p) \/ MarkCheck(p)
    BY <2>5 DEF ImportContext, ImportCheckPrediction, SaveRawCheck, WrapperCheck,
                MarkCheck, Pass, Refuse, RefuseImport, disk
  <2>6. CASE WrapperOpen(p) \/ WrapperWrite(p) \/ WrapperWriteFails(p)
    BY <2>6 DEF WrapperOpen, WrapperWrite, WrapperWriteFails, RefuseImport, disk
  <2>7. CASE ReportStep(p)
    BY <2>7 DEF ReportStep, ReadWrapper, OpenReportJson, WriteReportJson, OpenReportMd,
                WriteReportMd, LoadManifest, OpenManifest, WriteManifest, Pass, Refuse, disk
  <2> QED BY <2>1, <2>2, <2>3, <2>4, <2>5, <2>6, <2>7 DEF Step, ImportStep
<1> QED BY <1>1, SerialHolds, PTL DEF Spec, RawIsImmutable

----------------------------------------------------------------------------
(* Commands that take turns on a disk that loses no write                  *)

Sound(p) == KnowsSavedBytes(p) /\ KnowsReport(p)

LEMMA EndedNeedsNothing ==
    ASSUME NEW p \in Commands, pc[p] \in Ended,
           pc[p] = "unborn" => \A t \in Traces : seen[p][t] = "unread"
    PROVE  Sound(p)
BY DEF Sound, KnowsSavedBytes, KnowsReport, Ended, ReportSteps, ManifestSteps

LEMMA EndedNeedsNothingNext ==
    ASSUME NEW p \in Commands, pc'[p] \in Ended,
           pc'[p] = "unborn" => \A t \in Traces : seen'[p][t] = "unread"
    PROVE  Sound(p)'
BY DEF Sound, KnowsSavedBytes, KnowsReport, Ended, ReportSteps, ManifestSteps

(* Files that stay as they are stay consistent.                            *)
LEMMA FilesStay ==
    ASSUME UNCHANGED <<raw, predictions, manifest, reportJson, reportMd>>
    PROVE  /\ NamesRaw => NamesRaw'
           /\ CompletedIsWhole => CompletedIsWhole'
BY DEF NamesRaw, CompletedIsWhole

LEMMA CallsAreSound ==
    ASSUME TypeOK, NEW p \in Commands, Start(p) \/ Crash(p) \/ CallStep(p),
           Sound(p), NamesRaw, CompletedIsWhole
    PROVE  Sound(p)' /\ NamesRaw' /\ CompletedIsWhole'
<1> DEFINE Elsewhere ==
       /\ \/ pc'[p] \in Ended \cup CallSteps \cup AuditSteps \cup
                           {"invoke", "await", "import_context", "mark_check"}
          \/ pc'[p] = "report_read" /\ pc[p] = "unborn" /\ UNCHANGED seen
       /\ pc'[p] # "unborn"
       /\ UNCHANGED <<raw, predictions, manifest, reportJson, reportMd>>
<1>1. ASSUME Elsewhere PROVE Sound(p)' /\ NamesRaw' /\ CompletedIsWhole'
  BY <1>1, FilesStay DEF Sound, KnowsSavedBytes, KnowsReport, Ended, CallSteps, AuditSteps,
                         ReportSteps, ManifestSteps
<1> USE DEF TypeOK, Goto, disk, locals, Ended, CallSteps, AuditSteps
<1>2. ASSUME Start(p) PROVE Elsewhere
  BY <1>2 DEF Start, StartCall, StartMark, StartImport, StartReport, Begin
<1>3. ASSUME Crash(p) PROVE Elsewhere
  BY <1>3 DEF Crash
<1>4. ASSUME PrecheckRaw(p) \/ PrecheckPrediction(p) \/ PrecheckSidecar(p) PROVE Elsewhere
  BY <1>4 DEF PrecheckRaw, PrecheckPrediction, PrecheckSidecar, Pass, Refuse
<1>5. ASSUME PublishNewSidecar(p) \/ ReplaceSidecar(p) PROVE Elsewhere
  BY <1>5 DEF PublishNewSidecar, ReplaceSidecar, Refuse
<1>6. ASSUME Invoke(p) \/ AuditReadRaw(p) \/ AuditReadPrediction(p) PROVE Elsewhere
  BY <1>6 DEF Invoke, AuditReadRaw, AuditReadPrediction
<1>7. ASSUME NEW s \in {"succeeded", "failed"}, NEW b \in Bytes,
             NEW identityOk \in BOOLEAN, InvokeReturns(p, s, b, identityOk)
      PROVE  Elsewhere
  BY <1>7 DEF InvokeReturns
<1> QED BY <1>1, <1>2, <1>3, <1>4, <1>5, <1>6, <1>7 DEF CallStep

LEMMA ImportsAreSound ==
    ASSUME TypeOK, StepsFitCommands, NEW p \in Commands, ImportStep(p), Mine(p),
           ~LateWriteErrors, Sound(p), NamesRaw, CompletedIsWhole
    PROVE  Sound(p)' /\ NamesRaw' /\ CompletedIsWhole'
<1> DEFINE t == trace[p]
<1> USE DEF TypeOK, Goto, disk, locals, Sound, KnowsSavedBytes, KnowsReport, ReportSteps,
            ManifestSteps
<1>1. CASE ImportContext(p) \/ ImportCheckPrediction(p) \/ SaveRawCheck(p)
           \/ WrapperCheck(p) \/ MarkCheck(p)
           \/ RefuseImport(p, "raw_open") \/ RefuseImport(p, "wrapper_open")
  <2>1. UNCHANGED <<raw, predictions, manifest, reportJson, reportMd, cmd, trace, bytes>>
    BY <1>1 DEF ImportContext, ImportCheckPrediction, SaveRawCheck, WrapperCheck, MarkCheck,
                Pass, Refuse, RefuseImport
  <2>2. Sound(p)'
    BY <1>1, <2>1 DEF ImportContext, ImportCheckPrediction, SaveRawCheck, WrapperCheck,
                MarkCheck, Pass, Refuse, RefuseImport, StepsFitCommands
  <2> QED BY <2>1, <2>2, FilesStay
<1>2. CASE SaveRawOpen(p) /\ ~RefuseImport(p, "raw_open")
  <2>1. /\ pc[p] = "raw_open" /\ pc' = [pc EXCEPT ![p] = "raw_write"]
        /\ raw' = [raw EXCEPT ![t] = Empty]
        /\ UNCHANGED <<predictions, manifest, reportJson, reportMd>>
    BY <1>2 DEF SaveRawOpen
  <2>2. predictions[t].state = "absent"
    BY <2>1 DEF Mine, KnowsWrapper
  <2>3. Sound(p)'
    BY <2>1
  <2>4. NamesRaw' /\ CompletedIsWhole'
    BY <2>1, <2>2 DEF NamesRaw, CompletedIsWhole
  <2> QED BY <2>3, <2>4
<1>3. CASE SaveRawWrite(p)
  <2>1. /\ pc[p] = "raw_write" /\ pc' = [pc EXCEPT ![p] = "wrapper_check"]
        /\ UNCHANGED <<predictions, manifest, reportJson, reportMd, cmd, trace, bytes>>
    BY <1>3 DEF SaveRawWrite
  <2>2. predictions[t].state = "absent" /\ raw[t] = Empty
    BY <2>1 DEF Mine, KnowsWrapper, KnowsRaw
  <2>3. raw' = [raw EXCEPT ![t] = bytes[p]]
    BY <1>3, <2>2 DEF SaveRawWrite, RawAfterWrite
  <2>4. Sound(p)'
    BY <2>1, <2>3
  <2>5. NamesRaw' /\ CompletedIsWhole'
    BY <2>1, <2>2, <2>3 DEF NamesRaw, CompletedIsWhole
  <2> QED BY <2>4, <2>5
<1>4. CASE WrapperOpen(p) /\ ~RefuseImport(p, "wrapper_open")
  <2>1. /\ pc[p] = "wrapper_open" /\ pc' = [pc EXCEPT ![p] = "wrapper_write"]
        /\ predictions' = [predictions EXCEPT ![t] = TruncatedWrapper]
        /\ UNCHANGED <<raw, manifest, reportJson, reportMd, cmd, trace, bytes>>
    BY <1>4 DEF WrapperOpen
  <2>2. predictions[t].state = "absent" /\ t \in Traces
    BY <2>1 DEF Mine, KnowsWrapper
  <2>3. manifest # "completed"
    BY <2>2 DEF CompletedIsWhole
  <2>4. Sound(p)'
    BY <2>1
  <2>5. NamesRaw' /\ CompletedIsWhole'
    BY <2>1, <2>3 DEF NamesRaw, CompletedIsWhole, TruncatedWrapper, WrapperFile
  <2> QED BY <2>4, <2>5
<1>5. CASE WrapperWrite(p)
  <2>1. /\ pc[p] = "wrapper_write" /\ pc'[p] \in {"audit_raw", "done"}
        /\ UNCHANGED <<raw, manifest, reportJson, reportMd, cmd, trace, bytes>>
    BY <1>5 DEF WrapperWrite
  <2>2. predictions[t] = TruncatedWrapper /\ t \in Traces
    BY <2>1 DEF Mine, KnowsWrapper
  <2>3. manifest # "completed"
    BY <2>2 DEF CompletedIsWhole, TruncatedWrapper, WrapperFile
  <2>4. predictions' = [predictions EXCEPT ![t] = WrapperOf(p)]
    BY <1>5, <2>2 DEF WrapperWrite, WrapperAfterWrite
  <2>5. WrapperOf(p) = NotAttemptedWrapper \/ raw[t] = WrapperOf(p).sha
    BY <2>1 DEF WrapperOf, ImportedWrapper, WrapperFile
  <2>6. Sound(p)'
    BY <2>1
  <2>7. NamesRaw'
    BY <2>1, <2>2, <2>4, <2>5 DEF NamesRaw
  <2> QED BY <2>1, <2>3, <2>6, <2>7 DEF CompletedIsWhole
<1>6. ~SaveRawFails(p) /\ ~WrapperWriteFails(p)
  BY DEF SaveRawFails, WrapperWriteFails
<1> QED BY <1>1, <1>2, <1>3, <1>4, <1>5, <1>6 DEF ImportStep, SaveRawOpen, WrapperOpen

(* A report that counted every trace says what the wrappers say, and       *)
(* marks the run complete only when all of them are there.                 *)
LEMMA CountsAreStatuses ==
    ASSUME TypeOK, NEW p \in Commands, \A t \in Traces : Counted(p, t),
           RunComplete(seen[p]) \/ \A t \in Traces : predictions[t].state = "complete"
    PROVE  /\ \A t \in Traces : predictions[t].state = "complete"
           /\ seen[p] = [t \in Traces |-> predictions[t].parse_status]
BY DEF TypeOK, Counted, RunComplete

LEMMA ReportsAreSound ==
    ASSUME TypeOK, NEW p \in Commands, ReportStep(p), ~LateWriteErrors,
           Sound(p), NamesRaw, CompletedIsWhole
    PROVE  Sound(p)' /\ NamesRaw' /\ CompletedIsWhole'
<1> DEFINE AllCounted == \A t \in Traces : Counted(p, t)
<1>1. pc[p] \in ReportSteps \ {"report_read"} => AllCounted
  BY DEF Sound, KnowsReport
<1>2. ASSUME AllCounted, manifest = "completed"
      PROVE  seen[p] = [t \in Traces |-> predictions[t].parse_status]
  BY <1>2, CountsAreStatuses DEF CompletedIsWhole
<1>3. UNCHANGED <<raw, predictions>> => NamesRaw'
  BY DEF NamesRaw
<1>4. ASSUME UNCHANGED <<predictions, seen>>, AllCounted
      PROVE  \A t \in Traces : Counted(p, t)'
  BY <1>4 DEF Counted
<1> USE DEF Goto, disk, locals
<1>5. ASSUME Refuse(p, "report_read") \/ Refuse(p, "report_md_open")
      PROVE  Sound(p)' /\ NamesRaw' /\ CompletedIsWhole'
  <2>1. pc'[p] = "done" /\ UNCHANGED <<raw, predictions, manifest, reportJson, reportMd>>
    BY <1>5 DEF Refuse, TypeOK
  <2> QED BY <2>1, FilesStay, EndedNeedsNothingNext DEF Ended
<1>6. ASSUME NEW t \in Traces, ReadWrapper(p, t), ~Refuse(p, "report_read")
      PROVE  Sound(p)' /\ NamesRaw' /\ CompletedIsWhole'
  <2> DEFINE count == IF predictions[t].state = "absent" THEN "wrapper_missing"
                      ELSE predictions[t].parse_status
  <2>1. /\ predictions[t].state \in {"absent", "complete"}
        /\ pc[p] = "report_read" /\ pc'[p] = "report_read"
        /\ seen' = [seen EXCEPT ![p][t] = count]
        /\ UNCHANGED <<raw, predictions, manifest, reportJson, reportMd>>
    BY <1>6 DEF ReadWrapper, TypeOK
  <2> HIDE DEF count
  <2>2. seen'[p][t] = count /\ \A u \in Traces \ {t} : seen'[p][u] = seen[p][u]
    BY <2>1 DEF TypeOK
  <2>3. Counted(p, t)'
    BY <2>1, <2>2 DEF Counted, count
  <2>4. \A u \in Traces : Counted(p, u)' \/ seen'[p][u] = "unread"
    <3> SUFFICES ASSUME NEW u \in Traces, u # t PROVE Counted(p, u)' \/ seen'[p][u] = "unread"
      BY <2>3
    <3>1. Counted(p, u) \/ seen[p][u] = "unread"
      BY <2>1 DEF Sound, KnowsReport, ReportSteps
    <3> QED BY <2>1, <2>2, <3>1 DEF Counted
  <2>5. Sound(p)'
    BY <2>1, <2>4 DEF Sound, KnowsReport, KnowsSavedBytes, ManifestSteps
  <2> QED BY <2>1, <2>5, FilesStay
<1>7. CASE OpenReportJson(p) /\ ~Refuse(p, "report_read")
  <2>1. /\ pc[p] = "report_read" /\ pc'[p] = "report_json" /\ reportJson' = Torn
        /\ \A t \in Traces : seen[p][t] # "unread"
        /\ UNCHANGED <<raw, predictions, manifest, reportMd, seen>>
    BY <1>7 DEF OpenReportJson, TypeOK
  <2>2. AllCounted
    BY <2>1 DEF Sound, KnowsReport, ReportSteps
  <2>3. Sound(p)'
    BY <1>4, <2>1, <2>2 DEF Sound, KnowsReport, KnowsSavedBytes, ManifestSteps
  <2> QED BY <1>3, <2>1, <2>3 DEF CompletedIsWhole
<1>8. CASE WriteReportJson(p)
  <2>1. /\ pc[p] = "report_json" /\ pc'[p] = "report_md_open" /\ reportJson' = seen[p]
        /\ UNCHANGED <<raw, predictions, manifest, reportMd, seen>>
    BY <1>8 DEF WriteReportJson, TypeOK
  <2>2. AllCounted
    BY <1>1, <2>1 DEF ReportSteps
  <2>3. Sound(p)'
    BY <1>4, <2>1, <2>2 DEF Sound, KnowsReport, KnowsSavedBytes, ManifestSteps
  <2> QED BY <1>2, <1>3, <2>1, <2>2, <2>3 DEF CompletedIsWhole
<1>9. CASE OpenReportMd(p) /\ ~Refuse(p, "report_md_open")
  <2>1. /\ pc[p] = "report_md_open" /\ pc'[p] = "report_md" /\ reportMd' = Torn
        /\ UNCHANGED <<raw, predictions, manifest, reportJson, seen>>
    BY <1>9 DEF OpenReportMd, TypeOK
  <2>2. AllCounted /\ reportJson = seen[p]
    BY <1>1, <2>1 DEF ReportSteps, Sound, KnowsReport
  <2>3. Sound(p)'
    BY <1>4, <2>1, <2>2 DEF Sound, KnowsReport, KnowsSavedBytes, ManifestSteps
  <2> QED BY <1>3, <2>1, <2>3 DEF CompletedIsWhole
<1>10. CASE WriteReportMd(p)
  <2>1. /\ pc[p] = "report_md" /\ reportMd' = seen[p]
        /\ pc'[p] = "done" \/ (pc'[p] = "manifest_load" /\ RunComplete(seen[p]))
        /\ UNCHANGED <<raw, predictions, manifest, reportJson, seen>>
    BY <1>10 DEF WriteReportMd, TypeOK
  <2>2. AllCounted /\ reportJson = seen[p]
    BY <1>1, <2>1 DEF ReportSteps, Sound, KnowsReport
  <2>3. Sound(p)'
    BY <1>4, <2>1, <2>2 DEF Sound, KnowsReport, KnowsSavedBytes, ManifestSteps, ReportSteps,
                            RunComplete
  <2> QED BY <1>2, <1>3, <2>1, <2>2, <2>3 DEF CompletedIsWhole
<1>11. CASE LoadManifest(p) \/ OpenManifest(p) \/ WriteManifest(p)
  <2>1. /\ pc[p] \in ManifestSteps /\ pc'[p] \in ManifestSteps \cup {"done"}
        /\ UNCHANGED <<raw, predictions, reportJson, reportMd, seen>>
        /\ manifest' \in {manifest, "torn", "completed"}
    BY <1>11 DEF LoadManifest, OpenManifest, WriteManifest, Pass, TypeOK, ManifestSteps
  <2>2. AllCounted /\ reportJson = seen[p] /\ reportMd = seen[p] /\ RunComplete(seen[p])
    BY <1>1, <2>1 DEF ReportSteps, ManifestSteps, Sound, KnowsReport
  <2>3. Sound(p)'
    BY <1>4, <2>1, <2>2 DEF Sound, KnowsReport, KnowsSavedBytes, ManifestSteps, ReportSteps,
                            RunComplete
  <2>4. CompletedIsWhole'
    BY <2>1, <2>2, CountsAreStatuses DEF CompletedIsWhole
  <2> QED BY <1>3, <2>1, <2>3, <2>4
<1> QED BY <1>5, <1>6, <1>7, <1>8, <1>9, <1>10, <1>11
        DEF ReportStep, OpenReportJson, OpenReportMd

LEMMA SoundDiskIsInductive ==
    TypeOK /\ LatchInv /\ SerialInv /\ SoundDiskInv /\ [Next]_vars => SoundDiskInv'
<1> SUFFICES ASSUME TypeOK, LatchInv, SerialInv, SoundDiskInv, [Next]_vars PROVE SoundDiskInv'
  OBVIOUS
<1>0. inTurns' = inTurns
  BY DEF Next, vars
<1> SUFFICES ASSUME inTurns, ~LateWriteErrors
             PROVE  (\A p \in Commands : Sound(p)') /\ NamesRaw' /\ CompletedIsWhole'
  BY <1>0 DEF SoundDiskInv, Sound
<1>1. (\A p \in Commands : Sound(p)) /\ NamesRaw /\ CompletedIsWhole
  BY DEF SoundDiskInv, Sound
<1>2. CASE UNCHANGED vars
  BY <1>1, <1>2, FilesStay
     DEF vars, disk, locals, Sound, KnowsSavedBytes, KnowsReport, Counted
<1>3. ASSUME NEW p \in Commands, Start(p) \/ Step(p) \/ Crash(p)
      PROVE  (\A q \in Commands : Sound(q)') /\ NamesRaw' /\ CompletedIsWhole'
  <2>1. Mine(p) /\ StepsFitCommands /\ OneRuns
    BY DEF SerialInv, LatchInv
  <2>2. Sound(p)' /\ NamesRaw' /\ CompletedIsWhole'
    BY <1>1, <1>3, <2>1, CallsAreSound, ImportsAreSound, ReportsAreSound DEF Step
  <2>3. ASSUME NEW q \in Commands \ {p} PROVE Sound(q)'
    <3>1. pc'[q] \in Ended /\ pc'[q] = pc[q] /\ seen'[q] = seen[q]
      BY <1>3, <2>1, OthersRest, OthersStay
    <3> QED BY <1>1, <3>1, EndedNeedsNothingNext DEF Sound, KnowsReport
  <2> QED BY <2>2, <2>3
<1> QED BY <1>2, <1>3 DEF Next

(* On such a disk the files of a run agree with each other.                *)
THEOREM SoundDiskHolds == Spec => []SoundDiskInv
<1>1. Init => SoundDiskInv
  <2> SUFFICES ASSUME Init
               PROVE  (\A p \in Commands : Sound(p)) /\ NamesRaw /\ CompletedIsWhole
    BY DEF SoundDiskInv, Sound
  <2>1. \A p \in Commands : Sound(p)
    BY EndedNeedsNothing DEF Init, Ended
  <2>2. NamesRaw /\ CompletedIsWhole
    BY DEF Init, NamesRaw, CompletedIsWhole, NoWrapperFile, WrapperFile
  <2> QED BY <2>1, <2>2
<1>2. TypeOK /\ LatchInv /\ SerialInv /\ SoundDiskInv /\ [Next]_vars => SoundDiskInv'
  BY SoundDiskIsInductive
<1> QED BY <1>1, <1>2, SerialHolds, PTL DEF Spec

(* The hash in an imported wrapper is the hash of the raw file beside it.  *)
THEOREM WrappersNameRawFiles ==
    Spec => [](~LateWriteErrors => WrapperNamesRaw)
<1>1. SoundDiskInv => (~LateWriteErrors => WrapperNamesRaw)
  BY DEF SoundDiskInv, WrapperNamesRaw
<1> QED BY <1>1, SoundDiskHolds, PTL

(* A completed run has every wrapper and two reports that agree with them. *)
THEOREM CompletedRunsAreWhole ==
    Spec => [](~LateWriteErrors => CompletedRunIsWhole)
<1>1. SoundDiskInv => (~LateWriteErrors => CompletedRunIsWhole)
  BY DEF SoundDiskInv, CompletedRunIsWhole
<1> QED BY <1>1, SoundDiskHolds, PTL
============================================================================
