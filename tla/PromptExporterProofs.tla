------------------------ MODULE PromptExporterProofs ------------------------
(***************************************************************************)
(* Theorems about PromptExporter, for any number of commands on one run    *)
(* directory, every data set and every template.                           *)
(***************************************************************************)
EXTENDS PromptExporter, FiniteSums, SequenceTheorems, WellFoundedInduction, TLAPS

(* What each command owns: no temporary directory before it is made, one   *)
(* until it is moved, and the run directory from then on.                  *)
Early == {"template", "check", "load", "mktemp"}
Filling == {"collect", "prompts", "rename"}
Failures == Results \ {"none", "ok", "killed", "E_JSON_PARSE"}
Published(e) == run # Absent /\ run.by = e

EndIsTruthful(e) ==
    epc[e] = "ended" /\ eresult[e] # "killed" =>
        /\ Published(e) <=> eresult[e] \in {"ok", "E_JSON_PARSE"}
        /\ eresult[e] = "ok" => run.manifest # Torn
        /\ temp[e] # Absent =>
              faults >= IF eresult[e] = "E_WRITE_FAILED" /\ run = Absent THEN 2 ELSE 1

CommandInv(e) ==
    /\ epc[e] \in Early \cup {"reload"} => temp[e] = Absent
    /\ epc[e] \in Filling => temp[e] # Absent
    /\ epc[e] = "reload" => Published(e)
    /\ epc[e] \in Early \cup Filling \cup {"cleanup"} => ~Published(e)
    /\ epc[e] = "cleanup" =>
          /\ eresult[e] \in Failures
          /\ eresult[e] = "E_WRITE_FAILED" /\ run = Absent => faults >= 1
    /\ EndIsTruthful(e)

(* The shape of what the steps update.                                     *)
ShapeInv ==
    /\ \A e \in Exporters : template[e].encoding \in Encodings
    /\ temp = [e \in Exporters |-> temp[e]]
    /\ \A e \in Exporters : temp[e] # Absent =>
          temp[e] = Directory(e, temp[e].prompts, temp[e].manifest)

ExportInv == TypeOK /\ ShapeInv /\ \A e \in Exporters : CommandInv(e)

----------------------------------------------------------------------------
(* Error codes                                                             *)

(* The first error is one of the codes.                                    *)
LEMMA FirstErrorRange ==
    ASSUME NEW C, "ok" \in C, NEW codes, \A i \in DOMAIN codes : codes[i] \in C
    PROVE  FirstError(codes) \in C
<1> DEFINE faulty == {i \in DOMAIN codes : i \in Nat /\ codes[i] # "ok"}
<1>1. CASE faulty = {}
  BY <1>1 DEF FirstError
<1>2. CASE faulty # {}
  <2>1. Min(faulty) \in faulty
    BY <1>2, NatMin
  <2> QED BY <1>2, <2>1 DEF FirstError
<1> QED BY <1>1, <1>2

CollectCodes == {"ok", "E_UNSAFE_ID", "E_DATA_LOAD", "E_FOREIGN_KEY"}

LEMMA CollectRange == CollectError \in CollectCodes
<1>1. \A pid, trace : TraceError(pid, trace) \in CollectCodes
  BY DEF TraceError, CollectCodes
<1>2. \A pid : ProblemError(pid) \in CollectCodes
  <2> TAKE pid
  <2> DEFINE codes == [i \in DOMAIN TracesOf(pid) |-> TraceError(pid, TracesOf(pid)[i])]
  <2>1. \A i \in DOMAIN codes : codes[i] \in CollectCodes
    BY <1>1
  <2>2. FirstError(codes) \in CollectCodes
    <3> HIDE DEF codes
    <3> QED BY <2>1, FirstErrorRange DEF CollectCodes
  <2> QED BY <2>2 DEF ProblemError, CollectCodes
<1> DEFINE ids == ItemsOf(data.manifest.loaded, "problem_ids")
           all == [i \in DOMAIN ids |->
                      IF DOMAIN ids[i] = {"string"} THEN ProblemError(ids[i].string) ELSE "ok"]
<1>3. \A i \in DOMAIN all : all[i] \in CollectCodes
  BY <1>2 DEF CollectCodes
<1>4. FirstError(all) \in CollectCodes
  <2> HIDE DEF all
  <2> QED BY <1>3, FirstErrorRange DEF CollectCodes
<1> QED BY <1>4 DEF CollectError

LEMMA PromptRange ==
    ASSUME NEW e, NEW ref
    PROVE  PromptError(e, ref) \in {"ok", "E_LEAKAGE_AUDIT", "E_TEMPLATE_PLACEHOLDER"}
BY DEF PromptError, RenderError

LEMMA LoadRange ==
    ASSUME NEW e, template[e].encoding \in Encodings
    PROVE  LoadError(e) \in Results \ {"none", "killed", "E_JSON_PARSE", "E_WRITE_FAILED"}
<1>1. TemplateError(template[e]) \in
          {"ok", "E_UTF8_INVALID", "E_EMBEDDED_NUL", "E_TEMPLATE_MARKER"}
  BY DEF TemplateError, Encodings
<1> QED BY <1>1 DEF LoadError, Results

----------------------------------------------------------------------------
(* The invariant                                                           *)

LEMMA DirectoryIsSome ==
    ASSUME NEW e, NEW p, NEW m
    PROVE  Directory(e, p, m) # Absent
<1>1. DOMAIN Directory(e, p, m) # DOMAIN Absent
  <2>1. "by" \in DOMAIN Directory(e, p, m)
    BY DEF Directory
  <2>2. "by" \notin DOMAIN Absent
    BY DEF Absent
  <2> QED BY <2>1, <2>2
<1> QED BY <1>1

(* What a command leaves alone holds of the others after its step.         *)
LEMMA OthersKeep ==
    ASSUME ExportInv, NEW e \in Exporters, NEW c \in Exporters, c # e,
           epc'[c] = epc[c], eresult'[c] = eresult[c], temp'[c] = temp[c],
           faults' \in Nat, faults' >= faults,
           run' = run \/ (run = Absent /\ run' # Absent /\ run'.by = e)
    PROVE  CommandInv(c)'
<1>1. CommandInv(c) /\ faults \in Nat
  BY ExporterAssumption DEF ExportInv, TypeOK
<1>2. Published(c)' <=> Published(c)
  BY DEF Published
<1>3. run' = Absent => run = Absent
  OBVIOUS
<1>4. Published(c) => run' = run
  BY DEF Published
<1>5. EndIsTruthful(c)'
  <2> SUFFICES ASSUME epc[c] = "ended", eresult[c] # "killed"
               PROVE  /\ Published(c)' <=> eresult[c] \in {"ok", "E_JSON_PARSE"}
                      /\ eresult[c] = "ok" => run'.manifest # Torn
                      /\ temp[c] # Absent =>
                            faults' >= IF eresult[c] = "E_WRITE_FAILED" /\ run' = Absent
                                       THEN 2 ELSE 1
    BY DEF EndIsTruthful, Published
  <2>1. EndIsTruthful(c)
    BY <1>1 DEF CommandInv
  <2>2. Published(c)' <=> eresult[c] \in {"ok", "E_JSON_PARSE"}
    BY <1>2, <2>1 DEF EndIsTruthful
  <2>3. eresult[c] = "ok" => run'.manifest # Torn
    BY <1>4, <2>1 DEF EndIsTruthful
  <2>4. temp[c] # Absent =>
            faults' >= IF eresult[c] = "E_WRITE_FAILED" /\ run' = Absent THEN 2 ELSE 1
    BY <1>1, <1>3, <2>1 DEF EndIsTruthful
  <2> QED BY <2>2, <2>3, <2>4
<1> QED BY <1>1, <1>2, <1>3, <1>5 DEF CommandInv, Early, Filling

(* A command that has made nothing ends with a code of its own.            *)
LEMMA EarlyEnd ==
    ASSUME ExportInv, NEW e \in Exporters, epc[e] \in Early, epc'[e] = "ended",
           eresult'[e] \in Failures, temp'[e] = temp[e], run' = run
    PROVE  CommandInv(e)'
<1>1. temp'[e] = Absent /\ ~Published(e)'
  BY DEF ExportInv, CommandInv, Published, Early
<1>2. EndIsTruthful(e)'
  BY <1>1 DEF EndIsTruthful, Failures, Published
<1> QED BY <1>1, <1>2 DEF CommandInv, Early, Filling, Published

(* A command that fails cleans up first.                                   *)
LEMMA FailKeeps ==
    ASSUME ExportInv, NEW e \in Exporters, epc[e] \in Early \cup Filling,
           epc'[e] = "cleanup", eresult'[e] \in Failures, run' = run,
           eresult'[e] = "E_WRITE_FAILED" /\ run = Absent => faults' >= 1
    PROVE  CommandInv(e)'
<1>1. ~Published(e)'
  BY DEF ExportInv, CommandInv, Published
<1> QED BY <1>1 DEF CommandInv, EndIsTruthful, Early, Filling, Published

(* A command goes on.                                                      *)
LEMMA GoesOn ==
    ASSUME ExportInv, NEW e \in Exporters, epc[e] \in Early \cup Filling, run' = run,
           \/ epc'[e] \in Early /\ temp'[e] = Absent
           \/ epc'[e] \in Filling /\ temp'[e] # Absent
    PROVE  CommandInv(e)'
<1>1. ~Published(e)'
  BY DEF ExportInv, CommandInv, Published
<1> QED BY <1>1 DEF CommandInv, EndIsTruthful, Early, Filling, Published

StepNames ==
    Early \cup Filling \cup {"reload", "cleanup", "ended"}

(* One command moves, by at most one fault.                                *)
LEMMA Assemble ==
    ASSUME ExportInv, NEW e \in Exporters, NEW x \in StepNames, NEW r \in Results, NEW t,
           epc' = [epc EXCEPT ![e] = x], eresult' = [eresult EXCEPT ![e] = r],
           temp' = [temp EXCEPT ![e] = t],
           t # Absent => t = Directory(e, t.prompts, t.manifest),
           nextRef' \in [Exporters -> Nat], faults' \in 0..MaxFaults, faults' >= faults,
           run' = run \/ (run = Absent /\ run' # Absent /\ run'.by = e),
           UNCHANGED <<validatorVars, template>>,
           CommandInv(e)'
    PROVE  ExportInv'
<1>1. temp = [c \in Exporters |-> temp[c]]
  BY DEF ExportInv, ShapeInv
<1>2. /\ temp' = [c \in Exporters |-> temp'[c]] /\ temp'[e] = t
      /\ \A c \in Exporters \ {e} : temp'[c] = temp[c]
  <2> HIDE <1>1
  <2> DEFINE f == [c \in Exporters |-> temp[c]]
  <2>1. temp' = [f EXCEPT ![e] = t]
    BY <1>1
  <2> QED BY <2>1
<1>3. ShapeInv'
  BY <1>2 DEF ExportInv, ShapeInv
<1>4. TypeOK'
  <2>1. ASSUME NEW c \in Exporters, temp'[c] # Absent PROVE temp'[c].by = c
    <3>1. temp'[c] = Directory(c, temp'[c].prompts, temp'[c].manifest)
      BY <1>3, <2>1 DEF ShapeInv
    <3>2. \A p, m : Directory(c, p, m).by = c
      BY DEF Directory
    <3> QED BY <3>1, <3>2
  <2>2. epc' \in [Exporters -> StepNames] /\ eresult' \in [Exporters -> Results]
    BY DEF ExportInv, TypeOK, StepNames, Early, Filling
  <2>3. run' # Absent => run'.by \in Exporters
    BY DEF ExportInv, TypeOK
  <2> QED BY <2>1, <2>2, <2>3
          DEF ExportInv, TypeOK, validatorVars, StepNames, Early, Filling
<1>5. \A c \in Exporters : CommandInv(c)'
  <2> SUFFICES ASSUME NEW c \in Exporters, c # e PROVE CommandInv(c)'
    OBVIOUS
  <2>1. epc'[c] = epc[c] /\ eresult'[c] = eresult[c]
    BY DEF ExportInv, TypeOK
  <2>2. faults' \in Nat
    BY ExporterAssumption
  <2> QED BY <1>2, <2>1, <2>2, OthersKeep
<1> QED BY <1>3, <1>4, <1>5 DEF ExportInv

----------------------------------------------------------------------------
(* The steps                                                               *)

(* What a step needs to know of the state it starts from.                  *)
LEMMA Facts ==
    ASSUME ExportInv, NEW e \in Exporters
    PROVE  /\ epc[e] \in StepNames /\ eresult[e] \in Results
           /\ epc = [epc EXCEPT ![e] = epc[e]] /\ eresult = [eresult EXCEPT ![e] = eresult[e]]
           /\ temp = [temp EXCEPT ![e] = temp[e]]
           /\ \A r, x : [epc EXCEPT ![e] = x][e] = x /\ [eresult EXCEPT ![e] = r][e] = r
           /\ \A t : [temp EXCEPT ![e] = t][e] = t
           /\ temp[e] # Absent => temp[e] = Directory(e, temp[e].prompts, temp[e].manifest)
           /\ nextRef \in [Exporters -> Nat] /\ faults \in 0..MaxFaults /\ faults >= faults
           /\ template[e].encoding \in Encodings
<1>1. temp = [c \in Exporters |-> temp[c]]
  BY DEF ExportInv, ShapeInv
<1>2. temp = [temp EXCEPT ![e] = temp[e]] /\ \A t : [temp EXCEPT ![e] = t][e] = t
  <2> DEFINE f == [c \in Exporters |-> temp[c]]
  <2>1. f = [f EXCEPT ![e] = f[e]] /\ \A t : [f EXCEPT ![e] = t][e] = t
    OBVIOUS
  <2> HIDE DEF f
  <2>2. temp = f
    BY <1>1 DEF f
  <2> QED BY <2>1, <2>2
<1>3. epc \in [Exporters -> StepNames]
  BY DEF ExportInv, TypeOK, StepNames, Early, Filling
<1> QED BY <1>2, <1>3, ExporterAssumption DEF ExportInv, TypeOK, ShapeInv

(* The steps before anything is made.                                      *)
LEMMA EarlySteps ==
    ASSUME ExportInv, NEW e \in Exporters, UNCHANGED validatorVars,
           ReadTemplate(e) \/ CheckRunDir(e) \/ LoadData(e)
    PROVE  ExportInv'
<1> USE Facts
<1>1. epc[e] \in Early /\ temp' = temp /\ run' = run /\ faults' = faults /\ nextRef' = nextRef
  BY DEF ReadTemplate, CheckRunDir, LoadData, AtStep, Early
<1>2. temp[e] = Absent
  BY <1>1 DEF ExportInv, CommandInv
<1>3. UNCHANGED template
  BY DEF ReadTemplate, CheckRunDir, LoadData
<1>4. CASE \E x \in Early : Goto(e, x) /\ eresult' = eresult
  <2>1. PICK x \in Early : epc' = [epc EXCEPT ![e] = x]
    BY <1>4 DEF Goto
  <2>2. CommandInv(e)'
    BY <1>1, <1>2, <1>4, <2>1, GoesOn
  <2>3. /\ eresult' = [eresult EXCEPT ![e] = eresult[e]]
        /\ temp' = [temp EXCEPT ![e] = temp[e]]
    BY <1>1, <1>4
  <2>4. x \in StepNames /\ eresult[e] \in Results
    BY DEF StepNames
  <2> QED BY <1>1, <1>2, <1>3, <2>1, <2>2, <2>3, <2>4, Assemble
<1>5. CASE \E r \in Failures : Leave(e, r)
  <2>1. PICK r \in Failures : /\ epc' = [epc EXCEPT ![e] = "ended"]
                              /\ eresult' = [eresult EXCEPT ![e] = r]
    BY <1>5 DEF Leave, Goto
  <2>2. CommandInv(e)'
    BY <1>1, <2>1, EarlyEnd
  <2>3. temp' = [temp EXCEPT ![e] = temp[e]] /\ "ended" \in StepNames /\ r \in Results
    BY <1>1 DEF StepNames, Failures
  <2> QED BY <1>1, <1>2, <1>3, <2>1, <2>2, <2>3, Assemble
<1>6. (\E x \in Early : Goto(e, x) /\ eresult' = eresult) \/ (\E r \in Failures : Leave(e, r))
  <2>1. template[e].encoding # "utf8" => template[e].encoding \in Failures
    BY DEF Encodings, Failures, Results
  <2>2. CASE ReadTemplate(e)
    BY <2>1, <2>2 DEF ReadTemplate, Early
  <2>3. CASE CheckRunDir(e)
    BY <2>3 DEF CheckRunDir, Early, Failures, Results
  <2>4. LoadError(e) # "ok" => LoadError(e) \in Failures
    BY LoadRange DEF Failures
  <2>5. CASE LoadData(e)
    BY <2>4, <2>5 DEF LoadData, Early
  <2> QED BY <2>2, <2>3, <2>5
<1> QED BY <1>4, <1>5, <1>6

IsDirectory(t, e) == t # Absent => t = Directory(e, t.prompts, t.manifest)

(* A command fails, or goes on, and its temporary directory changes.       *)
LEMMA FailStep ==
    ASSUME ExportInv, NEW e \in Exporters, epc[e] \in Early \cup Filling,
           NEW code \in Failures, Fail(e, code),
           NEW t, temp' = [temp EXCEPT ![e] = t], IsDirectory(t, e),
           nextRef' = nextRef, faults' \in 0..MaxFaults, faults' >= faults,
           code = "E_WRITE_FAILED" /\ run = Absent => faults' >= 1,
           UNCHANGED <<validatorVars, template, run>>
    PROVE  ExportInv'
<1>1. epc' = [epc EXCEPT ![e] = "cleanup"] /\ eresult' = [eresult EXCEPT ![e] = code]
  BY DEF Fail, Goto
<1>2. epc'[e] = "cleanup" /\ eresult'[e] = code
  BY <1>1, Facts
<1>3. CommandInv(e)'
  BY <1>2, FailKeeps
<1>4. "cleanup" \in StepNames /\ code \in Results
  BY DEF StepNames, Failures
<1>5. nextRef' \in [Exporters -> Nat]
  BY Facts
<1> QED BY <1>1, <1>3, <1>4, <1>5, Assemble DEF IsDirectory

LEMMA GoStep ==
    ASSUME ExportInv, NEW e \in Exporters, epc[e] \in Early \cup Filling,
           NEW x \in Filling, Goto(e, x), eresult' = eresult,
           NEW t, temp' = [temp EXCEPT ![e] = t], IsDirectory(t, e), t # Absent,
           nextRef' \in [Exporters -> Nat], faults' \in 0..MaxFaults, faults' >= faults,
           UNCHANGED <<validatorVars, template, run>>
    PROVE  ExportInv'
<1>1. /\ epc' = [epc EXCEPT ![e] = x] /\ eresult' = [eresult EXCEPT ![e] = eresult[e]]
      /\ epc'[e] = x /\ temp'[e] = t
  BY Facts DEF Goto
<1>2. CommandInv(e)'
  BY <1>1, GoesOn
<1>3. x \in StepNames /\ eresult[e] \in Results
  BY Facts DEF StepNames
<1> QED BY <1>1, <1>2, <1>3, Assemble DEF IsDirectory

LEMMA WriteFailedIsFailure == "E_WRITE_FAILED" \in Failures
BY DEF Failures, Results

LEMMA MakeTempStep ==
    ASSUME ExportInv, NEW e \in Exporters, UNCHANGED validatorVars, MakeTemp(e)
    PROVE  ExportInv'
<1>1. /\ epc[e] \in Early /\ UNCHANGED <<validatorVars, template, run>> /\ nextRef' = nextRef
      /\ nextRef' \in [Exporters -> Nat]
  BY Facts DEF MakeTemp, AtStep, Early
<1>2. CASE /\ temp' = [temp EXCEPT ![e] = Directory(e, <<>>, Absent)]
           /\ Goto(e, "collect") /\ UNCHANGED <<eresult, faults>>
  <2>1. "collect" \in Filling /\ Directory(e, <<>>, Absent) # Absent
    BY DirectoryIsSome DEF Filling
  <2>2. IsDirectory(Directory(e, <<>>, Absent), e)
    BY DEF IsDirectory, Directory
  <2>3. faults' \in 0..MaxFaults /\ faults' >= faults
    BY <1>2, Facts
  <2> QED BY <1>1, <1>2, <2>1, <2>2, <2>3, GoStep
<1>3. CASE Fault /\ Fail(e, "E_WRITE_FAILED") /\ UNCHANGED temp
  <2>1. faults' \in 0..MaxFaults /\ faults' >= faults /\ faults' >= 1
    BY <1>3, Facts, ExporterAssumption DEF Fault
  <2>2. temp' = [temp EXCEPT ![e] = temp[e]] /\ IsDirectory(temp[e], e)
    BY <1>3, Facts DEF IsDirectory
  <2> QED BY <1>1, <1>3, <2>1, <2>2, WriteFailedIsFailure, FailStep
<1> QED BY <1>2, <1>3 DEF MakeTemp

LEMMA CollectStep ==
    ASSUME ExportInv, NEW e \in Exporters, UNCHANGED validatorVars, Collect(e)
    PROVE  ExportInv'
<1>1. /\ epc[e] \in Filling /\ UNCHANGED <<validatorVars, template, run>> /\ nextRef' = nextRef
      /\ nextRef' \in [Exporters -> Nat]
      /\ faults' \in 0..MaxFaults /\ faults' >= faults
  BY Facts DEF Collect, AtStep, Filling
<1>2. /\ temp' = [temp EXCEPT ![e] = temp[e]] /\ IsDirectory(temp[e], e)
      /\ temp[e] # Absent
  <2>1. temp[e] # Absent
    BY <1>1 DEF ExportInv, CommandInv
  <2> QED BY <2>1, Facts DEF Collect, IsDirectory
<1>3. CASE CollectError # "ok"
  <2>1. CollectError \in Failures /\ CollectError # "E_WRITE_FAILED"
    BY <1>3, CollectRange DEF CollectCodes, Failures, Results
  <2>2. Fail(e, CollectError)
    BY <1>3 DEF Collect
  <2> QED BY <1>1, <1>2, <2>1, <2>2, FailStep
<1>4. CASE CollectError = "ok"
  <2>1. Goto(e, "prompts") /\ eresult' = eresult /\ "prompts" \in Filling
    BY <1>4 DEF Collect, Filling
  <2> QED BY <1>1, <1>2, <2>1, GoStep
<1> QED BY <1>3, <1>4

(* A file is put into a directory.                                         *)
LEMMA PutInto ==
    ASSUME ExportInv, NEW e \in Exporters, temp[e] # Absent, NEW v
    PROVE  \E t : /\ [temp EXCEPT ![e].prompts = v] = [temp EXCEPT ![e] = t]
                  /\ IsDirectory(t, e) /\ t # Absent
<1>1. temp[e] = Directory(e, temp[e].prompts, temp[e].manifest)
  BY Facts
<1>2. [temp[e] EXCEPT !.prompts = v] = Directory(e, v, temp[e].manifest)
  <2> \A p, m : [Directory(e, p, m) EXCEPT !.prompts = v] = Directory(e, v, m)
    BY DEF Directory
  <2> QED BY <1>1
<1>3. [temp EXCEPT ![e].prompts = v] = [temp EXCEPT ![e] = [temp[e] EXCEPT !.prompts = v]]
  OBVIOUS
<1>4. \A p, m : IsDirectory(Directory(e, p, m), e) /\ Directory(e, p, m) # Absent
  BY DirectoryIsSome DEF IsDirectory, Directory
<1> QED BY <1>2, <1>3, <1>4

LEMMA PutManifest ==
    ASSUME ExportInv, NEW e \in Exporters, temp[e] # Absent, NEW v
    PROVE  \E t : /\ [temp EXCEPT ![e].manifest = v] = [temp EXCEPT ![e] = t]
                  /\ IsDirectory(t, e) /\ t # Absent
<1>1. temp[e] = Directory(e, temp[e].prompts, temp[e].manifest)
  BY Facts
<1>2. [temp[e] EXCEPT !.manifest = v] = Directory(e, temp[e].prompts, v)
  <2> \A p, m : [Directory(e, p, m) EXCEPT !.manifest = v] = Directory(e, p, v)
    BY DEF Directory
  <2> QED BY <1>1
<1>3. [temp EXCEPT ![e].manifest = v] = [temp EXCEPT ![e] = [temp[e] EXCEPT !.manifest = v]]
  OBVIOUS
<1>4. \A p, m : IsDirectory(Directory(e, p, m), e) /\ Directory(e, p, m) # Absent
  BY DirectoryIsSome DEF IsDirectory, Directory
<1> QED BY <1>2, <1>3, <1>4

LEMMA WritePromptStep ==
    ASSUME ExportInv, NEW e \in Exporters, UNCHANGED validatorVars, WritePrompt(e)
    PROVE  ExportInv'
<1> DEFINE ref == Refs[nextRef[e] + 1]
           next == [nextRef EXCEPT ![e] = @ + 1]
           Put(text) == PutPrompt(e, RefId(ref), text)
<1>1. /\ epc[e] = "prompts" /\ epc[e] \in Filling /\ "prompts" \in Filling
      /\ UNCHANGED <<validatorVars, template, run>> /\ temp[e] # Absent
  BY DEF WritePrompt, AtStep, ExportInv, CommandInv, Filling
<1>2. nextRef \in [Exporters -> Nat] /\ next \in [Exporters -> Nat]
  BY Facts
<1>3. ASSUME NEW text, Put(text)
      PROVE  \E t : temp' = [temp EXCEPT ![e] = t] /\ IsDirectory(t, e) /\ t # Absent
  BY <1>1, <1>3, PutInto DEF PutPrompt
<1>4. UNCHANGED epc => Goto(e, "prompts")
  BY <1>1, Facts DEF Goto
<1>5. /\ faults' = faults => faults' \in 0..MaxFaults /\ faults' >= faults
      /\ Fault => faults' \in 0..MaxFaults /\ faults' >= faults /\ faults' >= 1
  BY Facts, ExporterAssumption DEF Fault
<1>6. CASE PromptError(e, ref) # "ok"
  <2>1. PromptError(e, ref) \in Failures \ {"E_WRITE_FAILED"}
    BY <1>6, PromptRange DEF Failures, Results
  <2>2. Fail(e, PromptError(e, ref)) /\ UNCHANGED <<nextRef, temp, faults>>
    BY <1>6 DEF WritePrompt
  <2>3. temp' = [temp EXCEPT ![e] = temp[e]] /\ IsDirectory(temp[e], e)
    BY <2>2, Facts DEF IsDirectory
  <2> HIDE DEF ref
  <2> QED BY <1>1, <1>2, <1>5, <2>1, <2>2, <2>3, FailStep
<1>7. CASE /\ Put(Prompt(PromptFor(e, ref))) /\ nextRef' = next
           /\ UNCHANGED <<epc, eresult, faults>>
  <2> HIDE DEF next, Put
  <2>1. PICK t : temp' = [temp EXCEPT ![e] = t] /\ IsDirectory(t, e) /\ t # Absent
    BY <1>3, <1>7
  <2> QED BY <1>1, <1>2, <1>4, <1>5, <1>7, <2>1, GoStep
<1>8. CASE Fault /\ Put(Torn) /\ Fail(e, "E_WRITE_FAILED") /\ UNCHANGED nextRef
  <2> HIDE DEF Put
  <2>1. PICK t : temp' = [temp EXCEPT ![e] = t] /\ IsDirectory(t, e) /\ t # Absent
    BY <1>3, <1>8
  <2> QED BY <1>1, <1>2, <1>5, <1>8, <2>1, WriteFailedIsFailure, FailStep
<1>9. CASE Fault /\ Put(Torn) /\ nextRef' = next /\ UNCHANGED <<epc, eresult>>
  <2> HIDE DEF next, Put
  <2>1. PICK t : temp' = [temp EXCEPT ![e] = t] /\ IsDirectory(t, e) /\ t # Absent
    BY <1>3, <1>9
  <2> QED BY <1>1, <1>2, <1>4, <1>5, <1>9, <2>1, GoStep
<1> QED BY <1>6, <1>7, <1>8, <1>9 DEF WritePrompt

LEMMA WriteManifestStep ==
    ASSUME ExportInv, NEW e \in Exporters, UNCHANGED validatorVars, WriteManifest(e)
    PROVE  ExportInv'
<1>1. /\ epc[e] \in Filling /\ "rename" \in Filling
      /\ UNCHANGED <<validatorVars, template, run>> /\ nextRef' = nextRef
      /\ nextRef' \in [Exporters -> Nat]
  BY Facts DEF WriteManifest, AtStep, Filling
<1>2. temp[e] # Absent
  BY <1>1 DEF ExportInv, CommandInv
<1>3. \E v : temp' = [temp EXCEPT ![e].manifest = v]
  BY DEF WriteManifest
<1>4. PICK t : temp' = [temp EXCEPT ![e] = t] /\ IsDirectory(t, e) /\ t # Absent
  BY <1>2, <1>3, PutManifest
<1>5. CASE Goto(e, "rename") /\ UNCHANGED eresult /\ (UNCHANGED faults \/ Fault)
  <2>1. faults' \in 0..MaxFaults /\ faults' >= faults
    BY <1>5, Facts, ExporterAssumption DEF Fault
  <2> QED BY <1>1, <1>4, <1>5, <2>1, GoStep
<1>6. CASE Fault /\ Fail(e, "E_WRITE_FAILED")
  <2>1. faults' \in 0..MaxFaults /\ faults' >= faults /\ faults' >= 1
    BY <1>6, Facts, ExporterAssumption DEF Fault
  <2> QED BY <1>1, <1>4, <1>6, <2>1, WriteFailedIsFailure, FailStep
<1> QED BY <1>5, <1>6 DEF WriteManifest

(* The one step that makes the run directory appear.                       *)
LEMMA RenameStep ==
    ASSUME ExportInv, NEW e \in Exporters, UNCHANGED validatorVars, Rename(e)
    PROVE  ExportInv'
<1>1. /\ epc[e] \in Filling /\ UNCHANGED <<validatorVars, template>> /\ nextRef' = nextRef
      /\ nextRef' \in [Exporters -> Nat]
  BY Facts DEF Rename, AtStep, Filling
<1>2. /\ temp[e] # Absent
      /\ temp[e] = Directory(e, temp[e].prompts, temp[e].manifest)
  BY <1>1, Facts DEF ExportInv, CommandInv
<1>3. CASE /\ run = Absent /\ run' = temp[e] /\ temp' = [temp EXCEPT ![e] = Absent]
           /\ Goto(e, "reload") /\ UNCHANGED <<eresult, faults>>
  <2>1. run' # Absent /\ run'.by = e
    <3>1. \A p, m : Directory(e, p, m).by = e
      BY DEF Directory
    <3> QED BY <1>2, <1>3, <3>1
  <2>2. /\ epc' = [epc EXCEPT ![e] = "reload"] /\ epc'[e] = "reload" /\ temp'[e] = Absent
        /\ eresult' = [eresult EXCEPT ![e] = eresult[e]]
        /\ "reload" \in StepNames /\ eresult[e] \in Results
        /\ faults' \in 0..MaxFaults /\ faults' >= faults
    BY <1>3, Facts DEF Goto, StepNames
  <2>3. CommandInv(e)'
    BY <2>1, <2>2 DEF CommandInv, EndIsTruthful, Published, Early, Filling
  <2> QED BY <1>1, <1>3, <2>1, <2>2, <2>3, Assemble
<1>4. CASE /\ Fail(e, "E_WRITE_FAILED") /\ UNCHANGED <<run, temp>>
           /\ (run # Absent /\ UNCHANGED faults) \/ Fault
  <2>1. /\ faults' \in 0..MaxFaults /\ faults' >= faults
        /\ run = Absent => faults' >= 1
    BY <1>4, Facts, ExporterAssumption DEF Fault
  <2>2. temp' = [temp EXCEPT ![e] = temp[e]] /\ IsDirectory(temp[e], e)
    BY <1>2, <1>4, Facts DEF IsDirectory
  <2> QED BY <1>1, <1>4, <2>1, <2>2, WriteFailedIsFailure, FailStep
<1> QED BY <1>3, <1>4 DEF Rename, MayRename

LEMMA CleanUpStep ==
    ASSUME ExportInv, NEW e \in Exporters, UNCHANGED validatorVars, CleanUp(e)
    PROVE  ExportInv'
<1>1. /\ epc[e] = "cleanup" /\ UNCHANGED <<validatorVars, template, run, eresult>>
      /\ nextRef' \in [Exporters -> Nat] /\ epc' = [epc EXCEPT ![e] = "ended"]
      /\ epc'[e] = "ended" /\ eresult' = [eresult EXCEPT ![e] = eresult[e]]
      /\ "ended" \in StepNames /\ eresult[e] \in Results
  BY Facts DEF CleanUp, AtStep, Goto, StepNames
<1>2. CommandInv(e)
  BY DEF ExportInv
<1>3. /\ eresult[e] \in Failures /\ ~Published(e)'
      /\ eresult[e] = "E_WRITE_FAILED" /\ run = Absent => faults >= 1
  BY <1>1, <1>2 DEF CommandInv, Published
<1>4. \/ temp' = [temp EXCEPT ![e] = Absent] /\ UNCHANGED faults
      \/ Fault /\ temp[e] # Absent /\ UNCHANGED temp
  BY DEF CleanUp
<1>5. /\ faults' \in 0..MaxFaults /\ faults' >= faults
      /\ temp'[e] # Absent =>
            faults' >= IF eresult[e] = "E_WRITE_FAILED" /\ run = Absent THEN 2 ELSE 1
  <2>1. faults \in 0..MaxFaults /\ MaxFaults \in Nat
    BY Facts, ExporterAssumption
  <2>2. CASE temp' = [temp EXCEPT ![e] = Absent] /\ UNCHANGED faults
    <3>1. temp'[e] = Absent
      BY <2>2, Facts
    <3> QED BY <2>1, <2>2, <3>1
  <2>3. CASE Fault /\ temp[e] # Absent /\ UNCHANGED temp
    BY <1>3, <2>1, <2>3 DEF Fault
  <2> QED BY <1>4, <2>2, <2>3
<1>6. CommandInv(e)'
  <2>1. EndIsTruthful(e)'
    BY <1>1, <1>3, <1>5 DEF EndIsTruthful, Failures, Published
  <2> QED BY <1>1, <2>1 DEF CommandInv, Early, Filling
<1>7. \E t : temp' = [temp EXCEPT ![e] = t] /\ IsDirectory(t, e)
  BY <1>4, Facts DEF IsDirectory
<1> QED BY <1>1, <1>5, <1>6, <1>7, Assemble DEF IsDirectory

LEMMA ReloadStep ==
    ASSUME ExportInv, NEW e \in Exporters, UNCHANGED validatorVars, Reload(e)
    PROVE  ExportInv'
<1> DEFINE r == IF run.manifest = Torn THEN "E_JSON_PARSE" ELSE "ok"
<1>0. /\ epc[e] = "reload" /\ UNCHANGED <<template, nextRef, run, temp, faults>>
      /\ Leave(e, r)
  BY DEF Reload, AtStep
<1>1. /\ nextRef' \in [Exporters -> Nat] /\ epc' = [epc EXCEPT ![e] = "ended"]
      /\ epc'[e] = "ended" /\ eresult' = [eresult EXCEPT ![e] = r] /\ eresult'[e] = r
      /\ "ended" \in StepNames /\ r \in Results
      /\ faults' \in 0..MaxFaults /\ faults' >= faults
      /\ temp' = [temp EXCEPT ![e] = temp[e]]
  <2>1. r \in Results
    BY DEF Results
  <2> HIDE DEF r
  <2> QED BY <1>0, <2>1, Facts DEF Goto, Leave, StepNames
<1>2. Published(e)' /\ temp'[e] = Absent
  BY <1>0 DEF ExportInv, CommandInv, Published
<1>3. CommandInv(e)'
  <2>1. EndIsTruthful(e)'
    BY <1>0, <1>1, <1>2 DEF EndIsTruthful
  <2> QED BY <1>1, <2>1 DEF CommandInv, Early, Filling
<1> QED
  <2>1. temp[e] = Absent
    BY <1>0, <1>2
  <2> HIDE DEF r
  <2> QED BY <1>0, <1>1, <1>3, <2>1, Assemble

LEMMA KillStep ==
    ASSUME ExportInv, NEW e \in Exporters, UNCHANGED validatorVars, Kill(e)
    PROVE  ExportInv'
<1>0. UNCHANGED <<template, nextRef, run, temp>> /\ Fault /\ Leave(e, "killed")
  BY DEF Kill
<1>1. /\ nextRef' \in [Exporters -> Nat] /\ epc' = [epc EXCEPT ![e] = "ended"]
      /\ epc'[e] = "ended" /\ eresult' = [eresult EXCEPT ![e] = "killed"]
      /\ eresult'[e] = "killed"
      /\ "ended" \in StepNames /\ "killed" \in Results
      /\ temp' = [temp EXCEPT ![e] = temp[e]]
  BY <1>0, Facts DEF Goto, Leave, StepNames, Results
<1>2. CommandInv(e)'
  BY <1>1 DEF CommandInv, EndIsTruthful, Early, Filling
<1>3. faults' \in 0..MaxFaults /\ faults' >= faults
  BY <1>0, Facts, ExporterAssumption DEF Fault
<1>4. temp[e] # Absent => temp[e] = Directory(e, temp[e].prompts, temp[e].manifest)
  BY Facts
<1> QED BY <1>0, <1>1, <1>2, <1>3, <1>4, Assemble

(* The file that is read next is one that has not been read.               *)
LEMMA NextIsUnread ==
    ASSUME data \in Datasets, Unread # {}
    PROVE  NextFile \in Unread
<1> DEFINE spots == {i \in DOMAIN FileOrder : FileOrder[i] \in Unread}
<1>1. DOMAIN FileOrder \subseteq Nat
  <2>1. Len(FileOrder) \in Nat /\ FileOrder = [i \in 1..Len(FileOrder) |-> FileOrder[i]]
    BY DatasetAssumption DEF IsSequence
  <2> QED BY <2>1
<1>2. spots \in SUBSET Nat /\ spots # {}
  <2>1. DOMAIN data.files \subseteq {FileOrder[i] : i \in DOMAIN FileOrder}
    BY DatasetAssumption DEF ToSet
  <2> QED BY <1>1, <2>1 DEF Unread
<1>3. Min(spots) \in spots
  <2> HIDE DEF spots
  <2> QED BY <1>2, NatMin
<1> QED BY <1>3 DEF NextFile

(* validate before the commands start.                                     *)
LEMMA ValidateStep ==
    ASSUME ExportInv, Validate, UNCHANGED exporterVars
    PROVE  ExportInv'
<1>1. /\ UNCHANGED data /\ filesRead' \subseteq DOMAIN data.files
      /\ vpc' \in {"idle", "manifest", "problems", "summary", "done"}
      /\ verdict' \in {"none", "pass", "fail"}
  <2>1. filesRead \subseteq DOMAIN data.files /\ verdict \in {"none", "pass", "fail"}
    BY DEF ExportInv, TypeOK
  <2>2. CASE CheckDirectory
    BY <2>1, <2>2 DEF CheckDirectory, Return
  <2>3. CASE LoadManifest
    BY <2>1, <2>3 DEF LoadManifest
  <2>4. CASE LoadProblem
    <3>1. /\ vpc = "problems" /\ UNCHANGED <<data, vpc, verdict>> /\ Unread # {}
          /\ filesRead' = filesRead \cup {NextFile}
      BY <2>4 DEF LoadProblem
    <3>2. NextFile \in Unread
      BY <3>1, NextIsUnread DEF ExportInv, TypeOK
    <3> QED BY <2>1, <3>1, <3>2 DEF Unread
  <2>5. CASE Resolve
    BY <2>1, <2>5 DEF Resolve
  <2>6. CASE CheckSummary
    <3>1. UNCHANGED <<data, filesRead>> /\ \E ds : Return(ds)
      BY <2>6 DEF CheckSummary
    <3> QED BY <2>1, <3>1 DEF Return
  <2> QED BY <2>2, <2>3, <2>4, <2>5, <2>6 DEF Validate
<1>2. UNCHANGED <<template, epc, nextRef, temp, run, eresult, faults>>
  BY DEF exporterVars
<1>3. TypeOK'
  BY <1>1, <1>2 DEF ExportInv, TypeOK
<1>4. ShapeInv'
  BY <1>2 DEF ExportInv, ShapeInv
<1>5. \A e \in Exporters : CommandInv(e)'
  BY <1>2 DEF ExportInv, CommandInv, EndIsTruthful, Published
<1> QED BY <1>3, <1>4, <1>5 DEF ExportInv

LEMMA ExportInit == Init => ExportInv
<1> SUFFICES ASSUME Init PROVE ExportInv
  OBVIOUS
<1> USE DEF Init, ExporterInit, ValidatorInit
<1>1. \A e \in Exporters : template[e].encoding \in Encodings
  <2> TAKE e \in Exporters
  <2>1. template[e] \in TemplatesFor[data] /\ data \in Datasets
    OBVIOUS
  <2> QED BY <2>1, ExporterAssumption
<1>2. TypeOK
  BY ExporterAssumption DEF TypeOK, Results
<1>3. ShapeInv
  BY <1>1 DEF ShapeInv
<1>4. \A e \in Exporters : CommandInv(e)
  BY DEF CommandInv, EndIsTruthful, Published, Early, Filling
<1> QED BY <1>2, <1>3, <1>4 DEF ExportInv

LEMMA ExportStep == ExportInv /\ [Next]_vars => ExportInv'
<1> SUFFICES ASSUME ExportInv, [Next]_vars PROVE ExportInv'
  OBVIOUS
<1>1. CASE NoneStarted /\ Validate /\ UNCHANGED exporterVars
  BY <1>1, ValidateStep
<1>2. CASE (\E e \in Exporters : Export(e)) /\ UNCHANGED validatorVars
  <2>1. PICK e \in Exporters : Export(e)
    BY <1>2
  <2> QED
    BY <1>2, <2>1, EarlySteps, MakeTempStep, CollectStep, WritePromptStep, WriteManifestStep,
       RenameStep, CleanUpStep, ReloadStep, KillStep DEF Export
<1>3. CASE UNCHANGED vars
  <2>1. UNCHANGED <<data, vpc, filesRead, verdict, template, epc, nextRef, temp, run,
                    eresult, faults>>
    BY <1>3 DEF vars, validatorVars, exporterVars
  <2>2. TypeOK'
    BY <2>1 DEF ExportInv, TypeOK
  <2>3. ShapeInv' /\ \A e \in Exporters : CommandInv(e)'
    BY <2>1 DEF ExportInv, ShapeInv, CommandInv, EndIsTruthful, Published
  <2> QED BY <2>2, <2>3 DEF ExportInv
<1> QED BY <1>1, <1>2, <1>3 DEF Next

----------------------------------------------------------------------------
(* Every reachable state of validate and of the commands is of its type,   *)
(* and each command owns what it has made.                                 *)
THEOREM ExportTypeCorrect == Spec => [](TypeOK /\ ExportInv)
<1>1. ExportInv => TypeOK
  BY DEF ExportInv
<1> QED BY <1>1, ExportInit, ExportStep, PTL DEF Spec

(* A command that reports success has published the run directory, whole   *)
(* in its manifest; one that reports an error has not, and has tried to    *)
(* remove what it had made (main, exportPrompts).                          *)
THEOREM ExportsAreTruthful == Spec => []ExportIsTruthful
<1>1. ExportInv => ExportIsTruthful
  BY DEF ExportInv, CommandInv, EndIsTruthful, Published, ExportIsTruthful
<1> QED BY <1>1, ExportTypeCorrect, PTL

----------------------------------------------------------------------------
(* Refinement                                                              *)

LEMMA AtomicInit == Init => Atomic!Init
BY DEF Init, ExporterInit, Atomic!Init, PublisherStates

LEMMA PublisherState ==
    ASSUME NEW e \in Exporters
    PROVE  PublisherStates[e] =
              (IF Published(e) THEN "published"
               ELSE IF epc[e] \in {"cleanup", "ended"} THEN "gave up" ELSE "preparing")
BY DEF PublisherStates, Published

LEMMA PublisherStatePrimed ==
    ASSUME NEW e \in Exporters
    PROVE  PublisherStates'[e] =
              (IF Published(e)' THEN "published"
               ELSE IF epc'[e] \in {"cleanup", "ended"} THEN "gave up" ELSE "preparing")
BY DEF PublisherStates, Published

(* A step of one command publishes, gives up, or is not seen.              *)
LEMMA ExportIsAtomic ==
    ASSUME ExportInv, NEW e \in Exporters, Export(e)
    PROVE  Atomic!Next \/ UNCHANGED Atomic!vars
<1>1. \E x : Goto(e, x) \/ epc' = epc
  BY DEF Export, ReadTemplate, CheckRunDir, LoadData, MakeTemp, Collect, WritePrompt,
         WriteManifest, Rename, CleanUp, Reload, Kill, Leave, Fail
<1>2. \A c \in Exporters \ {e} : epc'[c] = epc[c]
  BY <1>1 DEF Goto, ExportInv, TypeOK
<1>3. /\ CommandInv(e) /\ epc[e] \in StepNames
      /\ \A x : [epc EXCEPT ![e] = x][e] = x
  BY Facts DEF ExportInv
<1>4. CASE /\ run = Absent /\ run' = temp[e] /\ epc[e] = "rename" /\ Goto(e, "reload")
  <2>1. run' # Absent /\ run'.by = e
    <3>1. temp[e] = Directory(e, temp[e].prompts, temp[e].manifest)
      BY <1>3, <1>4, Facts DEF CommandInv, Filling
    <3>2. \A p, m : Directory(e, p, m).by = e /\ Directory(e, p, m) # Absent
      BY DirectoryIsSome DEF Directory
    <3> QED BY <1>4, <3>1, <3>2
  <2>2. PublisherStates[e] = "preparing"
    BY <1>4, PublisherState DEF Published
  <2>3. PublisherStates' = [PublisherStates EXCEPT ![e] = "published"]
    <3>1. \A c \in Exporters : PublisherStates'[c] = [PublisherStates EXCEPT ![e] = "published"][c]
      <4> TAKE c \in Exporters
      <4>1. CASE c = e
        BY <2>1, <4>1, PublisherStatePrimed DEF PublisherStates, Published
      <4>2. CASE c # e
        BY <1>2, <1>4, <2>1, <4>2, PublisherState, PublisherStatePrimed
           DEF PublisherStates, Published
      <4> QED BY <4>1, <4>2
    <3> QED BY <3>1 DEF PublisherStates
  <2> QED BY <1>4, <2>1, <2>2, <2>3 DEF Atomic!Next, Atomic!Publish
<1>5. CASE run' = run
  <2>1. \A c \in Exporters \ {e} : PublisherStates'[c] = PublisherStates[c]
    BY <1>2, <1>5, PublisherState, PublisherStatePrimed DEF Published
  <2>2. Published(e)' <=> Published(e)
    BY <1>5 DEF Published
  <2>3. CASE PublisherStates'[e] = PublisherStates[e]
    <3>1. PublisherStates' = PublisherStates
      BY ZenonT(30), <2>1, <2>3 DEF PublisherStates
    <3> QED BY <1>5, <3>1 DEF Atomic!vars
  <2>4. CASE PublisherStates'[e] # PublisherStates[e]
    <3>1. PublisherStates[e] = "preparing" /\ PublisherStates'[e] = "gave up"
      <4>1. epc[e] \in {"cleanup", "ended"} => epc'[e] \in {"cleanup", "ended"}
        BY <1>3 DEF Export, ReadTemplate, CheckRunDir, LoadData, MakeTemp, Collect,
           WritePrompt, WriteManifest, Rename, CleanUp, Reload, Kill, AtStep, Leave, Goto
      <4> QED BY <2>2, <2>4, <4>1, PublisherState, PublisherStatePrimed
    <3>2. PublisherStates' = [PublisherStates EXCEPT ![e] = "gave up"]
      <4>1. \A c \in Exporters :
                PublisherStates'[c] = [PublisherStates EXCEPT ![e] = "gave up"][c]
        BY <2>1, <3>1 DEF PublisherStates
      <4> QED BY <4>1 DEF PublisherStates
    <3> QED BY <1>5, <3>1, <3>2 DEF Atomic!Next, Atomic!GiveUp
  <2> QED BY <2>3, <2>4
<1>6. \/ run' = run
      \/ run = Absent /\ run' = temp[e] /\ epc[e] = "rename" /\ Goto(e, "reload")
  BY DEF Export, ReadTemplate, CheckRunDir, LoadData, MakeTemp, Collect, WritePrompt,
         WriteManifest, Rename, CleanUp, Reload, Kill, AtStep, MayRename
<1> QED BY <1>4, <1>5, <1>6

LEMMA AtomicStep == ExportInv /\ [Next]_vars => [Atomic!Next]_(Atomic!vars)
<1> SUFFICES ASSUME ExportInv, [Next]_vars PROVE [Atomic!Next]_(Atomic!vars)
  OBVIOUS
<1>1. CASE \E e \in Exporters : Export(e)
  BY <1>1, ExportIsAtomic
<1>2. CASE UNCHANGED exporterVars
  <2>1. UNCHANGED <<run, epc>>
    BY <1>2 DEF exporterVars
  <2> QED BY <2>1 DEF Atomic!vars, PublisherStates
<1> QED BY <1>1, <1>2 DEF Next, vars

(* The run directory appears in one step, of one command, and nobody       *)
(* changes or removes it afterwards (exportPrompts 2 and 8).               *)
THEOREM ExporterImplementsAtomicPublish == Spec => ImplementsAtomicPublish
BY AtomicInit, AtomicStep, ExportTypeCorrect, PTL
   DEF Spec, Atomic!Spec, ImplementsAtomicPublish

----------------------------------------------------------------------------
(* Sequences                                                               *)

(* One position of a sequence gives way to another sequence.               *)
Spliced(text, k, w) == SubSeq(text, 1, k - 1) \o w \o SubSeq(text, k + 1, Len(text))

IsSplice(r, text, k, w) ==
    /\ Len(r) = Len(text) + Len(w) - 1
    /\ \A i \in 1..(k - 1) : r[i] = text[i]
    /\ \A i \in 1..Len(w) : r[k + i - 1] = w[i]
    /\ \A i \in (k + 1)..Len(text) : r[i + Len(w) - 1] = text[i]

LEMMA SpliceIs ==
    ASSUME NEW T, NEW text \in Seq(T), NEW k \in 1..Len(text), NEW w \in Seq(T)
    PROVE  Spliced(text, k, w) \in Seq(T) /\ IsSplice(Spliced(text, k, w), text, k, w)
<1> DEFINE l == SubSeq(text, 1, k - 1)
           m == l \o w
           r == SubSeq(text, k + 1, Len(text))
<1>0. Len(text) \in Nat /\ Len(w) \in Nat /\ \A i \in 1..Len(text) : text[i] \in T
  BY LenProperties, ElementOfSeq
<1>1. /\ l \in Seq(T) /\ Len(l) = k - 1
      /\ \A i \in 1..(k - 1) : l[i] = text[i]
  <2>1. 1 \in Int /\ k - 1 \in Int /\ \A i \in 1..(k - 1) : text[i] \in T
    BY <1>0
  <2>2. /\ l \in Seq(T) /\ Len(l) = IF 1 <= k - 1 THEN (k - 1) - 1 + 1 ELSE 0
        /\ \A i \in 1..((k - 1) - 1 + 1) : l[i] = text[1 + i - 1]
    BY <2>1, SubSeqProperties
  <2> HIDE DEF l
  <2> QED BY <2>2
<1>2. /\ r \in Seq(T) /\ Len(r) = Len(text) - k
      /\ \A i \in 1..(Len(text) - k) : r[i] = text[k + i]
  <2>1. k + 1 \in Int /\ Len(text) \in Int /\ \A i \in (k + 1)..Len(text) : text[i] \in T
    BY <1>0
  <2>2. /\ r \in Seq(T) /\ Len(r) = IF k + 1 <= Len(text) THEN Len(text) - (k + 1) + 1 ELSE 0
        /\ \A i \in 1..(Len(text) - (k + 1) + 1) : r[i] = text[(k + 1) + i - 1]
    BY <2>1, SubSeqProperties
  <2> HIDE DEF r
  <2> QED BY <1>0, <2>2
<1> HIDE DEF l, r
<1>3. /\ m \in Seq(T) /\ Len(m) = k - 1 + Len(w)
      /\ \A i \in 1..(k - 1 + Len(w)) : m[i] = IF i <= k - 1 THEN l[i] ELSE w[i - (k - 1)]
  <2>1. /\ m \in Seq(T) /\ Len(m) = Len(l) + Len(w)
        /\ \A i \in 1..(Len(l) + Len(w)) : m[i] = IF i <= Len(l) THEN l[i] ELSE w[i - Len(l)]
    BY <1>1, ConcatProperties
  <2> HIDE DEF m
  <2> QED BY <1>1, <2>1
<1> HIDE DEF m
<1>4. /\ m \o r \in Seq(T) /\ Len(m \o r) = Len(text) + Len(w) - 1
      /\ \A i \in 1..(Len(text) + Len(w) - 1) :
            (m \o r)[i] = IF i <= k - 1 + Len(w) THEN m[i] ELSE r[i - (k - 1 + Len(w))]
  <2>1. /\ m \o r \in Seq(T) /\ Len(m \o r) = Len(m) + Len(r)
        /\ \A i \in 1..(Len(m) + Len(r)) :
              (m \o r)[i] = IF i <= Len(m) THEN m[i] ELSE r[i - Len(m)]
    BY <1>2, <1>3, ConcatProperties
  <2>2. Len(m) + Len(r) = Len(text) + Len(w) - 1
    BY <1>0, <1>2, <1>3
  <2> QED BY <1>3, <2>1, <2>2
<1>5. Spliced(text, k, w) = m \o r
  BY DEF Spliced, m, l, r
<1> DEFINE s == m \o r
<1> HIDE DEF s
<1>6. \A i \in 1..(k - 1) : s[i] = text[i]
  <2> TAKE i \in 1..(k - 1)
  <2>1. /\ i \in 1..(Len(text) + Len(w) - 1) /\ i \in 1..(k - 1 + Len(w))
        /\ i <= k - 1 + Len(w) /\ i <= k - 1
    BY <1>0
  <2>2. s[i] = m[i]
    BY <1>4, <2>1, Zenon DEF s
  <2> QED BY <1>1, <1>3, <2>1, <2>2
<1>7. \A i \in 1..Len(w) : s[k + i - 1] = w[i]
  <2> TAKE i \in 1..Len(w)
  <2>1. s[k + i - 1] = m[k + i - 1] /\ m[k + i - 1] = w[(k + i - 1) - (k - 1)]
    BY <1>0, <1>3, <1>4 DEF s
  <2>2. (k + i - 1) - (k - 1) = i
    OBVIOUS
  <2> QED BY <2>1, <2>2
<1>8. \A i \in (k + 1)..Len(text) : s[i + Len(w) - 1] = text[i]
  <2> TAKE i \in (k + 1)..Len(text)
  <2> DEFINE j == i + Len(w) - 1
  <2>0. j \in 1..(Len(text) + Len(w) - 1) /\ ~(j <= k - 1 + Len(w))
    BY <1>0
  <2> HIDE DEF j
  <2>1. s[j] = r[j - (k - 1 + Len(w))]
    BY <1>4, <2>0 DEF s
  <2> USE DEF j
  <2>2. (i + Len(w) - 1) - (k - 1 + Len(w)) = i - k
    BY <1>0
  <2>3. r[i - k] = text[k + (i - k)] /\ k + (i - k) = i
    BY <1>0, <1>2
  <2> QED BY <2>1, <2>2, <2>3
<1> QED BY <1>4, <1>5, <1>6, <1>7, <1>8 DEF s, IsSplice

(* An order of a finite set starts with one of its members.                *)
LEMMA OrderOfSet ==
    ASSUME NEW S, IsFiniteSet(S)
    PROVE  /\ SetToSeq(S) \in Seq(S)
           /\ S = {} => SetToSeq(S) = <<>>
           /\ S # {} => Len(SetToSeq(S)) >= 1
<1> DEFINE n == Cardinality(S)
<1>1. n \in Nat /\ ExistsBijection(1..n, S)
  BY FS_CardinalityType
<1>2. \E f \in [1..n -> S] : IsInjective(f)
  BY <1>1 DEF ExistsBijection, Bijection, Injection
<1>3. SetToSeq(S) \in [1..n -> S]
  BY <1>2 DEF SetToSeq
<1>4. S = {} <=> n = 0
  BY FS_EmptySet
<1> HIDE DEF n
<1>5. SetToSeq(S) \in Seq(S) /\ Len(SetToSeq(S)) = n
  BY <1>1, <1>3
<1>6. n = 0 => SetToSeq(S) = <<>>
  BY <1>5
<1> QED BY <1>1, <1>4, <1>5, <1>6

----------------------------------------------------------------------------
(* Rendering                                                               *)

(* What a text is made of while its holes are filled.                      *)
PiecesOf(payload) == Lines \cup {[json |-> payload.object[s]] : s \in ToSet(Sections)}

(* A hole that was filled is there again, or one is there twice.           *)
Spoiled(text, D) ==
    \/ \E s \in D, i \in 1..Len(text) : text[i] = Hole(s)
    \/ \E s \in ToSet(Sections), i, j \in 1..Len(text) :
          i # j /\ text[i] = Hole(s) /\ text[j] = Hole(s)

(* The holes of D are filled where they are.                               *)
FilledAt(body, payload, D) ==
    [i \in 1..Len(body) |-> IF \E s \in D : body[i] = Hole(s)
                            THEN [json |-> payload.object[body[i].hole]] ELSE body[i]]

Rendering(text, body, payload, D) ==
    /\ text \in Seq(PiecesOf(payload))
    /\ Spoiled(text, D) \/ text = FilledAt(body, payload, D)

LEMMA PiecesDiffer ==
    /\ \A s, v : Hole(s) # [json |-> v]
    /\ \A s, m : Hole(s) = Hole(m) => s = m
    /\ \A s : Hole(s) # Words /\ Hole(s) # Begin /\ Hole(s) # End /\ Hole(s).hole = s
    /\ Begin # End
<1>1. ASSUME NEW s, NEW v PROVE Hole(s) # [json |-> v]
  <2>1. DOMAIN Hole(s) = {"hole"} /\ DOMAIN [json |-> v] = {"json"}
    BY DEF Hole
  <2> QED BY <2>1
<1>2. ASSUME NEW s, NEW m, Hole(s) = Hole(m) PROVE s = m
  <2>1. Hole(s).hole = s /\ Hole(m).hole = m
    BY DEF Hole
  <2> QED BY <1>2, <2>1
<1>3. ASSUME NEW s PROVE Hole(s) # Words /\ Hole(s) # Begin /\ Hole(s) # End /\ Hole(s).hole = s
  <2>1. /\ DOMAIN Hole(s) = {"hole"} /\ DOMAIN Words = {"words"}
        /\ DOMAIN Begin = {"marker"} /\ DOMAIN End = {"marker"} /\ Hole(s).hole = s
    BY DEF Hole, Words, Begin, End
  <2> QED BY <2>1
<1>4. Begin # End
  <2>1. Begin.marker = "begin" /\ End.marker = "end"
    BY DEF Begin, End
  <2> QED BY <2>1
<1> QED BY <1>1, <1>2, <1>3, <1>4

LEMMA HoleAtIs ==
    ASSUME NEW T, NEW text \in Seq(T), NEW s
    PROVE  \/ HoleAt(text, s) = 0 /\ \A i \in 1..Len(text) : text[i] # Hole(s)
           \/ HoleAt(text, s) \in 1..Len(text) /\ text[HoleAt(text, s)] = Hole(s)
<1> DEFINE I == {i \in 1..Len(text) : text[i] = Hole(s)}
<1>1. HoleAt(text, s) = IF I # {} THEN Min(I) ELSE 0
  BY DEF HoleAt, SelectInSeq
<1>2. I # {} => Min(I) \in I
  <2>1. I \in SUBSET Nat
    OBVIOUS
  <2> HIDE DEF I
  <2> QED BY <2>1, NatMin
<1> QED BY <1>1, <1>2

LEMMA OnePlace ==
    ASSUME NEW T, NEW text \in Seq(T), NEW p, Cardinality(Positions(text, p)) = 1
    PROVE  \E k \in 1..Len(text) : \A i \in 1..Len(text) : text[i] = p <=> i = k
<1>1. DOMAIN text = 1..Len(text) /\ Len(text) \in Nat
  BY LenProperties
<1>2. IsFiniteSet(Positions(text, p))
  <2>1. IsFiniteSet(1..Len(text))
    BY <1>1, FS_Interval
  <2>2. Positions(text, p) \subseteq 1..Len(text)
    BY <1>1 DEF Positions
  <2> QED BY <2>1, <2>2, FS_Subset
<1>3. PICK k : Positions(text, p) = {k}
  BY <1>2, FS_Singleton
<1>4. \A i : i \in Positions(text, p) <=> i = k
  BY <1>3
<1>5. \A i \in 1..Len(text) : text[i] = p <=> i = k
  BY <1>1, <1>4 DEF Positions
<1>6. k \in 1..Len(text)
  BY <1>1, <1>4 DEF Positions
<1> QED BY <1>5, <1>6

(* A serialized section, and the first of the holes it brings.             *)
IsSection(w, payload, s) ==
    /\ w \in Seq(PiecesOf(payload)) /\ w[1] = [json |-> payload.object[s]] /\ Len(w) \in Nat
    /\ Len(w) = 1 \/ (Len(w) >= 2 /\ \E m \in ToSet(Sections) : w[2] = Hole(m))

LEMMA SerializedIs ==
    ASSUME NEW payload, NEW s \in ToSet(Sections)
    PROVE  IsSection(Serialized(payload.object[s]), payload, s)
<1> DEFINE v == payload.object[s]
           J == <<[json |-> v]>>
           H == {Hole(m) : m \in Mentioned(v)}
           q == SetToSeq(H)
<1>1. Mentioned(v) \subseteq ToSet(Sections)
  <2> DEFINE K == IF IsContainer(v) THEN StringsWithin(v) \cap DOMAIN Mentioning ELSE {}
  <2>1. Mentioned(v) = UNION {Mentioning[t] : t \in K} /\ K \subseteq DOMAIN Mentioning
    BY DEF Mentioned
  <2> HIDE DEF K
  <2> QED BY <2>1, MentioningAssumption
<1>2. IsFiniteSet(H) /\ \A h \in H : \E m \in ToSet(Sections) : h = Hole(m)
  <2> DEFINE all == {Hole(m) : m \in ToSet(Sections)}
  <2>1. all = {Hole("problem"), Hole("reference_verdict"), Hole("test_cases"),
               Hole("reasoning_trace"), Hole("candidate_solution")}
    BY DEF ToSet, Sections
  <2>2. IsFiniteSet(all)
    <3> DEFINE a == {Hole("problem")}
               b == a \cup {Hole("reference_verdict")}
               c == b \cup {Hole("test_cases")}
               d == c \cup {Hole("reasoning_trace")}
               f == d \cup {Hole("candidate_solution")}
    <3>1. IsFiniteSet(a)
      BY FS_Singleton
    <3>2. IsFiniteSet(b)
      <4> HIDE DEF a
      <4> QED BY <3>1, FS_AddElement
    <3>3. IsFiniteSet(c)
      <4> HIDE DEF b
      <4> QED BY <3>2, FS_AddElement
    <3>4. IsFiniteSet(d)
      <4> HIDE DEF c
      <4> QED BY <3>3, FS_AddElement
    <3>5. IsFiniteSet(f)
      <4> HIDE DEF d
      <4> QED BY <3>4, FS_AddElement
    <3> QED BY <2>1, <3>5
  <2>3. H \subseteq all
    BY <1>1
  <2> HIDE DEF all
  <2>4. IsFiniteSet(H)
    BY <2>2, <2>3, FS_Subset
  <2> QED BY <1>1, <2>4
<1> HIDE DEF H
<1>3. q \in Seq(H) /\ (H = {} => q = <<>>) /\ (H # {} => Len(q) >= 1)
  BY <1>2, OrderOfSet
<1> HIDE DEF q
<1>4. H \subseteq PiecesOf(payload) /\ [json |-> v] \in PiecesOf(payload)
  BY <1>2 DEF PiecesOf, Lines
<1>5. q \in Seq(PiecesOf(payload)) /\ J \in Seq(PiecesOf(payload)) /\ Len(J) = 1
  BY <1>3, <1>4, SeqMonotonic
<1>6. Serialized(v) = J \o q
  BY DEF Serialized, H, q
<1>7. J \o q \in Seq(PiecesOf(payload)) /\ Len(J \o q) = 1 + Len(q) /\ Len(q) \in Nat
  BY <1>5, ConcatProperties, LenProperties
<1>8. (J \o q)[1] = [json |-> v] /\ (Len(q) >= 1 => (J \o q)[2] = q[1])
  <2>1. \A i \in 1..(Len(J) + Len(q)) :
            (J \o q)[i] = IF i <= Len(J) THEN J[i] ELSE q[i - Len(J)]
    BY <1>5, ConcatProperties
  <2>2. J[1] = [json |-> v]
    OBVIOUS
  <2> HIDE DEF J
  <2>3. 1 \in 1..(Len(J) + Len(q)) /\ (Len(q) >= 1 => 2 \in 1..(Len(J) + Len(q)))
    BY <1>5, <1>7
  <2>4. (J \o q)[1] = J[1]
    BY <1>5, <2>1, <2>3
  <2>5. ASSUME Len(q) >= 1 PROVE (J \o q)[2] = q[1]
    <3>1. 2 \in 1..(Len(J) + Len(q)) /\ ~(2 <= Len(J)) /\ 2 - Len(J) = 1
      BY <1>5, <2>3, <2>5
    <3>2. (J \o q)[2] = q[2 - Len(J)]
      BY <2>1, <3>1
    <3> QED BY <3>1, <3>2
  <2> QED BY <2>2, <2>4, <2>5
<1>9. Len(q) >= 1 => q[1] \in H
  BY <1>3, <1>7, ElementOfSeq
<1>10. H = {} => Len(q) = 0
  BY <1>3
<1> HIDE DEF J, v
<1>11. Len(J \o q) = 1 \/ (Len(J \o q) >= 2 /\ \E m \in ToSet(Sections) : (J \o q)[2] = Hole(m))
  <2>1. CASE H = {}
    BY <1>7, <1>10, <2>1
  <2>2. CASE H # {}
    BY <1>2, <1>3, <1>7, <1>8, <1>9, <2>2
  <2> QED BY <2>1, <2>2
<1>12. Len(J \o q) \in Nat
  BY <1>7
<1> QED BY <1>6, <1>7, <1>8, <1>11, <1>12 DEF v, IsSection

(* One hole is filled: what was spoiled stays so, and a hole that the      *)
(* serialized section mentions spoils the text.                            *)
LEMMA ReplaceStep ==
    ASSUME NEW body \in Seq(Lines), HasEachHoleOnce(body), NEW payload,
           NEW D \in SUBSET ToSet(Sections), NEW s \in ToSet(Sections), s \notin D,
           NEW text, Rendering(text, body, payload, D)
    PROVE  Rendering(ReplaceOnce(text, s, payload.object[s]), body, payload, D \cup {s})
<1> DEFINE T == PiecesOf(payload)
           E == D \cup {s}
           k == HoleAt(text, s)
           w == Serialized(payload.object[s])
           r == ReplaceOnce(text, s, payload.object[s])
<1> SUFFICES Rendering(r, body, payload, E)
  OBVIOUS
<1>0. text \in Seq(T) /\ Len(text) \in Nat /\ Len(body) \in Nat
  BY LenProperties DEF Rendering
<1>1. ASSUME NEW m \in ToSet(Sections)
      PROVE  \E a \in 1..Len(body) : \A i \in 1..Len(body) : body[i] = Hole(m) <=> i = a
  <2>1. Cardinality(Positions(body, Hole(m))) = 1
    BY DEF HasEachHoleOnce
  <2> QED BY <2>1, OnePlace
<1>2. ASSUME text = FilledAt(body, payload, D)
      PROVE  /\ Len(text) = Len(body)
             /\ \A m \in ToSet(Sections) \ D, i \in 1..Len(body) :
                   text[i] = Hole(m) <=> body[i] = Hole(m)
  <2>1. DOMAIN text = 1..Len(body)
    BY <1>2 DEF FilledAt
  <2>2. Len(text) = Len(body)
    BY <1>0, <2>1
  <2>3. ASSUME NEW m \in ToSet(Sections) \ D, NEW i \in 1..Len(body)
        PROVE  text[i] = Hole(m) <=> body[i] = Hole(m)
    <3>1. text[i] = IF \E d \in D : body[i] = Hole(d)
                    THEN [json |-> payload.object[body[i].hole]] ELSE body[i]
      BY <1>2 DEF FilledAt
    <3> QED BY <3>1, PiecesDiffer
  <2> QED BY <2>2, <2>3
<1>3. CASE k = 0 /\ \A i \in 1..Len(text) : text[i] # Hole(s)
  <2>1. r = text
    BY <1>3 DEF ReplaceOnce
  <2>2. CASE Spoiled(text, D)
    BY <1>0, <2>1, <2>2 DEF Spoiled, Rendering
  <2>3. CASE text = FilledAt(body, payload, D)
    BY <1>1, <1>2, <1>3, <2>3
  <2> QED BY <2>2, <2>3 DEF Rendering
<1>4. CASE k \in 1..Len(text) /\ text[k] = Hole(s)
  <2>1. /\ w \in Seq(T) /\ w[1] = [json |-> payload.object[s]] /\ Len(w) \in Nat
        /\ Len(w) = 1 \/ (Len(w) >= 2 /\ \E m \in ToSet(Sections) : w[2] = Hole(m))
    <3>1. IsSection(w, payload, s)
      BY SerializedIs
    <3> HIDE DEF w
    <3> QED BY <3>1 DEF IsSection
  <2>2. r = Spliced(text, k, w)
    <3>1. k # 0
      BY <1>4
    <3> QED BY <3>1 DEF ReplaceOnce, Spliced
  <2> HIDE DEF w, k, T, r
  <2>3. r \in Seq(T) /\ IsSplice(r, text, k, w)
    BY <1>0, <1>4, <2>1, <2>2, SpliceIs
  <2> DEFINE To(i) == IF i < k THEN i ELSE i + Len(w) - 1
  <2>4. ASSUME NEW i \in 1..Len(text), i # k
        PROVE  To(i) \in 1..Len(r) /\ r[To(i)] = text[i]
    BY <1>0, <1>4, <2>1, <2>3, <2>4 DEF IsSplice
  <2>5. ASSUME NEW i \in 1..Len(text), NEW j \in 1..Len(text), i # j
        PROVE  To(i) # To(j) \/ i = k \/ j = k
    BY <1>0, <1>4, <2>1, <2>5
  <2> HIDE DEF To
  <2>6. ASSUME NEW m \in E, NEW i \in 1..Len(r), r[i] = Hole(m)
        PROVE  Spoiled(r, E)
    BY <2>6 DEF Spoiled
  <2>7. ASSUME NEW m \in ToSet(Sections), NEW i \in 1..Len(r), NEW j \in 1..Len(r), i # j,
               r[i] = Hole(m), r[j] = Hole(m)
        PROVE  Spoiled(r, E)
    BY <2>7 DEF Spoiled
  <2>8. CASE Spoiled(text, D)
    <3>1. ASSUME NEW m \in D, NEW i \in 1..Len(text), text[i] = Hole(m)
          PROVE  Spoiled(r, E)
      <4>1. i # k
        BY <1>4, <3>1, PiecesDiffer
      <4> QED BY <2>4, <2>6, <3>1, <4>1
    <3>2. ASSUME NEW m \in ToSet(Sections), NEW i \in 1..Len(text), NEW j \in 1..Len(text),
                 i # j, text[i] = Hole(m), text[j] = Hole(m)
          PROVE  Spoiled(r, E)
      <4>1. CASE m = s
        BY <2>4, <2>6, <3>2, <4>1
      <4>2. CASE m # s
        <5>1. i # k /\ j # k
          BY <1>4, <3>2, <4>2, PiecesDiffer
        <5> QED BY <2>4, <2>5, <2>7, <3>2, <5>1
      <4> QED BY <4>1, <4>2
    <3> QED BY <2>3, <2>8, <3>1, <3>2 DEF Rendering, Spoiled, T
  <2>9. CASE text = FilledAt(body, payload, D)
    <3>0. /\ Len(text) = Len(body)
          /\ \A m \in ToSet(Sections) \ D, i \in 1..Len(body) :
                 text[i] = Hole(m) <=> body[i] = Hole(m)
      BY <1>2, <2>9
    <3>1. CASE Len(w) = 1
      <4>1. Len(r) = Len(body)
        BY <1>0, <2>3, <3>0, <3>1 DEF IsSplice
      <4>2. ASSUME NEW i \in 1..Len(body)
            PROVE  r[i] = FilledAt(body, payload, E)[i]
        <5>1. FilledAt(body, payload, E)[i] =
                  IF \E d \in E : body[i] = Hole(d)
                  THEN [json |-> payload.object[body[i].hole]] ELSE body[i]
          BY DEF FilledAt
        <5>2. CASE i = k
          <6>1. r[i] = w[1]
            BY <1>4, <2>3, <3>1, <5>2 DEF IsSplice
          <6>2. body[i] = Hole(s)
            BY <1>4, <3>0, <5>2
          <6> QED BY <2>1, <5>1, <6>1, <6>2, PiecesDiffer
        <5>3. CASE i # k
          <6>1. r[i] = text[i]
            BY <2>4, <3>0, <3>1, <5>3 DEF To
          <6>2. body[i] # Hole(s)
            BY <1>1, <1>4, <3>0, <5>3
          <6>3. text[i] = IF \E d \in D : body[i] = Hole(d)
                          THEN [json |-> payload.object[body[i].hole]] ELSE body[i]
            BY <2>9 DEF FilledAt
          <6> QED BY <5>1, <6>1, <6>2, <6>3
        <5> QED BY <5>2, <5>3
      <4>3. r = FilledAt(body, payload, E)
        <5>1. r = [i \in 1..Len(body) |-> r[i]]
          BY <2>3, <4>1, LenProperties
        <5>2. FilledAt(body, payload, E) =
                  [i \in 1..Len(body) |-> FilledAt(body, payload, E)[i]]
          BY DEF FilledAt
        <5> HIDE DEF E
        <5> QED BY <4>2, <5>1, <5>2
      <4> QED BY <2>3, <4>3 DEF Rendering, T
    <3>2. CASE Len(w) >= 2 /\ \E m \in ToSet(Sections) : w[2] = Hole(m)
      <4>1. PICK m \in ToSet(Sections) : w[2] = Hole(m)
        BY <3>2
      <4>2. k + 1 \in 1..Len(r) /\ r[k + 1] = Hole(m)
        <5>1. r[k + 2 - 1] = w[2] /\ k + 2 - 1 = k + 1
          BY <1>0, <1>4, <2>1, <2>3, <3>2 DEF IsSplice
        <5> QED BY <1>0, <1>4, <2>1, <2>3, <3>2, <4>1, <5>1 DEF IsSplice
      <4>3. CASE m \in E
        BY <2>3, <2>6, <4>2, <4>3 DEF Rendering, T
      <4>4. CASE m \notin E
        <5>1. PICK a \in 1..Len(body) : body[a] = Hole(m)
          BY <1>1
        <5>2. text[a] = Hole(m) /\ a \in 1..Len(text) /\ a # k
          BY <1>4, <3>0, <4>4, <5>1, PiecesDiffer
        <5>3. To(a) \in 1..Len(r) /\ r[To(a)] = Hole(m)
          BY <2>4, <5>2
        <5>4. To(a) # k + 1
          BY <1>0, <1>4, <2>1, <3>2, <5>2 DEF To
        <5>5. Spoiled(r, E)
          BY <2>7, <4>2, <5>3, <5>4
        <5> QED BY <2>3, <5>5 DEF Rendering, T
      <4> QED BY <4>3, <4>4
    <3> QED BY <2>1, <3>1, <3>2
  <2> QED BY <2>8, <2>9 DEF Rendering, r
<1> QED BY <1>0, <1>3, <1>4, HoleAtIs
LEMMA SectionNames ==
    /\ ToSet(Sections) = {"problem", "reference_verdict", "test_cases", "reasoning_trace",
                          "candidate_solution"}
    /\ Sections[1] = "problem" /\ Sections[2] = "reference_verdict"
    /\ Sections[3] = "test_cases" /\ Sections[4] = "reasoning_trace"
    /\ Sections[5] = "candidate_solution"
BY DEF ToSet, Sections

(* A prompt that is accepted is its template, filled in place.             *)
LEMMA FillsInPlace ==
    ASSUME NEW body \in Seq(Lines), NEW payload, RenderError(body, payload) = "ok"
    PROVE  Filled(body, payload) =
               [i \in DOMAIN body |->
                   IF "hole" \in DOMAIN body[i] THEN [json |-> payload.object[body[i].hole]]
                   ELSE body[i]]
<1> DEFINE Fill(text, n) == ReplaceOnce(text, Sections[n], payload.object[Sections[n]])
           t1 == Fill(body, 1)
           t2 == Fill(t1, 2)
           t3 == Fill(t2, 3)
           t4 == Fill(t3, 4)
           t5 == Fill(t4, 5)
<1>0. /\ HasEachHoleOnce(body) /\ ~Residual(Filled(body, payload))
      /\ DOMAIN body = 1..Len(body)
  BY LenProperties DEF RenderError
<1>1. Rendering(body, body, payload, {})
  <2>1. body \in Seq(PiecesOf(payload))
    <3>1. Lines \subseteq PiecesOf(payload)
      BY DEF PiecesOf
    <3> QED BY <3>1, SeqMonotonic
  <2>2. body = FilledAt(body, payload, {})
    BY <1>0 DEF FilledAt
  <2> QED BY <2>1, <2>2 DEF Rendering
<1> DEFINE D0 == {}
           D1 == {"problem"}
           D2 == {"problem", "reference_verdict"}
           D3 == D2 \cup {"test_cases"}
           D4 == D3 \cup {"reasoning_trace"}
           D5 == D4 \cup {"candidate_solution"}
<1>2. Rendering(t1, body, payload, D1)
  <2>1. /\ D0 \in SUBSET ToSet(Sections) /\ "problem" \in ToSet(Sections)
        /\ "problem" \notin D0 /\ D0 \cup {"problem"} = D1
    BY SectionNames
  <2>2. t1 = ReplaceOnce(body, "problem", payload.object["problem"])
    BY SectionNames
  <2>3. Rendering(body, body, payload, D0)
    BY <1>1
  <2> HIDE DEF t1, D0, D1
  <2> QED BY <1>0, <2>1, <2>2, <2>3, ReplaceStep
<1> HIDE DEF t1
<1>3. Rendering(t2, body, payload, D2)
  <2>1. /\ D1 \in SUBSET ToSet(Sections) /\ "reference_verdict" \in ToSet(Sections)
        /\ "reference_verdict" \notin D1 /\ D1 \cup {"reference_verdict"} = D2
    BY SectionNames
  <2>2. t2 = ReplaceOnce(t1, "reference_verdict", payload.object["reference_verdict"])
    BY SectionNames
  <2> HIDE DEF t2, D1, D2
  <2> QED BY <1>0, <1>2, <2>1, <2>2, ReplaceStep
<1> HIDE DEF t2
<1>4. Rendering(t3, body, payload, D3)
  <2>1. /\ D2 \in SUBSET ToSet(Sections) /\ "test_cases" \in ToSet(Sections)
        /\ "test_cases" \notin D2
    BY SectionNames
  <2>2. t3 = ReplaceOnce(t2, "test_cases", payload.object["test_cases"])
    BY SectionNames
  <2> HIDE DEF t3, D2
  <2> QED BY <1>0, <1>3, <2>1, <2>2, ReplaceStep
<1> HIDE DEF t3
<1>5. Rendering(t4, body, payload, D4)
  <2>1. /\ D3 \in SUBSET ToSet(Sections) /\ "reasoning_trace" \in ToSet(Sections)
        /\ "reasoning_trace" \notin D3
    BY SectionNames
  <2>2. t4 = ReplaceOnce(t3, "reasoning_trace", payload.object["reasoning_trace"])
    BY SectionNames
  <2> HIDE DEF t4, D3
  <2> QED BY <1>0, <1>4, <2>1, <2>2, ReplaceStep
<1> HIDE DEF t4
<1>6. Rendering(t5, body, payload, D5)
  <2>1. /\ D4 \in SUBSET ToSet(Sections) /\ "candidate_solution" \in ToSet(Sections)
        /\ "candidate_solution" \notin D4
    BY SectionNames
  <2>2. t5 = ReplaceOnce(t4, "candidate_solution", payload.object["candidate_solution"])
    BY SectionNames
  <2> HIDE DEF t5, D4
  <2> QED BY <1>0, <1>5, <2>1, <2>2, ReplaceStep
<1>7. Filled(body, payload) = t5 /\ D5 = ToSet(Sections)
  BY SectionNames DEF Filled, t1, t2, t3, t4
<1> HIDE DEF t5, D5
<1>8. ~Spoiled(t5, D5)
  <2>1. \A s \in ToSet(Sections), i \in 1..Len(t5) : t5[i] # Hole(s)
    <3>1. DOMAIN t5 = 1..Len(t5)
      BY <1>6, LenProperties DEF Rendering
    <3> QED BY <1>0, <1>7, <3>1 DEF Residual, ToSet
  <2> QED BY <1>7, <2>1 DEF Spoiled
<1>9. Filled(body, payload) = FilledAt(body, payload, ToSet(Sections))
  BY <1>6, <1>7, <1>8 DEF Rendering
<1>10. ASSUME NEW i \in 1..Len(body)
       PROVE  (\E s \in ToSet(Sections) : body[i] = Hole(s)) <=> "hole" \in DOMAIN body[i]
  <2>1. body[i] \in Lines
    BY ElementOfSeq
  <2>2. /\ DOMAIN Words = {"words"} /\ DOMAIN Begin = {"marker"} /\ DOMAIN End = {"marker"}
        /\ \A s : DOMAIN Hole(s) = {"hole"}
    BY DEF Words, Begin, End, Hole
  <2> QED BY <2>1, <2>2 DEF Lines
<1> QED BY <1>0, <1>9, <1>10 DEF FilledAt

(* The body of a template is made of its lines.                            *)
LEMMA BodyIsText ==
    ASSUME NEW lines \in Seq(Lines)
    PROVE  BodyOf(lines) \in Seq(Lines)
<1> DEFINE Spots(p) == {i \in 1..Len(lines) : lines[i] = p}
           First(p) == IF Spots(p) # {} THEN Min(Spots(p)) ELSE 0
<1>1. ASSUME NEW p PROVE First(p) \in 0..Len(lines)
  <2>1. Spots(p) \in SUBSET Nat /\ Spots(p) \subseteq 1..Len(lines) /\ Len(lines) \in Nat
    BY LenProperties
  <2>2. Spots(p) # {} => Min(Spots(p)) \in Spots(p)
    <3> HIDE DEF Spots
    <3> QED BY <2>1, NatMin
  <2> QED BY <2>1, <2>2
<1>2. BodyOf(lines) = SubSeq(lines, First(Begin) + 1, First(End) - 1)
  BY DEF BodyOf, SelectInSeq
<1> HIDE DEF First
<1> DEFINE b == First(Begin)
           e == First(End)
<1>3. b \in 0..Len(lines) /\ e \in 0..Len(lines) /\ Len(lines) \in Nat
  BY <1>1, LenProperties
<1> HIDE DEF b, e
<1>4. b + 1 \in Int /\ e - 1 \in Int /\ \A i \in (b + 1)..(e - 1) : lines[i] \in Lines
  BY <1>3, ElementOfSeq
<1>5. SubSeq(lines, b + 1, e - 1) \in Seq(Lines)
  BY <1>4, SubSeqProperties
<1> QED BY <1>2, <1>5 DEF b, e

----------------------------------------------------------------------------
(* The traces that are exported                                            *)

LEMMA JoinHasBoth ==
    ASSUME NEW T, NEW s \in Seq(T), NEW t \in Seq(T)
    PROVE  ToSet(s) \cup ToSet(t) \subseteq ToSet(s \o t)
<1>1. /\ Len(s) \in Nat /\ DOMAIN s = 1..Len(s) /\ Len(t) \in Nat /\ DOMAIN t = 1..Len(t)
      /\ Len(s \o t) = Len(s) + Len(t) /\ DOMAIN (s \o t) = 1..(Len(s) + Len(t))
  BY ConcatProperties, LenProperties
<1>2. ASSUME NEW i \in 1..Len(s) PROVE s[i] \in ToSet(s \o t)
  <2>1. (s \o t)[i] = s[i] /\ i \in DOMAIN (s \o t)
    BY <1>1, ConcatProperties
  <2> QED BY <2>1 DEF ToSet
<1>3. ASSUME NEW i \in 1..Len(t) PROVE t[i] \in ToSet(s \o t)
  <2>1. (s \o t)[Len(s) + i] = t[i] /\ Len(s) + i \in DOMAIN (s \o t)
    BY <1>1, ConcatProperties
  <2> QED BY <2>1 DEF ToSet
<1> QED BY <1>1, <1>2, <1>3 DEF ToSet

(* The function that FlattenSeq defines by recursion.                      *)
Joined(seqs, n, F) == F = [i \in 1..n |-> IF i = 1 THEN seqs[i] ELSE F[i - 1] \o seqs[i]]

LEMMA FlattenIsJoined ==
    ASSUME NEW n \in Nat, n # 0, NEW seqs, seqs = [i \in 1..n |-> seqs[i]]
    PROVE  \E F : Joined(seqs, n, F) /\ FlattenSeq(seqs) = F[n]
<1>1. Len(seqs) = n
  OBVIOUS
<1> DEFINE V(g, i) == IF i = 1 THEN seqs[i] ELSE g[i - 1] \o seqs[i]
           Up(g, m) == g = [i \in 1..m |-> V(g, i)]
           P == {m \in Nat : \E g : Up(g, m)}
           F == CHOOSE g : Up(g, n)
<1>2. 0 \in P
  <2> DEFINE g0 == [i \in 1..0 |-> 0]
  <2>1. Up(g0, 0)
    OBVIOUS
  <2> QED BY <2>1
<1>3. ASSUME NEW m \in Nat, m \in P PROVE m + 1 \in P
  <2>1. PICK g : Up(g, m)
    BY <1>3
  <2> DEFINE h == [i \in 1..(m + 1) |-> V(g, i)]
  <2>2. \A i \in 1..m : h[i] = g[i]
    <3> TAKE i \in 1..m
    <3>1. g[i] = V(g, i)
      BY <2>1
    <3>2. i \in 1..(m + 1)
      OBVIOUS
    <3> HIDE DEF V
    <3> QED BY <3>1, <3>2
  <2>3. \A i \in 1..(m + 1) : V(g, i) = V(h, i)
    <3> TAKE i \in 1..(m + 1)
    <3>1. CASE i = 1
      BY <3>1
    <3>2. CASE i # 1
      <4>1. i - 1 \in 1..m
        BY <3>2
      <4>2. h[i - 1] = g[i - 1]
        BY <2>2, <4>1
      <4> HIDE DEF h
      <4> QED BY <3>2, <4>2
    <3> QED BY <3>1, <3>2
  <2>4. Up(h, m + 1)
    BY <2>3
  <2>5. \E k : Up(k, m + 1)
    <3> HIDE DEF h, Up
    <3> QED BY <2>4
  <2> HIDE DEF Up
  <2> QED BY <2>5
<1>4. n \in P
  <2> HIDE DEF P
  <2> QED BY <1>2, <1>3, NumbersByInduction
<1>5. Up(F, n)
  BY <1>4
<1>6. FlattenSeq(seqs) = F[n]
  BY <1>1 DEF FlattenSeq
<1> HIDE DEF F
<1> QED BY <1>5, <1>6 DEF Joined

(* Sequences of sequences can be joined, and everything is there.          *)
LEMMA FlattenIsSequence ==
    ASSUME NEW T, NEW n \in Nat, NEW seqs, seqs = [i \in 1..n |-> seqs[i]],
           \A i \in 1..n : seqs[i] \in Seq(T)
    PROVE  /\ FlattenSeq(seqs) \in Seq(T)
           /\ \A i \in 1..n : \A x \in ToSet(seqs[i]) : x \in ToSet(FlattenSeq(seqs))
<1>1. CASE n = 0
  <2>1. FlattenSeq(seqs) = seqs
    BY <1>1 DEF FlattenSeq
  <2>2. seqs = <<>> /\ 1..n = {}
    BY <1>1
  <2> QED BY <2>1, <2>2, EmptySeq
<1>2. CASE n # 0
  <2>1. PICK F : Joined(seqs, n, F) /\ FlattenSeq(seqs) = F[n]
    BY <1>2, FlattenIsJoined
  <2>2. F[1] = seqs[1] /\ \A m \in Nat \ {0} : m + 1 \in 1..n => F[m + 1] = F[m] \o seqs[m + 1]
    <3>1. \A i \in 1..n : F[i] = IF i = 1 THEN seqs[i] ELSE F[i - 1] \o seqs[i]
      BY <2>1 DEF Joined
    <3>2. 1 \in 1..n
      BY <1>2
    <3>3. \A m \in Nat \ {0} : m + 1 # 1 /\ (m + 1) - 1 = m
      OBVIOUS
    <3>4. F[1] = seqs[1]
      BY <3>1, <3>2
    <3>5. \A m \in Nat \ {0} : m + 1 \in 1..n => F[m + 1] = F[m] \o seqs[m + 1]
      BY <3>1, <3>3
    <3> QED BY <3>4, <3>5
  <2> DEFINE Covers(m) == \A i \in 1..m : \A x \in ToSet(seqs[i]) : x \in ToSet(F[m])
             Q == {m \in Nat : m \in 1..n => F[m] \in Seq(T) /\ Covers(m)}
  <2>3. ASSUME NEW m \in Nat, m \in Q PROVE m + 1 \in Q
    <3> SUFFICES ASSUME m + 1 \in 1..n PROVE F[m + 1] \in Seq(T) /\ Covers(m + 1)
      OBVIOUS
    <3>1. CASE m = 0
      BY <2>2, <3>1
    <3>2. CASE m # 0
      <4>1. F[m] \in Seq(T) /\ Covers(m) /\ seqs[m + 1] \in Seq(T)
        BY <2>3, <3>2
      <4>2. F[m + 1] = F[m] \o seqs[m + 1]
        BY <2>2, <3>2
      <4>3. F[m + 1] \in Seq(T)
        BY <4>1, <4>2, ConcatProperties
      <4>4. ToSet(F[m]) \cup ToSet(seqs[m + 1]) \subseteq ToSet(F[m + 1])
        BY <4>1, <4>2, JoinHasBoth
      <4>5. \A i \in 1..(m + 1) : i \in 1..m \/ i = m + 1
        OBVIOUS
      <4>6. Covers(m + 1)
        <5> HIDE DEF Q
        <5> QED BY <4>1, <4>4, <4>5
      <4> QED BY <4>3, <4>6
    <3> QED BY <3>1, <3>2
  <2>4. n \in Q
    <3>1. 0 \in Q
      OBVIOUS
    <3> HIDE DEF Q
    <3> QED BY <2>3, <3>1, NumbersByInduction
  <2>5. F[n] \in Seq(T) /\ Covers(n)
    BY <1>2, <2>4
  <2> QED BY <2>1, <2>5
<1> QED BY <1>1, <1>2

LEMMA FirstErrorOk ==
    ASSUME NEW codes, FirstError(codes) = "ok"
    PROVE  \A i \in DOMAIN codes : i \in Nat => codes[i] = "ok"
<1> DEFINE faulty == {i \in DOMAIN codes : i \in Nat /\ codes[i] # "ok"}
<1>1. faulty # {} => Min(faulty) \in faulty
  <2>1. faulty \in SUBSET Nat
    OBVIOUS
  <2> HIDE DEF faulty
  <2> QED BY <2>1, NatMin
<1>2. FirstError(codes) = IF faulty = {} THEN "ok" ELSE codes[Min(faulty)]
  BY DEF FirstError
<1> QED BY <1>1, <1>2

IsList(s) == Len(s) \in Nat /\ DOMAIN s = 1..Len(s)

LEMMA ListsAreSequences ==
    ASSUME data \in Datasets
    PROVE  /\ IsLoaded(data.manifest) => IsSequence(ItemsOf(data.manifest.loaded, "problem_ids"))
           /\ \A f \in DOMAIN data.files : IsLoaded(data.files[f]) =>
                 \A key \in {"reasoning_traces", "candidate_solutions", "test_cases", "diagnoses"} :
                    IsSequence(ItemsOf(data.files[f].loaded, key))
BY LoadedAssumption

(* What the loop over the traces is given.                                 *)
IsTraceRef(ref) ==
    /\ ref.problem \in DOMAIN data.files
    /\ HasTraces(ref.problem) /\ HasType(ref.trace, "id", {"string"})
    /\ \E j \in DOMAIN TracesOf(ref.problem) : ref.trace = TracesOf(ref.problem)[j]

LEMMA TracesAreRefs ==
    ASSUME data \in Datasets, NEW pid, ProblemError(pid) = "ok"
    PROVE  /\ IsList(TracesOf(pid))
           /\ \A j \in DOMAIN TracesOf(pid) :
                 IsTraceRef([problem |-> pid, trace |-> TracesOf(pid)[j]])
<1> DEFINE traces == TracesOf(pid)
           codes == [j \in DOMAIN traces |-> TraceError(pid, traces[j])]
<1>1. HasTraces(pid) /\ FirstError(codes) = "ok"
  BY DEF ProblemError
<1>2. pid \in DOMAIN data.files /\ ProblemFile(pid) = data.files[pid]
  BY <1>1 DEF HasTraces, ProblemFile, IsLoaded, Unreadable
<1>3. IsSequence(traces)
  BY <1>1, <1>2, ListsAreSequences DEF HasTraces, TracesOf
<1>4. IsList(traces)
  <2> HIDE DEF traces
  <2> QED BY <1>3 DEF IsSequence, IsList
<1>5. \A j \in DOMAIN codes : j \in Nat => codes[j] = "ok"
  <2> HIDE DEF codes
  <2> QED BY <1>1, FirstErrorOk
<1>6. \A j \in DOMAIN traces : HasType(traces[j], "id", {"string"})
  <2> HIDE DEF traces
  <2>1. \A j \in DOMAIN traces : TraceError(pid, traces[j]) = "ok"
    BY <1>4, <1>5 DEF IsList
  <2> QED BY <2>1 DEF TraceError
<1> QED BY <1>1, <1>2, <1>4, <1>6 DEF IsTraceRef

LEMMA RefsAreTraces ==
    ASSUME data \in Datasets, IsLoaded(data.manifest), CollectError = "ok"
    PROVE  /\ IsList(Refs) /\ \A i \in DOMAIN Refs : IsTraceRef(Refs[i])
           /\ \A v \in ToSet(ItemsOf(data.manifest.loaded, "problem_ids")) :
                 ToSet(RefsOf(v)) \subseteq ToSet(Refs)
<1> DEFINE ids == ItemsOf(data.manifest.loaded, "problem_ids")
           codes == [i \in DOMAIN ids |->
                        IF DOMAIN ids[i] = {"string"} THEN ProblemError(ids[i].string) ELSE "ok"]
           seqs == [i \in DOMAIN ids |-> RefsOf(ids[i])]
           n == Len(ids)
           T == {ref \in UNION {ToSet(seqs[i]) : i \in DOMAIN ids} : IsTraceRef(ref)}
<1>1. n \in Nat /\ DOMAIN ids = 1..n
  <2>1. IsSequence(ids)
    BY ListsAreSequences
  <2> HIDE DEF ids
  <2> QED BY <2>1 DEF IsSequence
<1>3. CollectError = FirstError(codes)
  BY DEF CollectError
<1>4. ASSUME NEW i \in 1..n PROVE seqs[i] \in Seq(T)
  <2>0. seqs[i] = RefsOf(ids[i]) /\ ToSet(seqs[i]) \subseteq UNION {ToSet(seqs[k]) : k \in DOMAIN ids}
    BY <1>1
  <2>1. codes[i] = "ok"
    <3>1. \A j \in DOMAIN codes : j \in Nat => codes[j] = "ok"
      <4> HIDE DEF codes
      <4> QED BY <1>3, FirstErrorOk
    <3> QED BY <1>1, <3>1
  <2>2. CASE DOMAIN ids[i] # {"string"}
    <3>1. RefsOf(ids[i]) = <<>>
      BY <2>2 DEF RefsOf
    <3> QED BY <2>0, <3>1, EmptySeq
  <2>3. CASE DOMAIN ids[i] = {"string"}
    <3> DEFINE pid == ids[i].string
               r == RefsOf(ids[i])
    <3>1. /\ IsList(TracesOf(pid))
          /\ \A j \in DOMAIN TracesOf(pid) :
                IsTraceRef([problem |-> pid, trace |-> TracesOf(pid)[j]])
      <4>1. ProblemError(pid) = "ok"
        BY <1>1, <2>1, <2>3
      <4> HIDE DEF pid
      <4> QED BY <4>1, TracesAreRefs
    <3>2. /\ DOMAIN r = DOMAIN TracesOf(pid) /\ r = [j \in DOMAIN r |-> r[j]]
          /\ \A j \in DOMAIN r : r[j] = [problem |-> pid, trace |-> TracesOf(pid)[j]]
      BY <2>3 DEF RefsOf
    <3>3. \A j \in DOMAIN r : r[j] \in ToSet(r) /\ IsTraceRef(r[j])
      BY <3>1, <3>2 DEF ToSet
    <3>4. \A j \in DOMAIN r : r[j] \in T
      <4> HIDE DEF r, ids
      <4> QED BY <2>0, <3>3 DEF r
    <3> HIDE DEF r, T
    <3>5. r \in Seq(T)
      <4>1. Len(TracesOf(pid)) \in Nat /\ DOMAIN r = 1..Len(TracesOf(pid))
        BY <3>1, <3>2 DEF IsList
      <4>2. r \in [1..Len(TracesOf(pid)) -> T]
        BY <3>2, <3>4, <4>1
      <4> QED BY <4>1, <4>2, SeqDef
    <3> HIDE DEF seqs
    <3> QED BY <2>0, <3>5 DEF r
  <2> QED BY <2>2, <2>3
<1>5. seqs = [i \in 1..n |-> seqs[i]]
  BY <1>1
<1>6. Refs = FlattenSeq(seqs)
  BY DEF Refs
<1>8. \A ref \in T : IsTraceRef(ref)
  OBVIOUS
<1> HIDE DEF seqs, T, n, ids
<1>7. Refs \in Seq(T) /\ \A i \in 1..n : \A x \in ToSet(seqs[i]) : x \in ToSet(Refs)
  BY <1>1, <1>4, <1>5, <1>6, FlattenIsSequence
<1>9. \A v \in ToSet(ids) : ToSet(RefsOf(v)) \subseteq ToSet(Refs)
  <2>1. \A i \in 1..n : seqs[i] = RefsOf(ids[i])
    BY <1>1 DEF seqs
  <2>2. \A v \in ToSet(ids) : \E i \in 1..n : v = ids[i]
    BY <1>1 DEF ToSet
  <2> QED BY <1>7, <2>1, <2>2
<1> QED BY <1>7, <1>8, <1>9, LenProperties, ElementOfSeq DEF IsList, ids

(* The prompt a trace should have, if it may have one.                     *)
Wanted(e, ref) ==
    IF LeaksStructurally(PayloadOf(ref)) THEN {}
    ELSE {Prompt(InPlace(template[e].lines, PayloadOf(ref)))}

LEMMA PromptIsWanted ==
    ASSUME NEW e, template[e].lines \in Seq(Lines), NEW ref, PromptError(e, ref) = "ok"
    PROVE  Prompt(PromptFor(e, ref)) \in Wanted(e, ref)
<1> DEFINE body == BodyOf(template[e].lines)
           payload == PayloadOf(ref)
<1>1. body \in Seq(Lines)
  BY BodyIsText
<1>2. RenderError(body, payload) = "ok"
  BY DEF PromptError
<1>3. PromptFor(e, ref) = Filled(body, payload)
  BY DEF PromptFor
<1>4. InPlace(template[e].lines, payload) =
          [i \in DOMAIN body |->
              IF "hole" \in DOMAIN body[i] THEN [json |-> payload.object[body[i].hole]]
              ELSE body[i]]
  BY DEF InPlace
<1> HIDE DEF body, payload
<1>5. PromptFor(e, ref) = InPlace(template[e].lines, payload)
  BY <1>1, <1>2, <1>3, <1>4, FillsInPlace
<1>6. ~LeaksStructurally(payload)
  BY DEF PromptError, payload
<1> QED BY <1>5, <1>6 DEF Wanted, payload

LEMMA Fixed ==
    ASSUME UNCHANGED <<data, template>>, NEW e
    PROVE  /\ Refs' = Refs /\ CollectError' = CollectError /\ LoadError(e)' = LoadError(e)
           /\ ManifestOf(e)' = ManifestOf(e)
<1> USE DEF RefsOf, TracesOf, ProblemFile
<1>1. Refs' = Refs
  BY DEF Refs
<1>2. CollectError' = CollectError
  BY DEF CollectError, ProblemError, HasTraces, TraceError, ForeignTrace
<1>3. LoadError(e)' = LoadError(e)
  BY DEF LoadError
<1>4. ManifestOf(e)' = ManifestOf(e)
  BY <1>1 DEF ManifestOf, AllTraceIds
<1> QED BY <1>1, <1>2, <1>3, <1>4

WantedOf(e) == [i \in 1..Len(Refs) |-> Wanted(e, Refs[i])]

(* Files of prompts for the first n of some traces, each torn or as it     *)
(* should be.                                                              *)
Sound(refs, wanted, prompts, n, lost) ==
    /\ DOMAIN prompts = {RefId(refs[i]) : i \in 1..n}
    /\ \A id \in DOMAIN prompts :
          \/ LateWriteErrors /\ lost > 0 /\ prompts[id] = Torn
          \/ \E i \in 1..n : RefId(refs[i]) = id /\ prompts[id] \in wanted[i]

(* What each step has established, and what was published.                 *)
StepInv(e) ==
    /\ epc[e] \in Early \cup {"collect"} => nextRef[e] = 0
    /\ epc[e] \in {"mktemp"} \cup Filling => LoadError(e) = "ok"
    /\ epc[e] = "collect" => temp[e].prompts = <<>>
    /\ epc[e] \in {"prompts", "rename"} => CollectError = "ok"
    /\ epc[e] = "prompts" =>
          /\ nextRef[e] <= Len(Refs)
          /\ Sound(Refs, WantedOf(e), temp[e].prompts, nextRef[e], faults)
    /\ epc[e] = "rename" =>
          /\ Sound(Refs, WantedOf(e), temp[e].prompts, Len(Refs), faults)
          /\ temp[e].manifest # Torn => temp[e].manifest = ManifestOf(e)

RunInv(e) ==
    Published(e) =>
        /\ LoadError(e) = "ok" /\ CollectError = "ok"
        /\ Sound(Refs, WantedOf(e), run.prompts, Len(Refs), faults)
        /\ run.manifest # Torn => run.manifest = ManifestOf(e)

WholeInv ==
    /\ template \in [Exporters -> TemplatesFor[data]]
    /\ \A e \in Exporters : StepInv(e) /\ RunInv(e)

LEMMA WantedOfFixed ==
    ASSUME UNCHANGED <<data, template>>, NEW e
    PROVE  WantedOf(e)' = WantedOf(e)
<1>1. Refs' = Refs
  BY Fixed
<1> QED BY <1>1 DEF WantedOf, Wanted, PayloadOf, ProblemFile

LEMMA SoundLater ==
    ASSUME NEW refs, NEW wanted, NEW p, NEW n, NEW f \in Nat, NEW g \in Nat, g >= f,
           Sound(refs, wanted, p, n, f)
    PROVE  Sound(refs, wanted, p, n, g)
BY DEF Sound

LEMMA SoundAdds ==
    ASSUME NEW refs, NEW wanted, NEW p, NEW n \in Nat, NEW f \in Nat, NEW v,
           Sound(refs, wanted, p, n, f),
           v \in wanted[n + 1] \/ (LateWriteErrors /\ f > 0 /\ v = Torn)
    PROVE  Sound(refs, wanted, WithFile(p, RefId(refs[n + 1]), v), n + 1, f)
<1> DEFINE id == RefId(refs[n + 1])
           q == WithFile(p, id, v)
<1>1. /\ DOMAIN q = {id} \cup DOMAIN p /\ q[id] = v
      /\ \A x \in DOMAIN p \ {id} : q[x] = p[x]
  BY DEF WithFile
<1> HIDE DEF q
<1>2. 1..(n + 1) = 1..n \cup {n + 1}
  OBVIOUS
<1>3. DOMAIN q = {RefId(refs[i]) : i \in 1..(n + 1)}
  <2>1. DOMAIN p = {RefId(refs[i]) : i \in 1..n}
    BY DEF Sound
  <2> QED BY <1>1, <1>2, <2>1
<1>4. ASSUME NEW x \in DOMAIN q
      PROVE  \/ LateWriteErrors /\ f > 0 /\ q[x] = Torn
             \/ \E i \in 1..(n + 1) : RefId(refs[i]) = x /\ q[x] \in wanted[i]
  <2>1. CASE x = id
    BY <1>1, <1>2, <2>1
  <2>2. CASE x # id
    <3>1. x \in DOMAIN p /\ q[x] = p[x]
      BY <1>1, <2>2
    <3>2. \/ LateWriteErrors /\ f > 0 /\ p[x] = Torn
          \/ \E i \in 1..n : RefId(refs[i]) = x /\ p[x] \in wanted[i]
      BY <3>1 DEF Sound
    <3> QED BY <1>2, <3>1, <3>2
  <2> QED BY <2>1, <2>2
<1> QED BY <1>3, <1>4 DEF Sound, q

(* What the steps of others leave alone.                                   *)
LEMMA RunKeeps ==
    ASSUME WholeInv, NEW c \in Exporters, UNCHANGED <<data, template>>,
           faults \in Nat, faults' \in Nat, faults' >= faults,
           run' = run \/ (run' # Absent /\ run'.by # c)
    PROVE  RunInv(c)'
<1>1. /\ Refs' = Refs /\ CollectError' = CollectError /\ LoadError(c)' = LoadError(c)
      /\ ManifestOf(c)' = ManifestOf(c) /\ WantedOf(c)' = WantedOf(c)
  BY Fixed, WantedOfFixed
<1> SUFFICES ASSUME Published(c)'
             PROVE  /\ LoadError(c) = "ok" /\ CollectError = "ok"
                    /\ Sound(Refs, WantedOf(c), run'.prompts, Len(Refs), faults')
                    /\ run'.manifest # Torn => run'.manifest = ManifestOf(c)
  BY <1>1 DEF RunInv
<1>2. run' = run /\ Published(c)
  BY DEF Published
<1>3. /\ LoadError(c) = "ok" /\ CollectError = "ok"
      /\ Sound(Refs, WantedOf(c), run.prompts, Len(Refs), faults)
      /\ run.manifest # Torn => run.manifest = ManifestOf(c)
  BY <1>2 DEF WholeInv, RunInv
<1> QED BY <1>2, <1>3, SoundLater

LEMMA StepKeeps ==
    ASSUME WholeInv, NEW c \in Exporters, UNCHANGED <<data, template>>,
           faults \in Nat, faults' \in Nat, faults' >= faults,
           epc'[c] = epc[c], nextRef'[c] = nextRef[c], temp'[c] = temp[c]
    PROVE  StepInv(c)'
<1>1. /\ Refs' = Refs /\ CollectError' = CollectError /\ LoadError(c)' = LoadError(c)
      /\ ManifestOf(c)' = ManifestOf(c) /\ WantedOf(c)' = WantedOf(c)
  BY Fixed, WantedOfFixed
<1>2. StepInv(c)
  BY DEF WholeInv
<1>3. \A n : Sound(Refs, WantedOf(c), temp[c].prompts, n, faults)
             => Sound(Refs, WantedOf(c), temp[c].prompts, n, faults')
  BY SoundLater
<1> QED BY <1>1, <1>2, <1>3 DEF StepInv

(* One command moves and the others keep what they have; what its step has *)
(* established and what it has published, if it has, is left to show.      *)
MoverInv(e) == StepInv(e) /\ RunInv(e)

LEMMA WholeAssemble ==
    ASSUME ExportInv, WholeInv, NEW e \in Exporters, UNCHANGED <<data, template>>,
           faults \in Nat, faults' \in Nat, faults' >= faults,
           run' = run \/ (run' # Absent /\ run'.by = e),
           \A c \in Exporters \ {e} :
               epc'[c] = epc[c] /\ nextRef'[c] = nextRef[c] /\ temp'[c] = temp[c],
           MoverInv(e)'
    PROVE  WholeInv'
<1>1. ASSUME NEW c \in Exporters PROVE StepInv(c)' /\ RunInv(c)'
  <2>1. CASE c = e
    <3>1. StepInv(e)' /\ RunInv(e)'
      BY DEF MoverInv
    <3> QED BY <2>1, <3>1
  <2>2. CASE c # e
    <3>1. StepInv(c)'
      BY <2>2, StepKeeps
    <3>2. RunInv(c)'
      BY <2>2, RunKeeps
    <3> QED BY <3>1, <3>2
  <2> QED BY <2>1, <2>2
<1>2. (template \in [Exporters -> TemplatesFor[data]])'
  BY DEF WholeInv
<1> QED BY <1>1, <1>2 DEF WholeInv

(* What any step of a command leaves to the others.                        *)
LEMMA Alone ==
    ASSUME ExportInv, NEW e \in Exporters, Export(e)
    PROVE  /\ faults \in Nat /\ faults' \in Nat /\ faults' >= faults
           /\ UNCHANGED template
           /\ \A c \in Exporters \ {e} :
                 epc'[c] = epc[c] /\ nextRef'[c] = nextRef[c] /\ temp'[c] = temp[c]
<1> USE DEF Export, ReadTemplate, CheckRunDir, LoadData, MakeTemp, Collect, WritePrompt,
            WriteManifest, Rename, CleanUp, Reload, Kill
<1>1. /\ epc \in [Exporters -> StepNames] /\ nextRef \in [Exporters -> Nat]
      /\ faults \in 0..MaxFaults /\ MaxFaults \in Nat
      /\ temp = [c \in Exporters |-> temp[c]]
  BY ExporterAssumption DEF ExportInv, TypeOK, ShapeInv, StepNames, Early, Filling
<1>2. \E x : epc' = [epc EXCEPT ![e] = x] \/ epc' = epc
  BY DEF Leave, Fail, Goto
<1>3. \E x : nextRef' = [nextRef EXCEPT ![e] = x] \/ nextRef' = nextRef
  BY <1>1
<1>4. \E x : temp' = [temp EXCEPT ![e] = x] \/ temp' = temp
  BY DEF PutPrompt
<1>5. faults' = faults \/ faults' = faults + 1
  BY DEF Fault
<1>6. UNCHANGED template
  OBVIOUS
<1>7. \A c \in Exporters \ {e} : temp'[c] = temp[c]
  <2> DEFINE f == [c \in Exporters |-> temp[c]]
  <2>1. PICK x : temp' = [f EXCEPT ![e] = x] \/ temp' = f
    BY <1>1, <1>4
  <2> QED BY <2>1
<1>8. \A c \in Exporters \ {e} : epc'[c] = epc[c] /\ nextRef'[c] = nextRef[c]
  BY <1>1, <1>2, <1>3
<1> QED BY <1>1, <1>5, <1>6, <1>7, <1>8

(* The definitions that a step reads do not change.                        *)
LEMMA Steady ==
    ASSUME UNCHANGED <<data, template>>, NEW e
    PROVE  /\ Refs' = Refs /\ CollectError' = CollectError /\ LoadError(e)' = LoadError(e)
           /\ ManifestOf(e)' = ManifestOf(e) /\ WantedOf(e)' = WantedOf(e)
BY Fixed, WantedOfFixed

(* Every step but the renaming leaves the run directory alone.             *)
LEMMA StepWhole ==
    ASSUME ExportInv, WholeInv, NEW e \in Exporters, UNCHANGED validatorVars, Export(e),
           run' = run, StepInv(e)'
    PROVE  WholeInv'
<1>1. UNCHANGED <<data, template>>
  BY Alone DEF validatorVars
<1>2. /\ faults \in Nat /\ faults' \in Nat /\ faults' >= faults
  BY Alone
<1>3. RunInv(e)'
  BY <1>1, <1>2, RunKeeps
<1>4. MoverInv(e)'
  BY <1>3 DEF MoverInv
<1>5. \A c \in Exporters \ {e} :
          epc'[c] = epc[c] /\ nextRef'[c] = nextRef[c] /\ temp'[c] = temp[c]
  BY Alone
<1> QED BY <1>1, <1>2, <1>4, <1>5, WholeAssemble

(* Where a command has given up or ended, its step has nothing to show.    *)
LEMMA LeavingWhole ==
    ASSUME ExportInv, WholeInv, NEW e \in Exporters, UNCHANGED validatorVars, Export(e),
           run' = run, epc'[e] \in {"cleanup", "ended", "reload"}
    PROVE  WholeInv'
<1>1. StepInv(e)'
  BY DEF StepInv, Early, Filling
<1> QED BY <1>1, StepWhole

LEMMA Left ==
    ASSUME ExportInv, NEW e \in Exporters, NEW x
    PROVE  /\ Leave(e, x) => epc'[e] = "ended"
           /\ Fail(e, x) => epc'[e] = "cleanup"
           /\ \A y : Goto(e, y) => epc'[e] = y
BY ZenonT(30), Facts DEF Leave, Fail, Goto

LEMMA EarlyWhole ==
    ASSUME ExportInv, WholeInv, NEW e \in Exporters, UNCHANGED validatorVars, Export(e),
           ReadTemplate(e) \/ CheckRunDir(e) \/ LoadData(e)
    PROVE  WholeInv'
<1>1. run' = run /\ nextRef' = nextRef /\ UNCHANGED <<data, template>>
  BY DEF ReadTemplate, CheckRunDir, LoadData, validatorVars
<1>2. StepInv(e)
  BY DEF WholeInv
<1>3. CASE epc'[e] = "ended"
  BY <1>1, <1>3, LeavingWhole
<1>4. CASE epc'[e] \in {"check", "load"}
  <2>1. nextRef[e] = 0
    BY <1>2 DEF StepInv, Early, ReadTemplate, CheckRunDir, LoadData, AtStep
  <2>2. StepInv(e)'
    BY <1>1, <1>4, <2>1 DEF StepInv, Early, Filling
  <2> QED BY <1>1, <2>2, StepWhole
<1>5. CASE epc'[e] = "mktemp" /\ LoadError(e) = "ok" /\ epc[e] = "load"
  <2>1. nextRef[e] = 0 /\ LoadError(e)' = "ok"
    BY <1>1, <1>2, <1>5, Steady DEF StepInv, Early
  <2>2. StepInv(e)'
    BY <1>1, <1>5, <2>1 DEF StepInv, Early, Filling
  <2> QED BY <1>1, <2>2, StepWhole
<1>6. \/ epc'[e] = "ended" \/ epc'[e] \in {"check", "load"}
      \/ epc'[e] = "mktemp" /\ LoadError(e) = "ok" /\ epc[e] = "load"
  BY Left DEF ReadTemplate, CheckRunDir, LoadData, AtStep
<1> QED BY <1>3, <1>4, <1>5, <1>6

LEMMA MakeTempWhole ==
    ASSUME ExportInv, WholeInv, NEW e \in Exporters, UNCHANGED validatorVars, Export(e),
           MakeTemp(e)
    PROVE  WholeInv'
<1>1. run' = run /\ nextRef' = nextRef /\ UNCHANGED <<data, template>> /\ epc[e] = "mktemp"
  BY DEF MakeTemp, validatorVars, AtStep
<1>2. nextRef[e] = 0 /\ LoadError(e)' = "ok"
  BY <1>1, Steady DEF WholeInv, StepInv, Early
<1>3. CASE epc'[e] = "cleanup"
  BY <1>1, <1>3, LeavingWhole
<1>4. CASE epc'[e] = "collect" /\ temp'[e] = Directory(e, <<>>, Absent)
  <2>1. temp'[e].prompts = <<>>
    BY <1>4 DEF Directory
  <2>2. StepInv(e)'
    BY <1>1, <1>2, <1>4, <2>1 DEF StepInv, Early, Filling
  <2> QED BY <1>1, <2>2, StepWhole
<1>5. [temp EXCEPT ![e] = Directory(e, <<>>, Absent)][e] = Directory(e, <<>>, Absent)
  BY Facts
<1>6. \/ epc'[e] = "cleanup"
      \/ epc'[e] = "collect" /\ temp' = [temp EXCEPT ![e] = Directory(e, <<>>, Absent)]
  BY Left DEF MakeTemp
<1> QED BY <1>3, <1>4, <1>5, <1>6

LEMMA CollectWhole ==
    ASSUME ExportInv, WholeInv, NEW e \in Exporters, UNCHANGED validatorVars, Export(e),
           Collect(e)
    PROVE  WholeInv'
<1>1. /\ run' = run /\ nextRef' = nextRef /\ UNCHANGED <<data, template>>
      /\ epc[e] = "collect" /\ temp' = temp /\ faults' = faults
  BY DEF Collect, validatorVars, AtStep
<1>2. /\ nextRef[e] = 0 /\ temp[e].prompts = <<>> /\ LoadError(e) = "ok"
  BY <1>1 DEF WholeInv, StepInv, Early, Filling
<1>3. CASE epc'[e] = "cleanup"
  BY <1>1, <1>3, LeavingWhole
<1>4. CASE epc'[e] = "prompts" /\ CollectError = "ok"
  <2>1. Len(Refs) \in Nat
    BY <1>2, <1>4, RefsAreTraces DEF LoadError, IsList, ExportInv, TypeOK
  <2>2. Sound(Refs, WantedOf(e), <<>>, 0, faults)
    BY DEF Sound
  <2>3. StepInv(e)'
    BY <1>1, <1>2, <1>4, <2>1, <2>2, Steady DEF StepInv, Early, Filling
  <2> QED BY <1>1, <2>3, StepWhole
<1> QED BY <1>3, <1>4, Left DEF Collect

(* A file that is put into a directory, and nothing else changes there.    *)
LEMMA FilePut ==
    ASSUME ExportInv, NEW e \in Exporters, temp[e] # Absent, NEW v
    PROVE  /\ [temp EXCEPT ![e].prompts = v][e].prompts = v
           /\ [temp EXCEPT ![e].manifest = v][e].manifest = v
           /\ [temp EXCEPT ![e].manifest = v][e].prompts = temp[e].prompts
<1>1. temp[e] = Directory(e, temp[e].prompts, temp[e].manifest)
  BY Facts
<1>2. /\ \A p, m : [Directory(e, p, m) EXCEPT !.prompts = v] = Directory(e, v, m)
      /\ \A p, m : [Directory(e, p, m) EXCEPT !.manifest = v] = Directory(e, p, v)
      /\ \A p, m : Directory(e, p, m).prompts = p /\ Directory(e, p, m).manifest = m
  BY DEF Directory
<1>3. \A t : [temp EXCEPT ![e] = t][e] = t
  BY Facts
<1>4. /\ [temp EXCEPT ![e].prompts = v] = [temp EXCEPT ![e] = [temp[e] EXCEPT !.prompts = v]]
      /\ [temp EXCEPT ![e].manifest = v] = [temp EXCEPT ![e] = [temp[e] EXCEPT !.manifest = v]]
  OBVIOUS
<1>5. /\ [temp EXCEPT ![e].prompts = v][e] = [temp[e] EXCEPT !.prompts = v]
      /\ [temp EXCEPT ![e].manifest = v][e] = [temp[e] EXCEPT !.manifest = v]
  BY <1>3, <1>4
<1>6. /\ [temp[e] EXCEPT !.prompts = v] = Directory(e, v, temp[e].manifest)
      /\ [temp[e] EXCEPT !.manifest = v] = Directory(e, temp[e].prompts, v)
  BY <1>1, <1>2
<1> QED BY <1>2, <1>5, <1>6

LEMMA WritePromptWhole ==
    ASSUME ExportInv, WholeInv, NEW e \in Exporters, UNCHANGED validatorVars, Export(e),
           WritePrompt(e)
    PROVE  WholeInv'
<1> DEFINE n == nextRef[e]
           ref == Refs[n + 1]
           Put(v) == temp' = [temp EXCEPT ![e].prompts = WithFile(temp[e].prompts, RefId(ref), v)]
<1>1. /\ run' = run /\ UNCHANGED <<data, template>> /\ epc[e] = "prompts"
      /\ n \in Nat /\ n < Len(Refs) /\ temp[e] # Absent
  BY Facts DEF WritePrompt, validatorVars, AtStep, ExportInv, CommandInv, Filling
<1>2. /\ LoadError(e) = "ok" /\ CollectError = "ok"
      /\ Sound(Refs, WantedOf(e), temp[e].prompts, n, faults)
  BY <1>1 DEF WholeInv, StepInv, Filling
<1>3. Len(Refs) \in Nat
  BY <1>2, RefsAreTraces DEF LoadError, IsList, ExportInv, TypeOK
<1>4. CASE epc'[e] = "cleanup"
  BY <1>1, <1>4, LeavingWhole
<1>5. ASSUME NEW v, Put(v), UNCHANGED epc, nextRef' = [nextRef EXCEPT ![e] = @ + 1],
             v \in Wanted(e, ref) \/ (LateWriteErrors /\ faults' > 0 /\ v = Torn)
      PROVE  WholeInv'
  <2> DEFINE p == temp[e].prompts
             want == WantedOf(e)
             refs == Refs
  <2>1. want[n + 1] = Wanted(e, refs[n + 1])
    BY <1>1, <1>3 DEF WantedOf
  <2>2. faults \in Nat /\ faults' \in Nat /\ faults' >= faults
    BY Alone
  <2>3. Sound(refs, want, p, n, faults')
    BY <1>2, <2>2, SoundLater
  <2>4. temp'[e].prompts = WithFile(p, RefId(refs[n + 1]), v)
    BY <1>1, <1>5, FilePut
  <2>5. v \in want[n + 1] \/ (LateWriteErrors /\ faults' > 0 /\ v = Torn)
    BY <1>5, <2>1
  <2>6. Sound(refs, want, WithFile(p, RefId(refs[n + 1]), v), n + 1, faults')
    <3> HIDE DEF p, want, refs, n
    <3> QED BY <1>1, <2>2, <2>3, <2>5, SoundAdds
  <2>7. nextRef'[e] = n + 1 /\ n + 1 <= Len(Refs)
    BY <1>1, <1>3, <1>5, Facts
  <2>8. epc'[e] = "prompts"
    BY <1>1, <1>5
  <2>9. StepInv(e)'
    BY <1>1, <1>2, <2>4, <2>6, <2>7, <2>8, Steady DEF StepInv, Early, Filling
  <2> QED BY <1>1, <2>9, StepWhole
<1>6. template[e].lines \in Seq(Lines)
  <2>1. template[e] \in TemplatesFor[data] /\ data \in Datasets
    BY DEF WholeInv, ExportInv, TypeOK
  <2> QED BY <2>1, ExporterAssumption
<1>7. \/ epc'[e] = "cleanup"
      \/ /\ UNCHANGED epc /\ nextRef' = [nextRef EXCEPT ![e] = @ + 1]
         /\ \/ PromptError(e, ref) = "ok" /\ Put(Prompt(PromptFor(e, ref)))
            \/ LateWriteErrors /\ Fault /\ Put(Torn)
  BY Left DEF WritePrompt, PutPrompt
<1>8. CASE UNCHANGED epc /\ nextRef' = [nextRef EXCEPT ![e] = @ + 1]
           /\ PromptError(e, ref) = "ok" /\ Put(Prompt(PromptFor(e, ref)))
  <2>1. Prompt(PromptFor(e, ref)) \in Wanted(e, ref)
    BY <1>6, <1>8, PromptIsWanted
  <2> HIDE DEF Put, ref
  <2> QED BY <1>5, <1>8, <2>1
<1>9. CASE UNCHANGED epc /\ nextRef' = [nextRef EXCEPT ![e] = @ + 1]
           /\ LateWriteErrors /\ Fault /\ Put(Torn)
  <2>1. faults' > 0
    BY <1>9, Alone DEF Fault
  <2> HIDE DEF Put, ref
  <2> QED BY <1>5, <1>9, <2>1
<1> QED BY <1>4, <1>7, <1>8, <1>9

LEMMA WriteManifestWhole ==
    ASSUME ExportInv, WholeInv, NEW e \in Exporters, UNCHANGED validatorVars, Export(e),
           WriteManifest(e)
    PROVE  WholeInv'
<1>1. /\ run' = run /\ UNCHANGED <<data, template>> /\ epc[e] = "prompts"
      /\ nextRef[e] = Len(Refs) /\ temp[e] # Absent
  BY DEF WriteManifest, validatorVars, AtStep, ExportInv, CommandInv, Filling
<1>2. /\ LoadError(e) = "ok" /\ CollectError = "ok"
      /\ Sound(Refs, WantedOf(e), temp[e].prompts, Len(Refs), faults)
  BY <1>1 DEF WholeInv, StepInv, Filling
<1>3. CASE epc'[e] = "cleanup"
  BY <1>1, <1>3, LeavingWhole
<1>4. ASSUME NEW v, temp' = [temp EXCEPT ![e].manifest = v], epc'[e] = "rename",
             v # Torn => v = ManifestOf(e)
      PROVE  WholeInv'
  <2>1. temp'[e].manifest = v /\ temp'[e].prompts = temp[e].prompts
    BY <1>1, <1>4, FilePut
  <2>2. Sound(Refs, WantedOf(e), temp[e].prompts, Len(Refs), faults')
    BY <1>2, Alone, SoundLater
  <2>3. StepInv(e)'
    BY <1>1, <1>2, <1>4, <2>1, <2>2, Steady DEF StepInv, Early, Filling
  <2> QED BY <1>1, <2>3, StepWhole
<1>5. \/ epc'[e] = "cleanup"
      \/ /\ epc'[e] = "rename"
         /\ \/ temp' = [temp EXCEPT ![e].manifest = ManifestOf(e)]
            \/ temp' = [temp EXCEPT ![e].manifest = Torn]
  BY Left DEF WriteManifest
<1> QED BY <1>3, <1>4, <1>5

LEMMA RenameWhole ==
    ASSUME ExportInv, WholeInv, NEW e \in Exporters, UNCHANGED validatorVars, Export(e),
           Rename(e)
    PROVE  WholeInv'
<1>1. UNCHANGED <<data, template>> /\ epc[e] = "rename"
  BY DEF Rename, validatorVars, AtStep
<1>2. /\ LoadError(e) = "ok" /\ CollectError = "ok" /\ temp[e] # Absent
      /\ Sound(Refs, WantedOf(e), temp[e].prompts, Len(Refs), faults)
      /\ temp[e].manifest # Torn => temp[e].manifest = ManifestOf(e)
  BY <1>1 DEF WholeInv, StepInv, Filling, ExportInv, CommandInv
<1>3. CASE run' = run /\ epc'[e] = "cleanup"
  BY <1>3, LeavingWhole
<1>4. CASE run' = temp[e] /\ epc'[e] = "reload"
  <2>1. run' # Absent /\ run'.by = e
    <3>1. temp[e] = Directory(e, temp[e].prompts, temp[e].manifest)
      BY <1>2, Facts
    <3>2. \A p, m : Directory(e, p, m).by = e
      BY DEF Directory
    <3> QED BY <1>2, <1>4, <3>1, <3>2
  <2>2. Sound(Refs, WantedOf(e), temp[e].prompts, Len(Refs), faults')
    BY <1>2, Alone, SoundLater
  <2>3. RunInv(e)'
    BY <1>1, <1>2, <1>4, <2>2, Steady DEF RunInv
  <2>4. StepInv(e)'
    BY <1>4 DEF StepInv, Early, Filling
  <2>5. MoverInv(e)'
    BY <2>3, <2>4 DEF MoverInv
  <2>6. /\ faults \in Nat /\ faults' \in Nat /\ faults' >= faults
        /\ \A c \in Exporters \ {e} :
              epc'[c] = epc[c] /\ nextRef'[c] = nextRef[c] /\ temp'[c] = temp[c]
    BY Alone
  <2> QED BY <1>1, <2>1, <2>5, <2>6, WholeAssemble
<1>5. (run' = run /\ epc'[e] = "cleanup") \/ (run' = temp[e] /\ epc'[e] = "reload")
  BY Left DEF Rename
<1> QED BY <1>3, <1>4, <1>5

LEMMA LastWhole ==
    ASSUME ExportInv, WholeInv, NEW e \in Exporters, UNCHANGED validatorVars, Export(e),
           CleanUp(e) \/ Reload(e) \/ Kill(e)
    PROVE  WholeInv'
<1>1. run' = run /\ epc'[e] = "ended"
  BY Left DEF CleanUp, Reload, Kill
<1> QED BY <1>1, LeavingWhole

LEMMA WholeInit == Init => WholeInv
<1> SUFFICES ASSUME Init PROVE WholeInv
  OBVIOUS
<1>1. /\ template \in [Exporters -> TemplatesFor[data]] /\ run = Absent
      /\ \A e \in Exporters : epc[e] = "template" /\ nextRef[e] = 0
  BY DEF Init, ExporterInit
<1>2. \A e \in Exporters : StepInv(e) /\ RunInv(e)
  BY <1>1 DEF StepInv, RunInv, Published, Early, Filling
<1> QED BY <1>1, <1>2 DEF WholeInv

LEMMA WholeStep == ExportInv /\ ExportInv' /\ WholeInv /\ [Next]_vars => WholeInv'
<1> SUFFICES ASSUME ExportInv, ExportInv', WholeInv, [Next]_vars PROVE WholeInv'
  OBVIOUS
<1>1. CASE (\E e \in Exporters : Export(e)) /\ UNCHANGED validatorVars
  <2>1. PICK e \in Exporters : Export(e)
    BY <1>1
  <2>2. \/ ReadTemplate(e) \/ CheckRunDir(e) \/ LoadData(e) \/ MakeTemp(e) \/ Collect(e)
        \/ WritePrompt(e) \/ WriteManifest(e) \/ Rename(e) \/ CleanUp(e) \/ Reload(e)
        \/ Kill(e)
    BY <2>1 DEF Export
  <2> QED
    BY <1>1, <2>1, <2>2, EarlyWhole, MakeTempWhole, CollectWhole, WritePromptWhole,
       WriteManifestWhole, RenameWhole, LastWhole
<1>2. CASE UNCHANGED exporterVars /\ UNCHANGED data
  <2>1. UNCHANGED <<data, template, epc, nextRef, temp, run, faults>>
    BY <1>2 DEF exporterVars
  <2>2. faults \in Nat /\ faults' \in Nat /\ faults' >= faults
    BY <2>1, ExporterAssumption DEF ExportInv, TypeOK
  <2>3. \A c \in Exporters : StepInv(c)' /\ RunInv(c)'
    BY <2>1, <2>2, StepKeeps, RunKeeps
  <2>4. (template \in [Exporters -> TemplatesFor[data]])'
    BY <2>1 DEF WholeInv
  <2> QED BY <2>3, <2>4 DEF WholeInv
<1>3. Validate => UNCHANGED data
  BY DEF Validate, CheckDirectory, LoadManifest, LoadProblem, Resolve, CheckSummary, Return
<1>4. UNCHANGED vars => UNCHANGED exporterVars /\ UNCHANGED data
  BY DEF vars, validatorVars
<1> QED BY <1>1, <1>2, <1>3, <1>4 DEF Next

LEMMA WholeMeans ==
    ASSUME ExportInv, WholeInv
    PROVE  PublishedRunIsWhole
<1> SUFFICES ASSUME run # Absent PROVE PublishedRunIsWhole
  BY DEF PublishedRunIsWhole
<1> DEFINE e == run.by
           refs == Refs
           Made(id, i) ==
               /\ RefId(refs[i]) = id
               /\ run.prompts[id] = Prompt(InPlace(template[e].lines, PayloadOf(refs[i])))
<1>1. e \in Exporters /\ data \in Datasets
  BY DEF ExportInv, TypeOK
<1>2. /\ LoadError(e) = "ok" /\ CollectError = "ok"
      /\ Sound(Refs, WantedOf(e), run.prompts, Len(Refs), faults)
      /\ run.manifest # Torn => run.manifest = ManifestOf(e)
  BY <1>1 DEF WholeInv, RunInv, Published
<1>3. Len(refs) \in Nat /\ DOMAIN refs = 1..Len(refs)
  BY <1>1, <1>2, RefsAreTraces DEF LoadError, IsList
<1>4. DOMAIN run.prompts = {RefId(refs[i]) : i \in DOMAIN refs}
  BY <1>2, <1>3 DEF Sound
<1>5. run.manifest # Torn =>
          /\ run.manifest.trace_ids = DOMAIN run.prompts
          /\ run.manifest.total_traces = Cardinality(DOMAIN run.prompts)
  <2>1. AllTraceIds = DOMAIN run.prompts
    BY <1>4 DEF AllTraceIds, ToSet
  <2>2. ManifestOf(e).trace_ids = AllTraceIds /\ ManifestOf(e).total_traces = Cardinality(AllTraceIds)
    BY DEF ManifestOf
  <2> QED BY <1>2, <2>1, <2>2
<1>6. ASSUME NEW id \in DOMAIN run.prompts
      PROVE  \/ LateWriteErrors /\ faults > 0 /\ run.prompts[id] = Torn
             \/ \E i \in DOMAIN refs : Made(id, i)
  <2>1. CASE \E i \in 1..Len(refs) : RefId(refs[i]) = id /\ run.prompts[id] \in WantedOf(e)[i]
    <3>1. PICK i \in 1..Len(refs) : RefId(refs[i]) = id /\ run.prompts[id] \in WantedOf(e)[i]
      BY <2>1
    <3>2. run.prompts[id] = Prompt(InPlace(template[e].lines, PayloadOf(refs[i])))
      BY <3>1 DEF WantedOf, Wanted
    <3> QED BY <1>3, <3>1, <3>2
  <2>2. \/ LateWriteErrors /\ faults > 0 /\ run.prompts[id] = Torn
        \/ \E i \in 1..Len(refs) : RefId(refs[i]) = id /\ run.prompts[id] \in WantedOf(e)[i]
    BY <1>2 DEF Sound
  <2> QED BY <2>1, <2>2
<1> QED BY <1>4, <1>5, <1>6 DEF PublishedRunIsWhole

(* A run directory that can be seen has a prompt for each trace, each its  *)
(* template filled in place, and a manifest that lists them (exportPrompts *)
(* 5 to 8, renderPrompt).                                                  *)
THEOREM PublishedRunsAreWhole == Spec => []PublishedRunIsWhole
<1>1. ExportInv /\ WholeInv => PublishedRunIsWhole
  BY WholeMeans
<1>2. Spec => []ExportInv
  BY ExportTypeCorrect, PTL
<1> QED BY <1>1, <1>2, WholeInit, WholeStep, PTL DEF Spec

----------------------------------------------------------------------------
(* Blinding                                                                *)

(* A key that is not cut from an object is projected the same.             *)
LEMMA ProjectWithout ==
    ASSUME NEW o, NEW keys, NEW allowed, keys \cap allowed = {}
    PROVE  Project(Without(o, keys), allowed) = Project(o, allowed)
<1>1. CASE ~IsObject(o)
  BY <1>1 DEF Without
<1>2. CASE IsObject(o)
  <2> DEFINE cut == [k \in DOMAIN o.object \ keys |-> o.object[k]]
             w == Without(o, keys)
  <2>1. w = Object(cut)
    BY <1>2 DEF Without
  <2>2. IsObject(w) /\ w.object = cut
    BY <2>1 DEF IsObject, Object
  <2>3. DOMAIN w.object \cap allowed = DOMAIN o.object \cap allowed
    BY <2>2
  <2>4. \A k \in DOMAIN o.object \cap allowed : w.object[k] = o.object[k]
    BY <2>2
  <2>5. Kept(w, allowed) = [k \in DOMAIN w.object \cap allowed |-> w.object[k]]
    BY <2>2 DEF Kept
  <2>6. Kept(o, allowed) = [k \in DOMAIN o.object \cap allowed |-> o.object[k]]
    BY <1>2 DEF Kept
  <2>7. Kept(w, allowed) = Kept(o, allowed)
    <3> HIDE DEF w, cut
    <3> QED BY <2>3, <2>4, <2>5, <2>6
  <2> QED BY <2>7 DEF Project
<1> QED BY <1>1, <1>2

(* What a file that was blinded still holds.                               *)
Gone == {"diagnoses", "verification_results", "meta"}
Replaced == {"reasoning_traces", "candidate_solutions", "test_cases", "problem"}
OwnSolutions(doc, trace) ==
    LET solutions == ItemsOf(doc, "candidate_solutions")
    IN  {i \in DOMAIN solutions : /\ HasType(solutions[i], "trace_id", {"string"})
                                  /\ TextOf(solutions[i], "trace_id") = TextOf(trace, "id")}

BlindsAs(blind, doc, trace) ==
    LET solutions == ItemsOf(doc, "candidate_solutions")
        tests == ItemsOf(doc, "test_cases")
        own == OwnSolutions(doc, trace)
    IN  /\ IsObject(blind) /\ DOMAIN blind.object = DOMAIN doc.object \ Gone
        /\ \A k \in DOMAIN blind.object \ Replaced : blind.object[k] = doc.object[k]
        /\ "reasoning_traces" \in DOMAIN doc.object =>
              blind.object["reasoning_traces"] = Array(<<Without(trace, ForbiddenKeys)>>)
        /\ "candidate_solutions" \in DOMAIN doc.object =>
              blind.object["candidate_solutions"] =
                  Array(IF own = {} THEN <<>> ELSE <<solutions[Min(own)]>>)
        /\ "test_cases" \in DOMAIN doc.object =>
              blind.object["test_cases"] =
                  Array([i \in DOMAIN tests |-> Without(tests[i], {"notes"})])
        /\ "problem" \in DOMAIN doc.object =>
              blind.object["problem"] = Without(SubObject(doc, "problem"), {"notes"})

LEMMA BlindedFile == ASSUME NEW doc, NEW trace PROVE BlindsAs(Blinded(doc, trace), doc, trace)
<1> DEFINE solutions == ItemsOf(doc, "candidate_solutions")
           tests == ItemsOf(doc, "test_cases")
           own == OwnSolutions(doc, trace)
           t == Array(<<Without(trace, ForbiddenKeys)>>)
           c == Array(IF own = {} THEN <<>> ELSE <<solutions[Min(own)]>>)
           u == Array([i \in DOMAIN tests |-> Without(tests[i], {"notes"})])
           p == Without(SubObject(doc, "problem"), {"notes"})
           replaced == [reasoning_traces |-> t, candidate_solutions |-> c, test_cases |-> u,
                        problem |-> p]
           f == [k \in DOMAIN doc.object \ Gone |->
                     IF k \in DOMAIN replaced THEN replaced[k] ELSE doc.object[k]]
<1>1. Blinded(doc, trace) = Object(f)
  BY DEF Blinded, OwnSolutions, Gone
<1>2. IsObject(Object(f)) /\ Object(f).object = f
  BY DEF IsObject, Object
<1> HIDE DEF t, c, u, p
<1>3. DOMAIN replaced = Replaced
  BY DEF Replaced
<1>4. /\ DOMAIN f = DOMAIN doc.object \ Gone
      /\ \A k \in DOMAIN f \ Replaced : f[k] = doc.object[k]
      /\ \A k \in DOMAIN f \cap Replaced : f[k] = replaced[k]
  BY <1>3
<1>5. /\ replaced["reasoning_traces"] = t /\ replaced["candidate_solutions"] = c
      /\ replaced["test_cases"] = u /\ replaced["problem"] = p
  OBVIOUS
<1> HIDE DEF f, replaced
<1>6. /\ "reasoning_traces" \in DOMAIN doc.object => f["reasoning_traces"] = t
      /\ "candidate_solutions" \in DOMAIN doc.object => f["candidate_solutions"] = c
      /\ "test_cases" \in DOMAIN doc.object => f["test_cases"] = u
      /\ "problem" \in DOMAIN doc.object => f["problem"] = p
  BY <1>4, <1>5 DEF Gone, Replaced
<1> USE DEF t, c, u, p
<1> HIDE DEF solutions, tests, own
<1>7. BlindsAs(Object(f), doc, trace)
  <2> DEFINE blind == Object(f)
  <2>1. IsObject(blind) /\ blind.object = f
    BY <1>2
  <2> HIDE DEF blind, t, c, u, p
  <2>2. /\ IsObject(blind) /\ DOMAIN blind.object = DOMAIN doc.object \ Gone
        /\ \A k \in DOMAIN blind.object \ Replaced : blind.object[k] = doc.object[k]
        /\ "reasoning_traces" \in DOMAIN doc.object => blind.object["reasoning_traces"] = t
        /\ "candidate_solutions" \in DOMAIN doc.object => blind.object["candidate_solutions"] = c
        /\ "test_cases" \in DOMAIN doc.object => blind.object["test_cases"] = u
        /\ "problem" \in DOMAIN doc.object => blind.object["problem"] = p
    BY <1>4, <1>6, <2>1
  <2>3. BlindsAs(blind, doc, trace)
    BY <2>2, Zenon DEF BlindsAs, t, c, u, p, solutions, tests, own
  <2> QED BY <2>3 DEF blind
<1> QED BY <1>1, <1>7, Zenon

(* The candidate solution that a blinded file gives.                       *)
LEMMA BlindedCandidate ==
    ASSUME NEW doc, NEW trace, HasType(trace, "id", {"string"}),
           IsSequence(ItemsOf(doc, "candidate_solutions"))
    PROVE  Candidate(Blinded(doc, trace), Without(trace, ForbiddenKeys)) = Candidate(doc, trace)
<1> DEFINE blind == Blinded(doc, trace)
           cut == Without(trace, ForbiddenKeys)
           solutions == ItemsOf(doc, "candidate_solutions")
           own == OwnSolutions(doc, trace)
           left == ItemsOf(blind, "candidate_solutions")
           blindOwn == OwnSolutions(blind, cut)
<1>1. /\ Candidate(doc, trace) =
             IF own = {} THEN Null ELSE Project(solutions[Min(own)], SolutionKeys)
      /\ Candidate(blind, cut) =
             IF blindOwn = {} THEN Null ELSE Project(left[Min(blindOwn)], SolutionKeys)
  BY DEF Candidate, OwnSolutions
<1>2. TextOf(cut, "id") = TextOf(trace, "id")
  <2>1. IsObject(trace) /\ "id" \in DOMAIN trace.object \ ForbiddenKeys
    BY DEF HasType, Has, ForbiddenKeys
  <2>2. IsObject(cut) /\ "id" \in DOMAIN cut.object /\ cut.object["id"] = trace.object["id"]
    BY <2>1 DEF Without, Object, IsObject
  <2> HIDE DEF cut
  <2> QED BY <2>1, <2>2 DEF TextOf, HasType, Has, Get
<1>3. left = IF own = {} THEN <<>> ELSE <<solutions[Min(own)]>>
  <2>1. CASE "candidate_solutions" \in DOMAIN doc.object
    <3> DEFINE q == IF own = {} THEN <<>> ELSE <<solutions[Min(own)]>>
    <3>0. "candidate_solutions" \in DOMAIN doc.object \ Gone
      BY <2>1 DEF Gone
    <3>1. /\ IsObject(blind) /\ "candidate_solutions" \in DOMAIN blind.object
          /\ blind.object["candidate_solutions"] = Array(q)
      BY <2>1, <3>0, BlindedFile, Zenon DEF BlindsAs
    <3> HIDE DEF q, blind
    <3>2. left = q
      BY <3>1 DEF ItemsOf, HasType, Has, Get, Array
    <3> QED BY <3>2 DEF q
  <2>2. CASE "candidate_solutions" \notin DOMAIN doc.object
    <3>1. solutions = <<>>
      BY <2>2 DEF ItemsOf, HasType, Has
    <3>2. own = {}
      BY <3>1 DEF OwnSolutions
    <3>3. "candidate_solutions" \notin DOMAIN blind.object
      BY <2>2, BlindedFile DEF BlindsAs
    <3>4. left = <<>>
      <4> HIDE DEF blind
      <4> QED BY <3>3 DEF ItemsOf, HasType, Has
    <3> QED BY <3>2, <3>4
  <2> QED BY <2>1, <2>2
<1>4. blindOwn = {i \in DOMAIN left : /\ HasType(left[i], "trace_id", {"string"})
                                      /\ TextOf(left[i], "trace_id") = TextOf(trace, "id")}
  BY <1>2 DEF OwnSolutions
<1>5. own = {i \in DOMAIN solutions : /\ HasType(solutions[i], "trace_id", {"string"})
                                      /\ TextOf(solutions[i], "trace_id") = TextOf(trace, "id")}
  BY DEF OwnSolutions
<1> HIDE DEF blind, cut, left, own, blindOwn, solutions
<1>6. CASE own = {}
  <2>1. left = <<>>
    BY <1>3, <1>6
  <2>2. blindOwn = {}
    BY <1>4, <2>1
  <2> QED BY <1>1, <1>6, <2>2 DEF blind, cut
<1>7. CASE own # {}
  <2> DEFINE m == Min(own)
  <2>1. m \in own
    <3>1. DOMAIN solutions \subseteq Nat
      BY DEF IsSequence, solutions
    <3>2. own \in SUBSET Nat
      BY <1>5, <3>1
    <3> QED BY <1>7, <3>2, NatMin
  <2>2. left = <<solutions[m]>>
    BY <1>3, <1>7
  <2>3. HasType(solutions[m], "trace_id", {"string"})
        /\ TextOf(solutions[m], "trace_id") = TextOf(trace, "id")
    BY <1>5, <2>1
  <2> HIDE DEF m
  <2>4. DOMAIN left = {1} /\ left[1] = solutions[m]
    BY <2>2
  <2>5. blindOwn = {1}
    BY <1>4, <2>3, <2>4
  <2>6. Min(blindOwn) = 1
    <3>1. Min(blindOwn) \in blindOwn
      BY <2>5, NatMin
    <3> QED BY <2>5, <3>1
  <2> QED BY <1>1, <1>7, <2>4, <2>5, <2>6 DEF m, blind, cut
<1> QED BY <1>6, <1>7

(* A prompt is made of nothing that blinding cuts.                         *)
LEMMA BlindProjection ==
    ASSUME NEW doc, NEW trace, HasType(trace, "id", {"string"}),
           HasType(doc, "problem", {"object"}), HasType(doc, "reasoning_traces", {"array"}),
           IsSequence(ItemsOf(doc, "candidate_solutions"))
    PROVE  LET blind == Blinded(doc, trace)
           IN  ProjectTraceInput(blind, ItemsOf(blind, "reasoning_traces")[1])
                   = ProjectTraceInput(doc, trace)
<1> DEFINE blind == Blinded(doc, trace)
           cut == Without(trace, ForbiddenKeys)
           tests == ItemsOf(doc, "test_cases")
           testsLeft == ItemsOf(blind, "test_cases")
<1>0. /\ IsObject(doc) /\ {"problem", "reasoning_traces"} \subseteq DOMAIN doc.object
      /\ DOMAIN doc.object["problem"] \subseteq {"object"}
  BY DEF HasType, Has
<1>1. /\ IsObject(blind) /\ DOMAIN blind.object = DOMAIN doc.object \ Gone
      /\ \A k \in DOMAIN blind.object \ Replaced : blind.object[k] = doc.object[k]
      /\ blind.object["reasoning_traces"] = Array(<<cut>>)
      /\ "test_cases" \in DOMAIN doc.object =>
            blind.object["test_cases"] =
                Array([i \in DOMAIN tests |-> Without(tests[i], {"notes"})])
      /\ blind.object["problem"] = Without(SubObject(doc, "problem"), {"notes"})
  <2>1. BlindsAs(blind, doc, trace)
    BY BlindedFile, Zenon
  <2> HIDE DEF blind
  <2> QED BY <1>0, <2>1 DEF BlindsAs
<1>2. Candidate(blind, cut) = Candidate(doc, trace)
  BY BlindedCandidate
<1>3. Project(cut, TraceKeys) = Project(trace, TraceKeys)
  BY ProjectWithout DEF ForbiddenKeys, TraceKeys
<1> HIDE DEF blind, cut
<1>4. ItemsOf(blind, "reasoning_traces")[1] = cut
  BY <1>0, <1>1 DEF ItemsOf, HasType, Has, Get, Array, Gone
<1>5. Kept(blind, ReferenceKeys) = Kept(doc, ReferenceKeys)
  <2>1. ReferenceKeys \cap (Gone \cup Replaced) = {}
    BY DEF ReferenceKeys, Gone, Replaced
  <2>2. DOMAIN blind.object \cap ReferenceKeys = DOMAIN doc.object \cap ReferenceKeys
    BY <1>1, <2>1
  <2>3. \A k \in DOMAIN doc.object \cap ReferenceKeys : blind.object[k] = doc.object[k]
    BY <1>1, <2>1
  <2> QED BY <1>0, <1>1, <2>2, <2>3 DEF Kept
<1>6. SubObject(blind, "reference_verdict") = SubObject(doc, "reference_verdict")
  BY <1>0, <1>1 DEF SubObject, HasType, Has, Get, Gone, Replaced
<1>7. [i \in DOMAIN testsLeft |-> Project(testsLeft[i], TestKeys)]
          = [i \in DOMAIN tests |-> Project(tests[i], TestKeys)]
  <2>1. CASE "test_cases" \in DOMAIN doc.object
    <3> DEFINE q == [i \in DOMAIN tests |-> Without(tests[i], {"notes"})]
    <3>1. testsLeft = q
      <4>1. /\ IsObject(blind) /\ "test_cases" \in DOMAIN blind.object
            /\ blind.object["test_cases"] = Array(q)
        BY <1>1, <2>1 DEF Gone
      <4> HIDE DEF q
      <4> QED BY <4>1 DEF ItemsOf, HasType, Has, Get, Array
    <3>2. \A i \in DOMAIN tests :
              Project(Without(tests[i], {"notes"}), TestKeys) = Project(tests[i], TestKeys)
      BY ProjectWithout DEF TestKeys
    <3> HIDE DEF testsLeft, tests
    <3> QED BY <3>1, <3>2
  <2>2. CASE "test_cases" \notin DOMAIN doc.object
    <3>1. tests = <<>> /\ testsLeft = <<>>
      BY <1>1, <2>2 DEF ItemsOf, HasType, Has
    <3> HIDE DEF testsLeft, tests
    <3> QED BY <3>1
  <2> QED BY <2>1, <2>2
<1>8. /\ HasType(blind, "problem", {"object"})
      /\ Project(Get(blind, "problem"), ProblemKeys) = Project(Get(doc, "problem"), ProblemKeys)
  <2> DEFINE problem == Get(doc, "problem")
  <2>1. SubObject(doc, "problem") = problem
    BY DEF SubObject
  <2>2. Get(blind, "problem") = Without(problem, {"notes"}) /\ Has(blind, "problem")
    BY <1>0, <1>1, <2>1 DEF Get, Has, Gone
  <2>3. DOMAIN Without(problem, {"notes"}) \subseteq {"object"}
    <3>1. DOMAIN problem \subseteq {"object"}
      BY <1>0 DEF Get
    <3> HIDE DEF problem
    <3> QED BY <3>1 DEF Without, Object
  <2>4. Project(Without(problem, {"notes"}), ProblemKeys) = Project(problem, ProblemKeys)
    BY ProjectWithout DEF ProblemKeys
  <2> HIDE DEF problem
  <2> QED BY <2>2, <2>3, <2>4 DEF HasType, Get, problem
<1>9. ProjectTraceInput(blind, cut) = ProjectTraceInput(doc, trace)
  <2> HIDE DEF testsLeft, tests
  <2> QED BY <1>2, <1>3, <1>5, <1>6, <1>7, <1>8 DEF ProjectTraceInput, testsLeft, tests
<1> QED BY <1>4, <1>9 DEF blind

LEMMA SectionsAreParts ==
    ASSUME NEW doc, NEW trace, NEW s \in ToSet(Sections)
    PROVE  ProjectTraceInput(doc, trace).object[s] \in Parts(ProjectTraceInput(doc, trace))
<1> DEFINE payload == ProjectTraceInput(doc, trace)
<1>1. ToSet(Sections) = {"problem", "reference_verdict", "test_cases", "reasoning_trace",
                         "candidate_solution"}
  BY DEF ToSet, Sections
<1>2. IsObject(payload) /\ s \in DOMAIN payload.object
  BY <1>1 DEF ProjectTraceInput, Object, IsObject
<1> HIDE DEF payload
<1> QED BY <1>2 DEF Parts, payload

(* What stands in a prompt is what passed the audit, or words of the       *)
(* template.                                                               *)
LEMMA InPlaceIsAudited ==
    ASSUME NEW doc, NEW trace, NEW lines \in Seq(Lines),
           ~LeaksStructurally(ProjectTraceInput(doc, trace)),
           NEW p \in ToSet(InPlace(lines, ProjectTraceInput(doc, trace))), "json" \in DOMAIN p
    PROVE  KeysWithin(p.json) \cap ForbiddenKeys = {}
<1> DEFINE payload == ProjectTraceInput(doc, trace)
           body == BodyOf(lines)
           text == InPlace(lines, payload)
<1>1. body \in Seq(Lines)
  BY BodyIsText
<1>2. text = [i \in DOMAIN body |-> IF "hole" \in DOMAIN body[i]
                                     THEN [json |-> payload.object[body[i].hole]] ELSE body[i]]
  BY DEF InPlace
<1> HIDE DEF payload, body, text
<1>3. PICK i \in DOMAIN body : p = text[i]
  BY <1>2 DEF ToSet, text, payload
<1>4. body[i] \in Lines
  BY <1>1, <1>3, ElementOfSeq, LenProperties
<1>5. PICK s \in ToSet(Sections) : body[i] = Hole(s)
  <2>1. CASE body[i] \in {Words, Begin, End}
    <3>1. "hole" \notin DOMAIN body[i] /\ "json" \notin DOMAIN body[i]
      BY <2>1 DEF Words, Begin, End
    <3> QED BY <1>2, <1>3, <3>1
  <2> QED BY <1>4, <2>1 DEF Lines
<1>6. p = [json |-> payload.object[s]]
  <2>1. "hole" \in DOMAIN body[i] /\ body[i].hole = s
    BY <1>5 DEF Hole
  <2> QED BY <1>2, <1>3, <2>1
<1>7. payload.object[s] \in Parts(payload)
  BY SectionsAreParts DEF payload
<1>8. \A v \in Parts(payload) : KeysWithin(v) \cap ForbiddenKeys = {}
  BY DEF LeaksStructurally, payload
<1> QED BY <1>6, <1>7, <1>8

LEMMA WholeHidesGold ==
    ASSUME ExportInv, WholeInv
    PROVE  NoGoldInPrompt
<1> SUFFICES ASSUME run # Absent PROVE NoGoldInPrompt
  BY DEF NoGoldInPrompt
<1> DEFINE e == run.by
           refs == Refs
<1>1. e \in Exporters /\ data \in Datasets
  BY DEF ExportInv, TypeOK
<1>2. /\ LoadError(e) = "ok" /\ CollectError = "ok"
      /\ Sound(Refs, WantedOf(e), run.prompts, Len(Refs), faults)
  BY <1>1 DEF WholeInv, RunInv, Published
<1>3. /\ Len(refs) \in Nat /\ DOMAIN refs = 1..Len(refs)
      /\ \A i \in DOMAIN refs : IsTraceRef(refs[i])
  BY <1>1, <1>2, RefsAreTraces DEF LoadError, IsList
<1>4. template[e].lines \in Seq(Lines)
  BY <1>1, ExporterAssumption DEF WholeInv
<1>5. ASSUME NEW i \in DOMAIN refs, run.prompts[RefId(refs[i])] # Torn,
             {j \in DOMAIN refs : RefId(refs[j]) = RefId(refs[i])} = {i},
             HasType(ProblemFile(refs[i].problem).loaded, "problem", {"object"})
      PROVE  LET ref == refs[i]
                 doc == ProblemFile(ref.problem).loaded
                 prompt == run.prompts[RefId(ref)]
                 blind == Blinded(doc, ref.trace)
             IN  /\ prompt.text = InPlace(template[e].lines,
                              ProjectTraceInput(blind, ItemsOf(blind, "reasoning_traces")[1]))
                 /\ \A p \in ToSet(prompt.text) :
                       "json" \in DOMAIN p => KeysWithin(p.json) \cap ForbiddenKeys = {}
  <2> DEFINE ref == refs[i]
             doc == ProblemFile(ref.problem).loaded
             payload == ProjectTraceInput(doc, ref.trace)
             blind == Blinded(doc, ref.trace)
             prompt == run.prompts[RefId(ref)]
  <2>1. PICK j \in 1..Len(refs) : RefId(refs[j]) = RefId(ref) /\ prompt \in WantedOf(e)[j]
    <3>1. RefId(ref) \in DOMAIN run.prompts
      BY <1>2, <1>3 DEF Sound
    <3> QED BY <1>2, <1>5, <3>1 DEF Sound
  <2>2. j = i
    BY <1>3, <1>5, <2>1
  <2>3. prompt \in Wanted(e, ref)
    BY <2>1, <2>2 DEF WantedOf
  <2>4. ~LeaksStructurally(payload) /\ prompt = Prompt(InPlace(template[e].lines, payload))
    BY <2>3 DEF Wanted, PayloadOf
  <2>5. prompt.text = InPlace(template[e].lines, payload)
    BY <2>4 DEF Prompt
  <2>6. ProjectTraceInput(blind, ItemsOf(blind, "reasoning_traces")[1]) = payload
    <3>1. IsTraceRef(ref)
      BY <1>3
    <3>2. /\ HasType(ref.trace, "id", {"string"}) /\ HasType(doc, "reasoning_traces", {"array"})
          /\ ref.problem \in DOMAIN data.files /\ IsLoaded(ProblemFile(ref.problem))
      BY <3>1 DEF IsTraceRef, HasTraces
    <3>3. IsSequence(ItemsOf(doc, "candidate_solutions"))
      BY <1>1, <3>2, ListsAreSequences DEF ProblemFile
    <3>4. HasType(doc, "problem", {"object"})
      BY <1>5
    <3> HIDE DEF ref, doc
    <3> QED BY <3>2, <3>3, <3>4, BlindProjection, Zenon
  <2>7. \A p \in ToSet(InPlace(template[e].lines, payload)) :
            "json" \in DOMAIN p => KeysWithin(p.json) \cap ForbiddenKeys = {}
    <3> HIDE DEF doc, ref
    <3> QED BY <1>4, <2>4, InPlaceIsAudited
  <2> HIDE DEF prompt, payload, blind, doc, ref
  <2>8. /\ prompt.text = InPlace(template[e].lines,
                   ProjectTraceInput(blind, ItemsOf(blind, "reasoning_traces")[1]))
        /\ \A p \in ToSet(prompt.text) :
              "json" \in DOMAIN p => KeysWithin(p.json) \cap ForbiddenKeys = {}
    BY <2>5, <2>6, <2>7
  <2> QED BY <2>8 DEF prompt, payload, blind, doc, ref
<1> HIDE DEF refs
<1> QED BY <1>5, Zenon DEF NoGoldInPrompt, refs

(* No key that the audit forbids is in a published prompt, and the prompt  *)
(* is the one that the file gives without gold, reviews, notes, other      *)
(* traces and other solutions (projectTraceInput, auditStructuralLeakage). *)
THEOREM PromptsHideGold == Spec => []NoGoldInPrompt
<1>1. ExportInv /\ WholeInv => NoGoldInPrompt
  BY WholeHidesGold
<1>2. Spec => []ExportInv
  BY ExportTypeCorrect, PTL
<1> QED BY <1>1, <1>2, WholeInit, WholeStep, PTL DEF Spec

----------------------------------------------------------------------------
(* What validate reports of one file                                       *)

NoFieldFault(ds) == \A d \in ds : d[1] \notin LocalCodes

LEMMA FieldCodes ==
    {"E_DATA_DIR_NOT_FOUND", "E_MANIFEST_NOT_FOUND", "E_PROBLEMS_DIR_NOT_FOUND", "E_FILE_READ",
     "E_JSON_PARSE", "E_MISSING_KEY", "E_TYPE_MISMATCH", "E_INVALID_ENUM", "E_VERSION_MISMATCH",
     "E_REVIEW_STATUS_SEMANTIC", "E_UNCALIBRATED_CONFIDENCE", "E_UNEXPECTED_VERIFICATION_RESULT"}
        = LocalCodes
BY DEF LocalCodes

LEMMA WhenIs ==
    ASSUME NEW c, NEW code
    PROVE  /\ When(c, code) \subseteq {code}
           /\ c => When(c, code) = {code}
           /\ ~c => When(c, code) = {}
BY DEF When

LEMMA AtIs ==
    ASSUME NEW codes, NEW file, NEW id
    PROVE  /\ NoFieldFault(At(codes, file, id)) <=> codes \cap LocalCodes = {}
           /\ At(codes, file, id) = {} <=> codes = {}
<1>1. \A c \in codes : <<c, file, id>> \in At(codes, file, id) /\ <<c, file, id>>[1] = c
  BY DEF At
<1>2. \A d \in At(codes, file, id) : d[1] \in codes
  BY DEF At
<1> QED BY <1>1, <1>2 DEF NoFieldFault

LEMMA CheckIsLocal ==
    ASSUME NEW o, NEW schema
    PROVE  /\ Check(o, schema) \subseteq LocalCodes
           /\ \A fields : Required(o, fields) \subseteq LocalCodes
<1>1. ASSUME NEW fields PROVE Required(o, fields) \subseteq LocalCodes
  <2> DEFINE codes(r) == CASE ~Has(o, r[1]) -> {"E_MISSING_KEY"}
                           [] HasType(o, r[1], r[2]) -> {}
                           [] OTHER -> {"E_TYPE_MISMATCH"}
  <2>1. \A r \in fields : codes(r) \subseteq {"E_MISSING_KEY", "E_TYPE_MISMATCH"}
    OBVIOUS
  <2>2. Required(o, fields) = UNION {codes(r) : r \in fields}
    BY DEF Required
  <2> HIDE DEF codes
  <2> QED BY <2>1, <2>2, FieldCodes
<1>2. /\ Optional(o, schema.optional) \subseteq {"E_TYPE_MISMATCH"}
      /\ StringLists(o, schema.lists) \subseteq {"E_TYPE_MISMATCH"}
      /\ Limited(o, schema.enums) \subseteq {"E_INVALID_ENUM"}
  BY DEF Optional, StringLists, Limited, When
<1> QED BY <1>1, <1>2, FieldCodes DEF Check

(* What a record without a fault in its fields is.                         *)
LEMMA CheckedIsTyped ==
    ASSUME NEW o, NEW schema, Check(o, schema) = {}
    PROVE  /\ \A k, types : <<k, types>> \in schema.required => HasType(o, k, types)
           /\ \A k \in schema.lists : \A v \in ToSet(ItemsOf(o, k)) : DOMAIN v = {"string"}
           /\ \A k \in DOMAIN schema.enums :
                 HasType(o, k, {"string"}) => TextOf(o, k) \in schema.enums[k]
<1>1. /\ Required(o, schema.required) = {} /\ StringLists(o, schema.lists) = {}
      /\ Limited(o, schema.enums) = {}
  BY DEF Check
<1>2. \A k \in schema.lists : \A v \in ToSet(ItemsOf(o, k)) : DOMAIN v = {"string"}
  BY <1>1 DEF StringLists, When
<1>3. \A k \in DOMAIN schema.enums :
         HasType(o, k, {"string"}) => TextOf(o, k) \in schema.enums[k]
  BY <1>1 DEF Limited, When
<1>4. ASSUME NEW k, NEW types, <<k, types>> \in schema.required PROVE HasType(o, k, types)
  <2> DEFINE codes(r) == CASE ~Has(o, r[1]) -> {"E_MISSING_KEY"}
                           [] HasType(o, r[1], r[2]) -> {}
                           [] OTHER -> {"E_TYPE_MISMATCH"}
  <2>1. codes(<<k, types>>) \subseteq Required(o, schema.required)
    <3>1. Required(o, schema.required) = UNION {codes(r) : r \in schema.required}
      BY DEF Required
    <3> HIDE DEF codes
    <3> QED BY <1>4, <3>1
  <2>2. ~HasType(o, k, types) => codes(<<k, types>>) # {}
    OBVIOUS
  <2> QED BY <1>1, <2>1, <2>2
<1> QED BY <1>2, <1>3, <1>4

LEMMA SchemaKeys ==
    /\ \A key \in {"test_cases", "reasoning_traces", "candidate_solutions", "diagnoses",
                   "verification_results"} : <<key, {"array"}>> \in FileSchema.required
    /\ \A key \in {"meta", "problem", "reference_verdict"} :
          <<key, {"object"}>> \in FileSchema.required
    /\ \A k \in VersionKeys : <<k, {"string"}>> \in MetaSchema.required
    /\ <<"id", {"string"}>> \in ProblemSchema.required
    /\ <<"problem_id", {"string"}>> \in TraceSchema.required
    /\ <<"review_status", {"string"}>> \in TraceSchema.required
    /\ <<"problem_id", {"string"}>> \in TestSchema.required
    /\ <<"status", {"string"}>> \in DiagnosisSchema.required
    /\ <<"findings", {"array"}>> \in DiagnosisSchema.required
    /\ "status" \in DOMAIN DiagnosisSchema.enums /\ DiagnosisSchema.enums["status"] = Statuses
    /\ <<"category", {"string"}>> \in FindingSchema.required
    /\ "category" \in DOMAIN FindingSchema.enums /\ FindingSchema.enums["category"] = Categories
<1> USE DEF Schema, Strings, Arrays, Objects, Fields
<1>1. /\ \A key \in {"test_cases", "reasoning_traces", "candidate_solutions", "diagnoses",
                     "verification_results"} : <<key, {"array"}>> \in FileSchema.required
      /\ \A key \in {"meta", "problem", "reference_verdict"} :
            <<key, {"object"}>> \in FileSchema.required
  BY DEF FileSchema
<1>2. /\ <<"id", {"string"}>> \in ProblemSchema.required
      /\ \A k \in VersionKeys : <<k, {"string"}>> \in MetaSchema.required
  BY DEF ProblemSchema, MetaSchema
<1>3. /\ <<"problem_id", {"string"}>> \in TraceSchema.required
      /\ <<"review_status", {"string"}>> \in TraceSchema.required
  BY DEF TraceSchema
<1>4. <<"problem_id", {"string"}>> \in TestSchema.required
  BY DEF TestSchema
<1>5. /\ <<"status", {"string"}>> \in DiagnosisSchema.required
      /\ <<"findings", {"array"}>> \in DiagnosisSchema.required
      /\ "status" \in DOMAIN DiagnosisSchema.enums /\ DiagnosisSchema.enums["status"] = Statuses
  BY DEF DiagnosisSchema
<1>6. /\ <<"category", {"string"}>> \in FindingSchema.required
      /\ "category" \in DOMAIN FindingSchema.enums /\ FindingSchema.enums["category"] = Categories
  BY DEF FindingSchema
<1> QED BY <1>1, <1>2, <1>3, <1>4, <1>5, <1>6

(* The records that phase 2 can rely on.                                   *)
TraceIsTyped(t) ==
    /\ HasType(t, "problem_id", {"string"}) /\ HasType(t, "review_status", {"string"})
    /\ \A s \in ToSet(ItemsOf(t, "steps")) : IsObject(s)
TestIsTyped(tc) == HasType(tc, "problem_id", {"string"})
DiagnosisIsTyped(dg) ==
    /\ HasType(dg, "findings", {"array"}) /\ TextOf(dg, "status") \in Statuses
    /\ \A f \in ToSet(ItemsOf(dg, "findings")) : IsObject(f) /\ TextOf(f, "category") \in Categories

LEMMA AllObjects ==
    ASSUME NEW o, NEW key, NonObjects(o, key) \cap LocalCodes = {}
    PROVE  /\ \A e \in ToSet(ItemsOf(o, key)) : IsObject(e)
           /\ NonObjects(o, key) = {}
           /\ ObjectsOf(o, key) = ToSet(ItemsOf(o, key))
<1>1. \A e \in ToSet(ItemsOf(o, key)) : IsObject(e)
  BY FieldCodes DEF NonObjects, When
<1> QED BY <1>1 DEF NonObjects, When, ObjectsOf

LEMMA ReviewIsLocal ==
    ASSUME NEW o
    PROVE  ReviewCodes(o) \subseteq LocalCodes
BY WhenIs, FieldCodes DEF ReviewCodes

(* Apart from faults in fields, a record is wrong only if it is of another *)
(* problem.                                                                *)
LEMMA TraceFaults ==
    ASSUME NEW t, NEW pid, TraceCodes(t, pid) \cap LocalCodes = {}
    PROVE  TraceIsTyped(t) /\ (TraceCodes(t, pid) = {} <=> ~Elsewhere(t, pid))
<1> DEFINE ofStep(s) == Check(s, StepSchema)
                        \cup When(HasType(s, "text", {"string"}) /\ TextOf(s, "text") = "",
                                  "E_TYPE_MISMATCH")
           ofSteps == UNION {ofStep(s) : s \in ObjectsOf(t, "steps")}
           foreign == When(Elsewhere(t, pid), "E_BAD_PROBLEM_FK")
<1>1. TraceCodes(t, pid) = Check(t, TraceSchema) \cup ReviewCodes(t) \cup NonObjects(t, "steps")
                           \cup foreign \cup ofSteps
  BY DEF TraceCodes
<1>2. \A s : ofStep(s) \subseteq LocalCodes
  BY CheckIsLocal, WhenIs, FieldCodes
<1>3. ofSteps \subseteq LocalCodes
  <2> HIDE DEF ofStep
  <2> QED BY <1>2
<1> HIDE DEF ofSteps
<1>4. Check(t, TraceSchema) = {} /\ ReviewCodes(t) = {} /\ NonObjects(t, "steps") = {} /\ ofSteps = {}
  BY <1>1, <1>3, CheckIsLocal, ReviewIsLocal, AllObjects
<1>5. TraceIsTyped(t)
  BY <1>4, CheckedIsTyped, SchemaKeys, AllObjects DEF TraceIsTyped
<1>6. TraceCodes(t, pid) = {} <=> foreign = {}
  BY <1>1, <1>4
<1> QED BY <1>5, <1>6, WhenIs

LEMMA SolutionFaults ==
    ASSUME NEW sol, NEW pid, SolutionCodes(sol, pid) \cap LocalCodes = {}
    PROVE  SolutionCodes(sol, pid) = {}
BY CheckIsLocal DEF SolutionCodes

LEMMA TestFaults ==
    ASSUME NEW tc, NEW pid, TestCodes(tc, pid) \cap LocalCodes = {}
    PROVE  TestIsTyped(tc) /\ (TestCodes(tc, pid) = {} <=> ~Elsewhere(tc, pid))
<1> DEFINE foreign == When(Elsewhere(tc, pid), "E_BAD_TEST_FK")
           empty == When(HasType(tc, "input", {"string"}) /\ TextOf(tc, "input") = "", "E_TYPE_MISMATCH")
<1>1. TestCodes(tc, pid) = Check(tc, TestSchema) \cup foreign \cup empty
  BY DEF TestCodes
<1>2. empty \subseteq LocalCodes
  BY WhenIs, FieldCodes
<1>3. Check(tc, TestSchema) = {} /\ empty = {}
  BY <1>1, <1>2, CheckIsLocal
<1>4. TestIsTyped(tc)
  BY <1>3, CheckedIsTyped, SchemaKeys DEF TestIsTyped
<1>5. TestCodes(tc, pid) = {} <=> foreign = {}
  BY <1>1, <1>3
<1> QED BY <1>4, <1>5, WhenIs

LEMMA DiagnosisFaults ==
    ASSUME NEW dg, NEW pid, DiagnosisCodes(dg, pid) \cap LocalCodes = {}
    PROVE  DiagnosisIsTyped(dg) /\ DiagnosisCodes(dg, pid) = {}
<1> DEFINE ofFinding(f) == Check(f, FindingSchema)
           ofFindings == UNION {ofFinding(f) : f \in ObjectsOf(dg, "findings")}
           calibrated == When(\E k \in ConfidenceKeys : Has(dg, k) /\ ~HasType(dg, k, {"null"}),
                              "E_UNCALIBRATED_CONFIDENCE")
<1>1. DiagnosisCodes(dg, pid) = Check(dg, DiagnosisSchema) \cup NonObjects(dg, "findings")
                                \cup calibrated \cup ofFindings
  BY DEF DiagnosisCodes
<1>2. calibrated \subseteq LocalCodes
  BY WhenIs, FieldCodes
<1>3. ofFindings \subseteq LocalCodes
  BY CheckIsLocal
<1> HIDE DEF ofFindings, calibrated
<1>4. /\ Check(dg, DiagnosisSchema) = {} /\ NonObjects(dg, "findings") = {}
      /\ calibrated = {} /\ ofFindings = {}
  BY <1>1, <1>2, <1>3, CheckIsLocal, AllObjects
<1>5. ObjectsOf(dg, "findings") = ToSet(ItemsOf(dg, "findings"))
      /\ \A f \in ToSet(ItemsOf(dg, "findings")) : IsObject(f)
  BY <1>4, AllObjects
<1>6. \A f \in ToSet(ItemsOf(dg, "findings")) : Check(f, FindingSchema) = {}
  BY <1>4, <1>5 DEF ofFindings
<1>7. \A f \in ToSet(ItemsOf(dg, "findings")) : TextOf(f, "category") \in Categories
  BY <1>6, CheckedIsTyped, SchemaKeys
<1>8. HasType(dg, "findings", {"array"}) /\ TextOf(dg, "status") \in Statuses
  BY <1>4, CheckedIsTyped, SchemaKeys
<1> QED BY <1>1, <1>4, <1>5, <1>7, <1>8 DEF DiagnosisIsTyped

LEMMA NothingRequired ==
    ASSUME NEW o, NEW fields, Required(o, fields) = {}
    PROVE  \A k, types : <<k, types>> \in fields => HasType(o, k, types)
<1> SUFFICES ASSUME NEW k, NEW types, <<k, types>> \in fields PROVE HasType(o, k, types)
  OBVIOUS
<1> DEFINE codes(r) == CASE ~Has(o, r[1]) -> {"E_MISSING_KEY"}
                         [] HasType(o, r[1], r[2]) -> {}
                         [] OTHER -> {"E_TYPE_MISMATCH"}
<1>1. codes(<<k, types>>) \subseteq Required(o, fields)
  <2>1. Required(o, fields) = UNION {codes(r) : r \in fields}
    BY DEF Required
  <2> HIDE DEF codes
  <2> QED BY <2>1
<1>2. ~HasType(o, k, types) => codes(<<k, types>>) # {}
  OBVIOUS
<1> QED BY <1>1, <1>2

LEMMA ProblemFaults ==
    ASSUME NEW problem, NEW stem, NEW known, ProblemCodes(problem, stem, known) \cap LocalCodes = {}
    PROVE  /\ HasType(problem, "id", {"string"})
           /\ ProblemCodes(problem, stem, known) = {} <=>
                  TextOf(problem, "id") \notin known /\ TextOf(problem, "id") = stem
<1>1. Check(problem, ProblemSchema) = {}
  BY CheckIsLocal DEF ProblemCodes
<1>2. HasType(problem, "id", {"string"})
  BY <1>1, CheckedIsTyped, SchemaKeys
<1>3. ProblemCodes(problem, stem, known)
         = When(TextOf(problem, "id") \in known, "E_DUPLICATE_ID")
           \cup When(TextOf(problem, "id") # stem, "E_PROBLEM_ID_FILE_MISMATCH")
  BY <1>1, <1>2 DEF ProblemCodes
<1> QED BY <1>2, <1>3 DEF When

LEMMA VerdictFaults ==
    ASSUME NEW rv, NEW pid, VerdictCodes(rv, pid) \cap LocalCodes = {}
    PROVE  VerdictCodes(rv, pid) = {} <=> ~(TextOf(rv, "problem_id") # "" /\ Elsewhere(rv, pid))
<1>1. Check(rv, VerdictSchema) = {}
  BY CheckIsLocal DEF VerdictCodes
<1>2. VerdictCodes(rv, pid)
         = When(TextOf(rv, "problem_id") # "" /\ Elsewhere(rv, pid), "E_BAD_PROBLEM_FK")
  BY <1>1 DEF VerdictCodes
<1> QED BY <1>2 DEF When

(* The versions of a file, as far as they are compared.                    *)
IsVersioned(meta, manifest) ==
    \A k \in VersionKeys : TextOf(manifest, k) \in {"", TextOf(meta, k)}

LEMMA MetaFaults ==
    ASSUME NEW meta, NEW manifest
    PROVE  /\ MetaCodes(meta, manifest) \subseteq LocalCodes
           /\ MetaCodes(meta, manifest) = {} => IsVersioned(meta, manifest)
<1>1. MetaCodes(meta, manifest) \subseteq LocalCodes
  BY CheckIsLocal, FieldCodes DEF MetaCodes, When
<1>2. ASSUME MetaCodes(meta, manifest) = {} PROVE IsVersioned(meta, manifest)
  <2>1. Check(meta, MetaSchema) = {}
    BY <1>2 DEF MetaCodes
  <2>2. \A k \in VersionKeys : HasType(meta, k, {"string"})
    BY <2>1, CheckedIsTyped, SchemaKeys
  <2> QED BY <1>2, <2>2 DEF MetaCodes, When, IsVersioned
<1> QED BY <1>1, <1>2

LEMMA VerificationFaults ==
    ASSUME NEW doc, VerificationCodes(doc) \cap LocalCodes = {}
    PROVE  VerificationCodes(doc) = {} /\ ItemsOf(doc, "verification_results") = <<>>
<1> DEFINE results == ItemsOf(doc, "verification_results")
           ofResults == UNION {Check(vr, VerificationSchema) : vr \in ObjectsOf(doc, "verification_results")}
<1>1. VerificationCodes(doc) = When(results # <<>>, "E_UNEXPECTED_VERIFICATION_RESULT") \cup ofResults
  BY DEF VerificationCodes
<1>2. ofResults \subseteq LocalCodes
  BY CheckIsLocal
<1> HIDE DEF ofResults, results
<1>3. results = <<>>
  BY <1>1, FieldCodes DEF When
<1> QED BY <1>1, <1>2, <1>3 DEF When, results

LEMMA AllIdentified ==
    ASSUME NEW doc, NEW key, Unidentified(doc, key) \cap LocalCodes = {}
    PROVE  /\ Unidentified(doc, key) = {}
           /\ \A e \in ToSet(ItemsOf(doc, key)) : HasId(e)
           /\ Entries(doc, key) = DOMAIN ItemsOf(doc, key)
<1> DEFINE codes(e) == IF IsObject(e) THEN Required(e, Strings({"id"})) ELSE {"E_TYPE_MISMATCH"}
           items == ItemsOf(doc, key)
<1>1. \A e : codes(e) \subseteq LocalCodes
  BY CheckIsLocal, FieldCodes
<1>2. Unidentified(doc, key) = UNION {codes(e) : e \in ToSet(items)}
  BY DEF Unidentified
<1>3. Unidentified(doc, key) = {} /\ \A e \in ToSet(items) : codes(e) = {}
  <2> HIDE DEF codes
  <2> QED BY <1>1, <1>2
<1>4. ASSUME NEW e \in ToSet(items) PROVE HasId(e)
  <2>1. IsObject(e) /\ Required(e, Strings({"id"})) = {}
    BY <1>3, <1>4
  <2>2. <<"id", {"string"}>> \in Strings({"id"})
    BY DEF Strings, Fields
  <2>3. HasType(e, "id", {"string"})
    BY <2>1, <2>2, NothingRequired
  <2> QED BY <2>1, <2>3 DEF HasId
<1>5. \A i \in DOMAIN items : HasId(items[i])
  BY <1>4 DEF ToSet
<1>6. Entries(doc, key) = DOMAIN items
  BY <1>5 DEF Entries
<1> QED BY <1>3, <1>4, <1>6

(* The diagnostics of a section of records, and its ids.                   *)
EarlierIds(doc, key, i) ==
    {TextOf(ItemsOf(doc, key)[j], "id") : j \in {k \in DOMAIN ItemsOf(doc, key) : k < i}}
IdsAreNew(doc, key, known) ==
    \A i \in DOMAIN ItemsOf(doc, key) :
       TextOf(ItemsOf(doc, key)[i], "id") \notin known \cup EarlierIds(doc, key, i)

(* The diagnostics of one record, and of a section.                        *)
PartOf(doc, key, stem, known, codes, i) ==
    LET earlier == {TextOf(ItemsOf(doc, key)[j], "id") : j \in {k \in Entries(doc, key) : k < i}}
    IN  At(codes \cup When(TextOf(ItemsOf(doc, key)[i], "id") \in known \cup earlier, "E_DUPLICATE_ID"),
           stem, TextOf(ItemsOf(doc, key)[i], "id"))

SectionDiagsAre(ds, doc, key, stem, known, codes) ==
    \A d : d \in ds <=> \/ d \in At(Unidentified(doc, key), stem, "")
                        \/ \E i \in Entries(doc, key) : d \in PartOf(doc, key, stem, known, codes[i], i)

LEMMA RecordFaults ==
    ASSUME NEW ds, NEW doc, NEW key, NEW stem, NEW known, NEW codes,
           SectionDiagsAre(ds, doc, key, stem, known, codes), NoFieldFault(ds)
    PROVE  /\ \A e \in ToSet(ItemsOf(doc, key)) : HasId(e)
           /\ Entries(doc, key) = DOMAIN ItemsOf(doc, key)
           /\ \A i \in DOMAIN ItemsOf(doc, key) : codes[i] \cap LocalCodes = {}
           /\ ds = {} <=> /\ \A i \in DOMAIN ItemsOf(doc, key) : codes[i] = {}
                          /\ IdsAreNew(doc, key, known)
<1> DEFINE items == ItemsOf(doc, key)
<1>0. PICK parts : parts = [i \in Entries(doc, key) |-> PartOf(doc, key, stem, known, codes[i], i)]
  OBVIOUS
<1>1. PICK none : none = At(Unidentified(doc, key), stem, "")
  OBVIOUS
<1>2. \A d : d \in ds <=> d \in none \/ \E i \in Entries(doc, key) : d \in parts[i]
  <2>1. \A i \in Entries(doc, key) : parts[i] = PartOf(doc, key, stem, known, codes[i], i)
    BY <1>0
  <2> QED BY <1>1, <2>1 DEF SectionDiagsAre
<1>3. NoFieldFault(none) /\ \A i \in Entries(doc, key) : NoFieldFault(parts[i])
  BY <1>2 DEF NoFieldFault
<1>7. /\ Unidentified(doc, key) = {} /\ \A e \in ToSet(items) : HasId(e)
      /\ Entries(doc, key) = DOMAIN items /\ none = {}
  <2>1. Unidentified(doc, key) \cap LocalCodes = {} /\ (none = {} <=> Unidentified(doc, key) = {})
    BY <1>1, <1>3, AtIs
  <2> QED BY <2>1, AllIdentified
<1>8. ds = {} <=> \A i \in DOMAIN items : parts[i] = {}
  <2> HIDE DEF items
  <2> QED BY <1>2, <1>7
<1>4. ASSUME NEW i \in DOMAIN items
      PROVE  /\ codes[i] \cap LocalCodes = {}
             /\ parts[i] = {} <=> codes[i] = {} /\ TextOf(items[i], "id") \notin known \cup EarlierIds(doc, key, i)
  <2> DEFINE id == TextOf(items[i], "id")
  <2>1. PICK dups : dups = When(id \in known \cup EarlierIds(doc, key, i), "E_DUPLICATE_ID")
    OBVIOUS
  <2>2. dups = {} <=> id \notin known \cup EarlierIds(doc, key, i)
    BY <2>1 DEF When
  <2>3. parts[i] = At(codes[i] \cup dups, stem, id) /\ NoFieldFault(parts[i])
    BY <1>0, <1>3, <1>4, <1>7, <2>1 DEF EarlierIds, PartOf
  <2>4. (codes[i] \cup dups) \cap LocalCodes = {} /\ (parts[i] = {} <=> codes[i] \cup dups = {})
    <3> HIDE DEF id
    <3>1. PICK all : all = codes[i] \cup dups
      OBVIOUS
    <3>2. parts[i] = At(all, stem, id) /\ NoFieldFault(At(all, stem, id))
      BY <2>3, <3>1
    <3>3. all \cap LocalCodes = {} /\ (At(all, stem, id) = {} <=> all = {})
      BY <3>2, AtIs
    <3> QED BY <3>1, <3>2, <3>3
  <2> HIDE DEF id
  <2> QED BY <2>2, <2>4 DEF id
<1>5. IdsAreNew(doc, key, known) <=>
         \A i \in DOMAIN items : TextOf(items[i], "id") \notin known \cup EarlierIds(doc, key, i)
  BY DEF IdsAreNew
<1> HIDE DEF items
<1>6. ds = {} <=> (\A i \in DOMAIN items : codes[i] = {}) /\ IdsAreNew(doc, key, known)
  BY <1>4, <1>5, <1>8
<1> QED BY <1>4, <1>6, <1>7 DEF items

SectionDiags(doc, key, stem, known, pid, Codes(_, _)) ==
    At(Unidentified(doc, key), stem, "") \cup
    UNION {PartOf(doc, key, stem, known, Codes(ItemsOf(doc, key)[i], pid), i) : i \in Entries(doc, key)}

Records(doc, key) == ToSet(ItemsOf(doc, key))

LEMMA TraceSection ==
    ASSUME NEW doc, NEW stem, NEW known, NEW pid, NEW ds, NEW codes,
           codes = [i \in Entries(doc, "reasoning_traces") |->
                    TraceCodes(ItemsOf(doc, "reasoning_traces")[i], pid)],
           SectionDiagsAre(ds, doc, "reasoning_traces", stem, known, codes),
           NoFieldFault(ds)
    PROVE  /\ \A t \in Records(doc, "reasoning_traces") : HasId(t) /\ TraceIsTyped(t)
           /\ ds = {} <=> /\ \A t \in Records(doc, "reasoning_traces") : ~Elsewhere(t, pid)
                          /\ IdsAreNew(doc, "reasoning_traces", known)
<1> DEFINE items == ItemsOf(doc, "reasoning_traces")
           entries == Entries(doc, "reasoning_traces")
<1>4. /\ \A e \in ToSet(items) : HasId(e)
      /\ entries = DOMAIN items
      /\ \A i \in DOMAIN items : codes[i] \cap LocalCodes = {}
      /\ ds = {} <=> (\A i \in DOMAIN items : codes[i] = {}) /\ IdsAreNew(doc, "reasoning_traces", known)
  BY RecordFaults
<1>5. ASSUME NEW i \in DOMAIN items
      PROVE  TraceIsTyped(items[i]) /\ (codes[i] = {} <=> ~Elsewhere(items[i], pid))
  <2>1. codes[i] = TraceCodes(items[i], pid) /\ codes[i] \cap LocalCodes = {}
    BY <1>4
  <2> HIDE DEF items
  <2> QED BY <2>1, TraceFaults
<1>6. /\ Records(doc, "reasoning_traces") = {items[i] : i \in DOMAIN items}
      /\ ToSet(items) = Records(doc, "reasoning_traces")
  BY DEF Records, ToSet
<1> HIDE DEF items
<1> QED BY <1>4, <1>5, <1>6

LEMMA SolutionSection ==
    ASSUME NEW doc, NEW stem, NEW known, NEW pid, NEW ds, NEW codes,
           codes = [i \in Entries(doc, "candidate_solutions") |->
                    SolutionCodes(ItemsOf(doc, "candidate_solutions")[i], pid)],
           SectionDiagsAre(ds, doc, "candidate_solutions", stem, known, codes),
           NoFieldFault(ds)
    PROVE  /\ \A sol \in Records(doc, "candidate_solutions") : HasId(sol)
           /\ ds = {} <=> IdsAreNew(doc, "candidate_solutions", known)
<1> DEFINE items == ItemsOf(doc, "candidate_solutions")
           entries == Entries(doc, "candidate_solutions")
<1>4. /\ \A e \in ToSet(items) : HasId(e)
      /\ entries = DOMAIN items
      /\ \A i \in DOMAIN items : codes[i] \cap LocalCodes = {}
      /\ ds = {} <=> (\A i \in DOMAIN items : codes[i] = {}) /\ IdsAreNew(doc, "candidate_solutions", known)
  BY RecordFaults
<1>5. ASSUME NEW i \in DOMAIN items
      PROVE  codes[i] = {}
  <2>1. codes[i] = SolutionCodes(items[i], pid) /\ codes[i] \cap LocalCodes = {}
    BY <1>4
  <2> HIDE DEF items
  <2> QED BY <2>1, SolutionFaults
<1>6. /\ Records(doc, "candidate_solutions") = {items[i] : i \in DOMAIN items}
      /\ ToSet(items) = Records(doc, "candidate_solutions")
  BY DEF Records, ToSet
<1> HIDE DEF items
<1> QED BY <1>4, <1>5, <1>6

LEMMA TestSection ==
    ASSUME NEW doc, NEW stem, NEW known, NEW pid, NEW ds, NEW codes,
           codes = [i \in Entries(doc, "test_cases") |-> TestCodes(ItemsOf(doc, "test_cases")[i], pid)],
           SectionDiagsAre(ds, doc, "test_cases", stem, known, codes),
           NoFieldFault(ds)
    PROVE  /\ \A tc \in Records(doc, "test_cases") : HasId(tc) /\ TestIsTyped(tc)
           /\ ds = {} <=> /\ \A tc \in Records(doc, "test_cases") : ~Elsewhere(tc, pid)
                          /\ IdsAreNew(doc, "test_cases", known)
<1> DEFINE items == ItemsOf(doc, "test_cases")
           entries == Entries(doc, "test_cases")
<1>4. /\ \A e \in ToSet(items) : HasId(e)
      /\ entries = DOMAIN items
      /\ \A i \in DOMAIN items : codes[i] \cap LocalCodes = {}
      /\ ds = {} <=> (\A i \in DOMAIN items : codes[i] = {}) /\ IdsAreNew(doc, "test_cases", known)
  BY RecordFaults
<1>5. ASSUME NEW i \in DOMAIN items
      PROVE  TestIsTyped(items[i]) /\ (codes[i] = {} <=> ~Elsewhere(items[i], pid))
  <2>1. codes[i] = TestCodes(items[i], pid) /\ codes[i] \cap LocalCodes = {}
    BY <1>4
  <2> HIDE DEF items
  <2> QED BY <2>1, TestFaults
<1>6. Records(doc, "test_cases") = {items[i] : i \in DOMAIN items} /\ ToSet(items) = Records(doc, "test_cases")
  BY DEF Records, ToSet
<1> HIDE DEF items
<1> QED BY <1>4, <1>5, <1>6

LEMMA DiagnosisSection ==
    ASSUME NEW doc, NEW stem, NEW known, NEW pid, NEW ds, NEW codes,
           codes = [i \in Entries(doc, "diagnoses") |-> DiagnosisCodes(ItemsOf(doc, "diagnoses")[i], pid)],
           SectionDiagsAre(ds, doc, "diagnoses", stem, known, codes),
           NoFieldFault(ds)
    PROVE  /\ \A dg \in Records(doc, "diagnoses") : HasId(dg) /\ DiagnosisIsTyped(dg)
           /\ ds = {} <=> IdsAreNew(doc, "diagnoses", known)
<1> DEFINE items == ItemsOf(doc, "diagnoses")
           entries == Entries(doc, "diagnoses")
<1>4. /\ \A e \in ToSet(items) : HasId(e)
      /\ entries = DOMAIN items
      /\ \A i \in DOMAIN items : codes[i] \cap LocalCodes = {}
      /\ ds = {} <=> (\A i \in DOMAIN items : codes[i] = {}) /\ IdsAreNew(doc, "diagnoses", known)
  BY RecordFaults
<1>5. ASSUME NEW i \in DOMAIN items
      PROVE  DiagnosisIsTyped(items[i]) /\ codes[i] = {}
  <2>1. codes[i] = DiagnosisCodes(items[i], pid) /\ codes[i] \cap LocalCodes = {}
    BY <1>4
  <2> HIDE DEF items
  <2> QED BY <2>1, DiagnosisFaults
<1>6. Records(doc, "diagnoses") = {items[i] : i \in DOMAIN items} /\ ToSet(items) = Records(doc, "diagnoses")
  BY DEF Records, ToSet
<1> HIDE DEF items
<1> QED BY <1>4, <1>5, <1>6

(* A document whose fields are all right.                                  *)
Keys == {"reasoning_traces", "candidate_solutions", "test_cases", "diagnoses"}
IsTyped(doc) ==
    /\ \A key \in Keys : HasType(doc, key, {"array"}) /\ \A e \in Records(doc, key) : HasId(e)
    /\ ItemsOf(doc, "verification_results") = <<>>
    /\ HasType(Section(doc, "problem"), "id", {"string"})
    /\ \A t \in Records(doc, "reasoning_traces") : TraceIsTyped(t)
    /\ \A tc \in Records(doc, "test_cases") : TestIsTyped(tc)
    /\ \A dg \in Records(doc, "diagnoses") : DiagnosisIsTyped(dg)

(* What else phase 1 looks at.                                             *)
FileAgrees(doc, stem) ==
    LET pid == TextOf(Section(doc, "problem"), "id")
        rv == Section(doc, "reference_verdict")
    IN  /\ pid \notin index.problems /\ pid = stem
        /\ ~(TextOf(rv, "problem_id") # "" /\ Elsewhere(rv, pid))
        /\ \A r \in Records(doc, "reasoning_traces") \cup Records(doc, "test_cases") : ~Elsewhere(r, pid)
        /\ IdsAreNew(doc, "reasoning_traces", Ids(index.traces))
        /\ IdsAreNew(doc, "candidate_solutions", Ids(index.solutions))
        /\ IdsAreNew(doc, "test_cases", Ids(index.tests))
        /\ IdsAreNew(doc, "diagnoses", Ids(index.diagnoses))

LEMMA FileFaults ==
    ASSUME NEW doc, NEW stem, NEW manifest, NoFieldFault(FileDiags(doc, stem, manifest))
    PROVE  /\ IsTyped(doc) /\ IsVersioned(Section(doc, "meta"), manifest)
           /\ FileDiags(doc, stem, manifest) = {} <=> FileAgrees(doc, stem)
<1> DEFINE problem == Section(doc, "problem")
           pid == TextOf(problem, "id")
           rv == Section(doc, "reference_verdict")
           shape == At(Check(doc, FileSchema), stem, "")
           ofMeta == IF HasSection(doc, "meta")
                     THEN At(MetaCodes(Section(doc, "meta"), manifest), stem, "") ELSE {}
           ofProblem == IF HasSection(doc, "problem")
                        THEN At(ProblemCodes(problem, stem, index.problems), stem, pid) ELSE {}
           ofVerdict == IF HasSection(doc, "reference_verdict")
                        THEN At(VerdictCodes(rv, pid), stem, "") ELSE {}
           ofResults == At(VerificationCodes(doc), stem, "")
<1>1. PICK traces : traces = SectionDiags(doc, "reasoning_traces", stem, Ids(index.traces), pid, TraceCodes)
  OBVIOUS
<1>2. PICK solutions :
         solutions = SectionDiags(doc, "candidate_solutions", stem, Ids(index.solutions), pid, SolutionCodes)
  OBVIOUS
<1>3. PICK tests : tests = SectionDiags(doc, "test_cases", stem, Ids(index.tests), pid, TestCodes)
  OBVIOUS
<1>4. PICK diagnoses :
         diagnoses = SectionDiags(doc, "diagnoses", stem, Ids(index.diagnoses), pid, DiagnosisCodes)
  OBVIOUS
<1>5. PICK ds, m, p, v :
         /\ ds = FileDiags(doc, stem, manifest) /\ m = ofMeta /\ p = ofProblem /\ v = ofVerdict
         /\ ds = UNION {shape, m, p, v, traces, solutions, tests, ofResults, diagnoses}
  <2>1. FileDiags(doc, stem, manifest)
           = UNION {shape, ofMeta, ofProblem, ofVerdict,
                    SectionDiags(doc, "reasoning_traces", stem, Ids(index.traces), pid, TraceCodes),
                    SectionDiags(doc, "candidate_solutions", stem, Ids(index.solutions), pid, SolutionCodes),
                    SectionDiags(doc, "test_cases", stem, Ids(index.tests), pid, TestCodes),
                    ofResults,
                    SectionDiags(doc, "diagnoses", stem, Ids(index.diagnoses), pid, DiagnosisCodes)}
    BY DEF FileDiags, SectionDiags, PartOf
  <2>2. PICK ds, m, p, v : ds = FileDiags(doc, stem, manifest) /\ m = ofMeta /\ p = ofProblem /\ v = ofVerdict
    OBVIOUS
  <2>3. ds = UNION {shape, m, p, v, traces, solutions, tests, ofResults, diagnoses}
    <3> HIDE DEF shape, ofMeta, ofProblem, ofVerdict, ofResults
    <3> QED BY <1>1, <1>2, <1>3, <1>4, <2>1, <2>2, Zenon
  <2> HIDE DEF shape, ofMeta, ofProblem, ofVerdict, ofResults
  <2> QED BY <2>2, <2>3
<1> HIDE DEF ofMeta, ofProblem, ofVerdict
<1>6. NoFieldFault(ds)
  BY <1>5
<1>7. \A part \in {shape, m, p, v, traces, solutions, tests, ofResults, diagnoses} : NoFieldFault(part)
  BY <1>5, <1>6 DEF NoFieldFault
<1>8. Check(doc, FileSchema) = {} /\ shape = {}
  <2>1. NoFieldFault(shape)
    BY <1>7
  <2>2. Check(doc, FileSchema) \cap LocalCodes = {} /\ (shape = {} <=> Check(doc, FileSchema) = {})
    BY <2>1, AtIs
  <2>3. Check(doc, FileSchema) \subseteq LocalCodes
    BY CheckIsLocal
  <2> HIDE DEF shape
  <2> QED BY <2>2, <2>3
<1>9. /\ \A key \in Keys : HasType(doc, key, {"array"})
      /\ HasSection(doc, "meta") /\ HasSection(doc, "problem") /\ HasSection(doc, "reference_verdict")
  BY <1>8, CheckedIsTyped, SchemaKeys DEF Keys, HasSection
<1>10. m = {} /\ IsVersioned(Section(doc, "meta"), manifest)
  <2>1. m = At(MetaCodes(Section(doc, "meta"), manifest), stem, "")
    BY <1>5, <1>9 DEF ofMeta
  <2>2. NoFieldFault(At(MetaCodes(Section(doc, "meta"), manifest), stem, ""))
    BY <1>7, <2>1
  <2>3. /\ MetaCodes(Section(doc, "meta"), manifest) \cap LocalCodes = {}
        /\ m = {} <=> MetaCodes(Section(doc, "meta"), manifest) = {}
    BY <2>1, <2>2, AtIs
  <2>4. MetaCodes(Section(doc, "meta"), manifest) \subseteq LocalCodes
    BY MetaFaults
  <2>5. MetaCodes(Section(doc, "meta"), manifest) = {}
    BY <2>3, <2>4
  <2> QED BY <2>3, <2>5, MetaFaults
<1>11. HasType(problem, "id", {"string"}) /\ (p = {} <=> pid \notin index.problems /\ pid = stem)
  <2>1. p = At(ProblemCodes(problem, stem, index.problems), stem, pid)
    BY <1>5, <1>9 DEF ofProblem
  <2>2. NoFieldFault(At(ProblemCodes(problem, stem, index.problems), stem, pid))
    BY <1>7, <2>1
  <2>3. /\ ProblemCodes(problem, stem, index.problems) \cap LocalCodes = {}
        /\ p = {} <=> ProblemCodes(problem, stem, index.problems) = {}
    BY <2>1, <2>2, AtIs
  <2> HIDE DEF problem
  <2> QED BY <2>3, ProblemFaults
<1>12. v = {} <=> ~(TextOf(rv, "problem_id") # "" /\ Elsewhere(rv, pid))
  <2>1. v = At(VerdictCodes(rv, pid), stem, "")
    BY <1>5, <1>9 DEF ofVerdict
  <2>2. NoFieldFault(At(VerdictCodes(rv, pid), stem, ""))
    BY <1>7, <2>1
  <2>3. VerdictCodes(rv, pid) \cap LocalCodes = {} /\ (v = {} <=> VerdictCodes(rv, pid) = {})
    BY <2>1, <2>2, AtIs
  <2> QED BY <2>3, VerdictFaults
<1>13. ofResults = {} /\ ItemsOf(doc, "verification_results") = <<>>
  BY <1>7, AtIs, VerificationFaults
<1>14. /\ \A t \in Records(doc, "reasoning_traces") : HasId(t) /\ TraceIsTyped(t)
       /\ traces = {} <=> /\ \A t \in Records(doc, "reasoning_traces") : ~Elsewhere(t, pid)
                          /\ IdsAreNew(doc, "reasoning_traces", Ids(index.traces))
  <2>1. PICK codes : codes = [i \in Entries(doc, "reasoning_traces") |->
                                 TraceCodes(ItemsOf(doc, "reasoning_traces")[i], pid)]
    OBVIOUS
  <2>2. SectionDiagsAre(traces, doc, "reasoning_traces", stem, Ids(index.traces), codes)
    BY <1>1, <2>1 DEF SectionDiags, SectionDiagsAre
  <2> QED BY <1>7, <2>1, <2>2, TraceSection
<1>15. /\ \A sol \in Records(doc, "candidate_solutions") : HasId(sol)
       /\ solutions = {} <=> IdsAreNew(doc, "candidate_solutions", Ids(index.solutions))
  <2>1. PICK codes : codes = [i \in Entries(doc, "candidate_solutions") |->
                                 SolutionCodes(ItemsOf(doc, "candidate_solutions")[i], pid)]
    OBVIOUS
  <2>2. SectionDiagsAre(solutions, doc, "candidate_solutions", stem, Ids(index.solutions), codes)
    BY <1>2, <2>1 DEF SectionDiags, SectionDiagsAre
  <2> QED BY <1>7, <2>1, <2>2, SolutionSection
<1>16. /\ \A tc \in Records(doc, "test_cases") : HasId(tc) /\ TestIsTyped(tc)
       /\ tests = {} <=> /\ \A tc \in Records(doc, "test_cases") : ~Elsewhere(tc, pid)
                         /\ IdsAreNew(doc, "test_cases", Ids(index.tests))
  <2>1. PICK codes : codes = [i \in Entries(doc, "test_cases") |->
                                 TestCodes(ItemsOf(doc, "test_cases")[i], pid)]
    OBVIOUS
  <2>2. SectionDiagsAre(tests, doc, "test_cases", stem, Ids(index.tests), codes)
    BY <1>3, <2>1 DEF SectionDiags, SectionDiagsAre
  <2> QED BY <1>7, <2>1, <2>2, TestSection
<1>17. /\ \A dg \in Records(doc, "diagnoses") : HasId(dg) /\ DiagnosisIsTyped(dg)
       /\ diagnoses = {} <=> IdsAreNew(doc, "diagnoses", Ids(index.diagnoses))
  <2>1. PICK codes : codes = [i \in Entries(doc, "diagnoses") |->
                                 DiagnosisCodes(ItemsOf(doc, "diagnoses")[i], pid)]
    OBVIOUS
  <2>2. SectionDiagsAre(diagnoses, doc, "diagnoses", stem, Ids(index.diagnoses), codes)
    BY <1>4, <2>1 DEF SectionDiags, SectionDiagsAre
  <2> QED BY <1>7, <2>1, <2>2, DiagnosisSection
<1> HIDE DEF shape, ofResults
<1>18. ds = {} <=> p = {} /\ v = {} /\ traces = {} /\ solutions = {} /\ tests = {} /\ diagnoses = {}
  BY <1>5, <1>8, <1>10, <1>13
<1>19. FileAgrees(doc, stem) <=> p = {} /\ v = {} /\ traces = {} /\ solutions = {} /\ tests = {} /\ diagnoses = {}
  BY <1>11, <1>12, <1>14, <1>15, <1>16, <1>17 DEF FileAgrees
<1>20. IsTyped(doc)
  BY <1>9, <1>11, <1>13, <1>14, <1>15, <1>16, <1>17 DEF IsTyped, Keys
<1> QED BY <1>5, <1>10, <1>18, <1>19, <1>20

----------------------------------------------------------------------------
(* Phase 1: the index, and the agreement of the files read so far          *)

ItemsIn(key, f) == ItemsOf(data.files[f].loaded, key)
PlacesOf(key, S) == {p \in Places(key) : p[1] \in S}
IdsDiffer(key, S) ==
    \A p, q \in PlacesOf(key, S) : FieldAt(key, p, "id") = FieldAt(key, q, "id") => p = q
HasItsFields(f) ==
    /\ IsLoaded(data.files[f]) /\ IsTyped(data.files[f].loaded)
    /\ IsVersioned(Section(data.files[f].loaded, "meta"), Manifest)

LEMMA PlaceIs ==
    ASSUME NEW key, NEW S
    PROVE  \A p : p \in PlacesOf(key, S) <=>
                  \E f \in DOMAIN data.files : f \in S /\ \E i \in DOMAIN ItemsIn(key, f) : p = <<f, i>>
BY DEF PlacesOf, Places, ItemsIn

LEMMA MorePlaces ==
    ASSUME NEW key, NEW S, NEW stem \in DOMAIN data.files, stem \notin S
    PROVE  /\ PlacesOf(key, S \cup {stem}) = PlacesOf(key, S) \cup ({stem} \X DOMAIN ItemsIn(key, stem))
           /\ PlacesOf(key, S) \cap ({stem} \X DOMAIN ItemsIn(key, stem)) = {}
           /\ \A p \in {stem} \X DOMAIN ItemsIn(key, stem) :
                 p[1] = stem /\ RecordAt(key, p) = ItemsIn(key, stem)[p[2]]
<1> DEFINE new == {stem} \X DOMAIN ItemsIn(key, stem)
<1>1. \A p : p \in new <=> \E i \in DOMAIN ItemsIn(key, stem) : p = <<stem, i>>
  OBVIOUS
<1>2. \A p : p \in PlacesOf(key, S \cup {stem}) <=> p \in PlacesOf(key, S) \/ p \in new
  <2> HIDE DEF new
  <2> QED BY <1>1, PlaceIs
<1>3. \A p \in new : p[1] = stem
  OBVIOUS
<1>4. \A p \in PlacesOf(key, S) : p[1] \in S
  BY DEF PlacesOf
<1>5. \A p \in new : RecordAt(key, p) = ItemsIn(key, stem)[p[2]]
  BY <1>3 DEF RecordAt, ItemsIn
<1> HIDE DEF new
<1> QED BY <1>2, <1>3, <1>4, <1>5 DEF new

LEMMA MoreRecords ==
    ASSUME NEW key, NEW S, NEW stem \in DOMAIN data.files, stem \notin S,
           NEW old, NEW new, NEW rec,
           old = [p \in PlacesOf(key, S) |-> rec[p]],
           new = [p \in DOMAIN old \cup ({stem} \X DOMAIN ItemsIn(key, stem)) |->
                     IF p \in DOMAIN old THEN old[p] ELSE rec[p]]
    PROVE  new = [p \in PlacesOf(key, S \cup {stem}) |-> rec[p]]
BY MorePlaces

(* What the index keeps of a file whose fields are right.                  *)
IndexAdds(x, doc, stem) ==
    /\ x.problems = index.problems \cup {TextOf(Section(doc, "problem"), "id")}
    /\ x.traceCount = index.traceCount + Len(ItemsOf(doc, "reasoning_traces"))
    /\ x.traces = [p \in DOMAIN index.traces \cup ({stem} \X DOMAIN ItemsOf(doc, "reasoning_traces")) |->
                     IF p \in DOMAIN index.traces THEN index.traces[p]
                     ELSE TraceRec(ItemsOf(doc, "reasoning_traces")[p[2]], stem)]
    /\ x.solutions = [p \in DOMAIN index.solutions \cup ({stem} \X DOMAIN ItemsOf(doc, "candidate_solutions")) |->
                     IF p \in DOMAIN index.solutions THEN index.solutions[p]
                     ELSE SolRec(ItemsOf(doc, "candidate_solutions")[p[2]], stem)]
    /\ x.tests = [p \in DOMAIN index.tests \cup ({stem} \X DOMAIN ItemsOf(doc, "test_cases")) |->
                     IF p \in DOMAIN index.tests THEN index.tests[p]
                     ELSE TestRec(ItemsOf(doc, "test_cases")[p[2]], stem)]
    /\ x.diagnoses = [p \in DOMAIN index.diagnoses \cup ({stem} \X DOMAIN ItemsOf(doc, "diagnoses")) |->
                     IF p \in DOMAIN index.diagnoses THEN index.diagnoses[p]
                     ELSE DiagRec(ItemsOf(doc, "diagnoses")[p[2]], stem)]
    /\ DOMAIN x.verifications = DOMAIN index.verifications

LEMMA WhatIsKept ==
    ASSUME NEW doc, NEW stem, IsTyped(doc)
    PROVE  IndexAdds(Extended(doc, stem), doc, stem)
<1>1. \A key \in Keys : Entries(doc, key) = DOMAIN ItemsOf(doc, key)
  BY DEF IsTyped, Entries, Records, ToSet
<1>2. /\ Entries(doc, "reasoning_traces") = DOMAIN ItemsOf(doc, "reasoning_traces")
      /\ Entries(doc, "candidate_solutions") = DOMAIN ItemsOf(doc, "candidate_solutions")
      /\ Entries(doc, "test_cases") = DOMAIN ItemsOf(doc, "test_cases")
      /\ Entries(doc, "diagnoses") = DOMAIN ItemsOf(doc, "diagnoses")
  BY <1>1 DEF Keys
<1>3. HasType(Section(doc, "problem"), "id", {"string"}) /\ ItemsOf(doc, "verification_results") = <<>>
  BY DEF IsTyped
<1>4. {i \in DOMAIN ItemsOf(doc, "verification_results") :
          IsObject(ItemsOf(doc, "verification_results")[i])} = {}
  BY <1>3
<1> QED BY <1>2, <1>3, <1>4 DEF Extended, IndexAdds

LEMMA MoreIdsDiffer ==
    ASSUME NEW key, NEW S, NEW stem \in DOMAIN data.files, stem \notin S,
           DOMAIN ItemsIn(key, stem) \subseteq Nat,
           NEW kept, DOMAIN kept = PlacesOf(key, S),
           \A p \in PlacesOf(key, S) : kept[p].id = FieldAt(key, p, "id")
    PROVE  IdsDiffer(key, S \cup {stem}) <=>
               IdsDiffer(key, S) /\ IdsAreNew(data.files[stem].loaded, key, Ids(kept))
<1> DEFINE items == ItemsIn(key, stem)
           new == {stem} \X DOMAIN items
           id(p) == FieldAt(key, p, "id")
           own(i) == TextOf(items[i], "id")
<1>1. Ids(kept) = {id(p) : p \in PlacesOf(key, S)}
  BY DEF Ids, ToSet
<1>2. /\ PlacesOf(key, S \cup {stem}) = PlacesOf(key, S) \cup new
      /\ PlacesOf(key, S) \cap new = {}
  <2>1. PlacesOf(key, S \cup {stem}) = PlacesOf(key, S) \cup ({stem} \X DOMAIN ItemsIn(key, stem))
    BY MorePlaces
  <2>2. PlacesOf(key, S) \cap ({stem} \X DOMAIN ItemsIn(key, stem)) = {}
    BY MorePlaces
  <2> QED BY <2>1, <2>2
<1>3. \A i \in DOMAIN items : <<stem, i>> \in new /\ id(<<stem, i>>) = own(i)
  <2>1. ASSUME NEW i \in DOMAIN items PROVE RecordAt(key, <<stem, i>>) = items[i]
    BY DEF RecordAt, ItemsIn
  <2>2. ASSUME NEW i \in DOMAIN items PROVE <<stem, i>> \in new
    OBVIOUS
  <2> QED BY <2>1, <2>2 DEF FieldAt
<1>4. \A p \in new : \E i \in DOMAIN items : p = <<stem, i>>
  OBVIOUS
<1>5. IdsAreNew(data.files[stem].loaded, key, Ids(kept)) <=>
         \A i \in DOMAIN items :
            /\ own(i) \notin Ids(kept)
            /\ \A j \in DOMAIN items : j < i => own(j) # own(i)
  BY DEF IdsAreNew, EarlierIds, ItemsIn
<1>6. \A i, j \in DOMAIN items : i # j => i < j \/ j < i
  <2> HIDE DEF items
  <2> QED BY DEF items
<1> HIDE DEF new, items, id, own
<1>7. ASSUME IdsDiffer(key, S \cup {stem})
      PROVE  IdsDiffer(key, S) /\ IdsAreNew(data.files[stem].loaded, key, Ids(kept))
  <2>1. IdsDiffer(key, S)
    BY <1>2, <1>7 DEF IdsDiffer
  <2>2. \A p, q \in PlacesOf(key, S) \cup new : id(p) = id(q) => p = q
    BY <1>2, <1>7 DEF IdsDiffer, id
  <2>3. ASSUME NEW i \in DOMAIN items PROVE own(i) \notin Ids(kept)
    <3>1. ASSUME NEW p \in PlacesOf(key, S) PROVE own(i) # id(p)
      <4>1. <<stem, i>> \in new /\ id(<<stem, i>>) = own(i)
        BY <1>3, <2>3
      <4>2. <<stem, i>> # p
        BY <1>2, <3>1, <4>1
      <4> QED BY <2>2, <3>1, <4>1, <4>2
    <3> QED BY <1>1, <3>1
  <2>4. ASSUME NEW i \in DOMAIN items, NEW j \in DOMAIN items, j < i PROVE own(j) # own(i)
    <3>1. i # j
      <4>1. i \in Nat
        BY DEF items
      <4> QED BY <2>4, <4>1
    <3>2. <<stem, i>> # <<stem, j>>
      BY <3>1
    <3> QED BY <1>3, <2>2, <3>2
  <2> QED BY <1>5, <2>1, <2>3, <2>4
<1>8. ASSUME IdsDiffer(key, S), IdsAreNew(data.files[stem].loaded, key, Ids(kept))
      PROVE  IdsDiffer(key, S \cup {stem})
  <2>1. /\ \A i \in DOMAIN items : own(i) \notin Ids(kept)
        /\ \A i, j \in DOMAIN items : i # j => own(i) # own(j)
    BY <1>5, <1>6, <1>8
  <2>2. ASSUME NEW p \in PlacesOf(key, S) \cup new, NEW q \in PlacesOf(key, S) \cup new, id(p) = id(q)
        PROVE  p = q
    <3>1. CASE p \in PlacesOf(key, S) /\ q \in PlacesOf(key, S)
      BY <1>8, <2>2, <3>1 DEF IdsDiffer, id
    <3>2. CASE p \in new /\ q \in new
      BY <1>3, <1>4, <2>1, <2>2, <3>2
    <3>3. CASE p \in PlacesOf(key, S) /\ q \in new
      BY <1>1, <1>3, <1>4, <2>1, <2>2, <3>3
    <3>4. CASE p \in new /\ q \in PlacesOf(key, S)
      BY <1>1, <1>3, <1>4, <2>1, <2>2, <3>4
    <3> QED BY <3>1, <3>2, <3>3, <3>4
  <2> QED BY <1>2, <2>2 DEF IdsDiffer, id
<1> QED BY <1>7, <1>8

(* The index after the files in S.                                         *)
IdOf(f) == TextOf(ProblemOf(f), "id")
IndexIs(x, S) ==
    /\ x.problems = {IdOf(f) : f \in S}
    /\ IsFiniteSet(PlacesOf("reasoning_traces", S))
    /\ x.traceCount = Cardinality(PlacesOf("reasoning_traces", S))
    /\ x.traces = [p \in PlacesOf("reasoning_traces", S) |->
                      TraceRec(RecordAt("reasoning_traces", p), p[1])]
    /\ x.solutions = [p \in PlacesOf("candidate_solutions", S) |->
                         SolRec(RecordAt("candidate_solutions", p), p[1])]
    /\ x.tests = [p \in PlacesOf("test_cases", S) |-> TestRec(RecordAt("test_cases", p), p[1])]
    /\ x.diagnoses = [p \in PlacesOf("diagnoses", S) |-> DiagRec(RecordAt("diagnoses", p), p[1])]
    /\ DOMAIN x.verifications = {}

(* The part of the contract that phase 1 checks, for the files in S.       *)
FilesAgree(S) ==
    \A f \in S : /\ IdOf(f) = f
                 /\ TextOf(Section(data.files[f].loaded, "reference_verdict"), "problem_id") \in {f, ""}
FieldsAgree(S) ==
    \A key \in {"reasoning_traces", "test_cases"} :
       \A p \in PlacesOf(key, S) : FieldAt(key, p, "problem_id") = p[1]
ConsistentSoFar(S) ==
    /\ \A key \in Keys : IdsDiffer(key, S)
    /\ FilesAgree(S) /\ FieldsAgree(S)

LEMMA StemIsSome ==
    ASSUME data \in Datasets, NEW stem \in DOMAIN data.files
    PROVE  stem # ""
BY DatasetAssumption

LEMMA ItemsAreSequences ==
    ASSUME data \in Datasets, NEW stem \in DOMAIN data.files, HasItsFields(stem), NEW key \in Keys
    PROVE  Len(ItemsIn(key, stem)) \in Nat /\ DOMAIN ItemsIn(key, stem) = 1..Len(ItemsIn(key, stem))
<1> DEFINE items == ItemsIn(key, stem)
<1>1. IsSequence(items)
  BY ListsAreSequences DEF HasItsFields, ItemsIn, Keys
<1> HIDE DEF items
<1> QED BY <1>1 DEF IsSequence

LEMMA NewPlaces ==
    ASSUME NEW stem, NEW n \in Nat
    PROVE  LET new == {stem} \X (1..n) IN IsFiniteSet(new) /\ Cardinality(new) = n
<1> DEFINE S == 1..n
           T == {stem} \X S
           f == [i \in S |-> <<stem, i>>]
<1>1. IsFiniteSet(S) /\ Cardinality(S) = n
  BY FS_Interval
<1>2. f \in [S -> T] /\ \A i \in S : f[i] = <<stem, i>>
  OBVIOUS
<1>3. \A z \in T : \E i \in S : f[i] = z
  OBVIOUS
<1>4. \A i, j \in S : f[i] = f[j] => i = j
  OBVIOUS
<1> HIDE DEF S, T, f
<1>5. Cardinality(S) = Cardinality(T) /\ IsFiniteSet(T)
  BY <1>1, <1>2, <1>3, <1>4, PairedSets
<1> QED BY <1>1, <1>5 DEF T, S

LEMMA IndexGrows ==
    ASSUME data \in Datasets, NEW S, NEW stem \in DOMAIN data.files, stem \notin S,
           IndexIs(index, S), HasItsFields(stem)
    PROVE  IndexIs(Extended(data.files[stem].loaded, stem), S \cup {stem})
<1> DEFINE doc == data.files[stem].loaded
           items == ItemsIn("reasoning_traces", stem)
           old == PlacesOf("reasoning_traces", S)
           new == {stem} \X DOMAIN items
           U == S \cup {stem}
<1>1. PICK x : x = Extended(doc, stem)
  OBVIOUS
<1>2. /\ x.problems = index.problems \cup {IdOf(stem)}
      /\ x.traceCount = index.traceCount + Len(items)
      /\ x.traces = [p \in DOMAIN index.traces \cup new |->
                        IF p \in DOMAIN index.traces THEN index.traces[p] ELSE TraceRec(items[p[2]], stem)]
      /\ x.solutions = [p \in DOMAIN index.solutions \cup ({stem} \X DOMAIN ItemsIn("candidate_solutions", stem)) |->
                        IF p \in DOMAIN index.solutions THEN index.solutions[p]
                        ELSE SolRec(ItemsIn("candidate_solutions", stem)[p[2]], stem)]
      /\ x.tests = [p \in DOMAIN index.tests \cup ({stem} \X DOMAIN ItemsIn("test_cases", stem)) |->
                        IF p \in DOMAIN index.tests THEN index.tests[p]
                        ELSE TestRec(ItemsIn("test_cases", stem)[p[2]], stem)]
      /\ x.diagnoses = [p \in DOMAIN index.diagnoses \cup ({stem} \X DOMAIN ItemsIn("diagnoses", stem)) |->
                        IF p \in DOMAIN index.diagnoses THEN index.diagnoses[p]
                        ELSE DiagRec(ItemsIn("diagnoses", stem)[p[2]], stem)]
      /\ DOMAIN x.verifications = DOMAIN index.verifications
  <2>1. IsTyped(doc)
    BY DEF HasItsFields
  <2>2. IndexAdds(x, doc, stem)
    <3> HIDE DEF doc
    <3> QED BY <1>1, <2>1, WhatIsKept
  <2> QED BY <2>2 DEF IndexAdds, ItemsIn, IdOf, ProblemOf
<1>3. x.problems = {IdOf(f) : f \in U}
  BY <1>2 DEF IndexIs
<1>4. /\ IsFiniteSet(PlacesOf("reasoning_traces", U))
      /\ x.traceCount = Cardinality(PlacesOf("reasoning_traces", U))
  <2>1. Len(items) \in Nat /\ DOMAIN items = 1..Len(items)
    BY ItemsAreSequences DEF Keys
  <2>2. IsFiniteSet(new) /\ Cardinality(new) = Len(items)
    <3> HIDE DEF items
    <3> QED BY <2>1, NewPlaces
  <2>3. PlacesOf("reasoning_traces", U) = old \cup new /\ old \cap new = {}
    BY MorePlaces
  <2>4. IsFiniteSet(old) /\ index.traceCount = Cardinality(old)
    BY DEF IndexIs
  <2>8. x.traceCount = index.traceCount + Len(items)
    BY <1>2
  <2> HIDE DEF old, new, items
  <2>5. PICK a, b : a = Cardinality(old) /\ b = Cardinality(new)
    OBVIOUS
  <2>6. old \cap new = {} /\ Cardinality({}) = 0 /\ a \in Nat
    BY <2>3, <2>4, <2>5, FS_EmptySet, FS_CardinalityType
  <2>7. IsFiniteSet(old \cup new) /\ Cardinality(old \cup new) = a + b - Cardinality(old \cap new)
    BY <2>2, <2>4, <2>5, FS_Union
  <2>9. Cardinality(old \cup new) = a + b
    <3>1. Cardinality(old \cap new) = 0 /\ b \in Nat
      BY <2>1, <2>2, <2>5, <2>6
    <3>2. PICK c, d : c = Cardinality(old \cap new) /\ d = Cardinality(old \cup new)
      OBVIOUS
    <3>3. d = a + b - c
      BY <2>7, <3>2
    <3> QED BY <2>6, <3>1, <3>2, <3>3
  <2> QED BY <2>2, <2>3, <2>4, <2>5, <2>7, <2>8, <2>9
<1>5. x.traces = [p \in PlacesOf("reasoning_traces", U) |-> TraceRec(RecordAt("reasoning_traces", p), p[1])]
  <2> DEFINE key == "reasoning_traces"
             rec == [p \in PlacesOf(key, U) |-> TraceRec(RecordAt(key, p), p[1])]
  <2>1. /\ PlacesOf(key, U) = PlacesOf(key, S) \cup new /\ PlacesOf(key, S) \cap new = {}
        /\ \A p \in new : p[1] = stem /\ RecordAt(key, p) = items[p[2]]
    BY MorePlaces
  <2>2. index.traces = [p \in PlacesOf(key, S) |-> TraceRec(RecordAt(key, p), p[1])]
    BY DEF IndexIs
  <2>3. x.traces = [p \in DOMAIN index.traces \cup new |->
                       IF p \in DOMAIN index.traces THEN index.traces[p] ELSE TraceRec(items[p[2]], stem)]
    BY <1>2
  <2> HIDE DEF new, items
  <2> QED BY <2>1, <2>2, <2>3
<1>6. x.solutions = [p \in PlacesOf("candidate_solutions", U) |-> SolRec(RecordAt("candidate_solutions", p), p[1])]
  <2> DEFINE key == "candidate_solutions"
             list == ItemsIn(key, stem)
             add == {stem} \X DOMAIN list
  <2>1. /\ PlacesOf(key, U) = PlacesOf(key, S) \cup add /\ PlacesOf(key, S) \cap add = {}
        /\ \A p \in add : p[1] = stem /\ RecordAt(key, p) = list[p[2]]
    BY MorePlaces
  <2>2. index.solutions = [p \in PlacesOf(key, S) |-> SolRec(RecordAt(key, p), p[1])]
    BY DEF IndexIs
  <2>3. x.solutions = [p \in DOMAIN index.solutions \cup add |->
                          IF p \in DOMAIN index.solutions THEN index.solutions[p] ELSE SolRec(list[p[2]], stem)]
    BY <1>2
  <2> HIDE DEF add, list
  <2> QED BY <2>1, <2>2, <2>3
<1>7. x.tests = [p \in PlacesOf("test_cases", U) |-> TestRec(RecordAt("test_cases", p), p[1])]
  <2> DEFINE key == "test_cases"
             list == ItemsIn(key, stem)
             add == {stem} \X DOMAIN list
  <2>1. /\ PlacesOf(key, U) = PlacesOf(key, S) \cup add /\ PlacesOf(key, S) \cap add = {}
        /\ \A p \in add : p[1] = stem /\ RecordAt(key, p) = list[p[2]]
    BY MorePlaces
  <2>2. index.tests = [p \in PlacesOf(key, S) |-> TestRec(RecordAt(key, p), p[1])]
    BY DEF IndexIs
  <2>3. x.tests = [p \in DOMAIN index.tests \cup add |->
                          IF p \in DOMAIN index.tests THEN index.tests[p] ELSE TestRec(list[p[2]], stem)]
    BY <1>2
  <2> HIDE DEF add, list
  <2> QED BY <2>1, <2>2, <2>3
<1>8. x.diagnoses = [p \in PlacesOf("diagnoses", U) |-> DiagRec(RecordAt("diagnoses", p), p[1])]
  <2> DEFINE key == "diagnoses"
             list == ItemsIn(key, stem)
             add == {stem} \X DOMAIN list
  <2>1. /\ PlacesOf(key, U) = PlacesOf(key, S) \cup add /\ PlacesOf(key, S) \cap add = {}
        /\ \A p \in add : p[1] = stem /\ RecordAt(key, p) = list[p[2]]
    BY MorePlaces
  <2>2. index.diagnoses = [p \in PlacesOf(key, S) |-> DiagRec(RecordAt(key, p), p[1])]
    BY DEF IndexIs
  <2>3. x.diagnoses = [p \in DOMAIN index.diagnoses \cup add |->
                          IF p \in DOMAIN index.diagnoses THEN index.diagnoses[p] ELSE DiagRec(list[p[2]], stem)]
    BY <1>2
  <2> HIDE DEF add, list
  <2> QED BY <2>1, <2>2, <2>3
<1>9. DOMAIN x.verifications = {}
  BY <1>2 DEF IndexIs
<1> HIDE DEF U, doc
<1>10. IndexIs(x, U)
  BY <1>3, <1>4, <1>5, <1>6, <1>7, <1>8, <1>9 DEF IndexIs
<1> QED BY <1>1, <1>10 DEF U, doc

LEMMA KeptIds ==
    ASSUME NEW S, IndexIs(index, S)
    PROVE  /\ /\ DOMAIN index.traces = PlacesOf("reasoning_traces", S)
              /\ \A p \in PlacesOf("reasoning_traces", S) : index.traces[p].id = FieldAt("reasoning_traces", p, "id")
           /\ /\ DOMAIN index.solutions = PlacesOf("candidate_solutions", S)
              /\ \A p \in PlacesOf("candidate_solutions", S) :
                    index.solutions[p].id = FieldAt("candidate_solutions", p, "id")
           /\ /\ DOMAIN index.tests = PlacesOf("test_cases", S)
              /\ \A p \in PlacesOf("test_cases", S) : index.tests[p].id = FieldAt("test_cases", p, "id")
           /\ /\ DOMAIN index.diagnoses = PlacesOf("diagnoses", S)
              /\ \A p \in PlacesOf("diagnoses", S) : index.diagnoses[p].id = FieldAt("diagnoses", p, "id")
BY DEF IndexIs, TraceRec, SolRec, TestRec, DiagRec, FieldAt

(* A file agrees with those before it exactly if the contract is still     *)
(* kept.                                                                   *)
LEMMA OneMoreFile ==
    ASSUME data \in Datasets, NEW S, NEW stem \in DOMAIN data.files, stem \notin S,
           IndexIs(index, S), HasItsFields(stem)
    PROVE  ConsistentSoFar(S \cup {stem}) <=>
               ConsistentSoFar(S) /\ FileAgrees(data.files[stem].loaded, stem)
<1> DEFINE doc == data.files[stem].loaded
           U == S \cup {stem}
           pid == IdOf(stem)
           rv == Section(doc, "reference_verdict")
           New(key, kept) == IdsAreNew(doc, key, Ids(kept))
           Own(key) == \A r \in Records(doc, key) : TextOf(r, "problem_id") = stem
<1>1. /\ IdsDiffer("reasoning_traces", U) <=>
             IdsDiffer("reasoning_traces", S) /\ New("reasoning_traces", index.traces)
      /\ IdsDiffer("candidate_solutions", U) <=>
             IdsDiffer("candidate_solutions", S) /\ New("candidate_solutions", index.solutions)
      /\ IdsDiffer("test_cases", U) <=>
             IdsDiffer("test_cases", S) /\ New("test_cases", index.tests)
      /\ IdsDiffer("diagnoses", U) <=>
             IdsDiffer("diagnoses", S) /\ New("diagnoses", index.diagnoses)
  <2>1. \A key \in Keys : DOMAIN ItemsIn(key, stem) \subseteq Nat
    BY ItemsAreSequences
  <2>2. /\ DOMAIN ItemsIn("reasoning_traces", stem) \subseteq Nat
        /\ DOMAIN ItemsIn("candidate_solutions", stem) \subseteq Nat
        /\ DOMAIN ItemsIn("test_cases", stem) \subseteq Nat /\ DOMAIN ItemsIn("diagnoses", stem) \subseteq Nat
    BY <2>1 DEF Keys
  <2>3. IdsDiffer("reasoning_traces", U) <=>
             IdsDiffer("reasoning_traces", S) /\ New("reasoning_traces", index.traces)
    BY <2>2, KeptIds, MoreIdsDiffer
  <2>4. IdsDiffer("candidate_solutions", U) <=>
             IdsDiffer("candidate_solutions", S) /\ New("candidate_solutions", index.solutions)
    BY <2>2, KeptIds, MoreIdsDiffer
  <2>5. IdsDiffer("test_cases", U) <=>
             IdsDiffer("test_cases", S) /\ New("test_cases", index.tests)
    BY <2>2, KeptIds, MoreIdsDiffer
  <2>6. IdsDiffer("diagnoses", U) <=>
             IdsDiffer("diagnoses", S) /\ New("diagnoses", index.diagnoses)
    BY <2>2, KeptIds, MoreIdsDiffer
  <2> QED BY <2>3, <2>4, <2>5, <2>6
<1>2. FilesAgree(U) <=> FilesAgree(S) /\ pid = stem /\ TextOf(rv, "problem_id") \in {stem, ""}
  BY DEF FilesAgree
<1>3. \A key : (\A p \in PlacesOf(key, U) : FieldAt(key, p, "problem_id") = p[1]) <=>
         (\A p \in PlacesOf(key, S) : FieldAt(key, p, "problem_id") = p[1]) /\ Own(key)
  <2> TAKE key
  <2> DEFINE list == ItemsIn(key, stem)
             new == {stem} \X DOMAIN list
             Right(p) == FieldAt(key, p, "problem_id") = p[1]
  <2>1. /\ PlacesOf(key, U) = PlacesOf(key, S) \cup new
        /\ \A p \in new : p[1] = stem /\ RecordAt(key, p) = list[p[2]]
    BY MorePlaces
  <2>2. (\A p \in new : Right(p)) <=> \A i \in DOMAIN list : TextOf(list[i], "problem_id") = stem
    <3>1. ASSUME NEW p \in new
          PROVE  p[2] \in DOMAIN list /\ (Right(p) <=> TextOf(list[p[2]], "problem_id") = stem)
      BY <2>1, <3>1 DEF FieldAt
    <3>2. \A i \in DOMAIN list : <<stem, i>> \in new /\ <<stem, i>>[2] = i
      OBVIOUS
    <3> HIDE DEF new, list, Right
    <3> QED BY <3>1, <3>2
  <2>3. Own(key) <=> \A i \in DOMAIN list : TextOf(list[i], "problem_id") = stem
    BY DEF Records, ItemsIn, ToSet
  <2> HIDE DEF new, list, Own, Right, U
  <2>4. (\A p \in PlacesOf(key, U) : Right(p)) <=> (\A p \in PlacesOf(key, S) : Right(p)) /\ Own(key)
    BY <2>1, <2>2, <2>3
  <2> QED BY <2>4 DEF Right
<1>4. FieldsAgree(U) <=> FieldsAgree(S) /\ Own("reasoning_traces") /\ Own("test_cases")
  <2> HIDE DEF Own, U
  <2>1. FieldsAgree(U) <=>
           /\ \A p \in PlacesOf("reasoning_traces", U) : FieldAt("reasoning_traces", p, "problem_id") = p[1]
           /\ \A p \in PlacesOf("test_cases", U) : FieldAt("test_cases", p, "problem_id") = p[1]
    BY DEF FieldsAgree
  <2>2. FieldsAgree(S) <=>
           /\ \A p \in PlacesOf("reasoning_traces", S) : FieldAt("reasoning_traces", p, "problem_id") = p[1]
           /\ \A p \in PlacesOf("test_cases", S) : FieldAt("test_cases", p, "problem_id") = p[1]
    BY DEF FieldsAgree
  <2> QED BY <1>3, <2>1, <2>2
<1>5. \A T : ConsistentSoFar(T) <=>
         /\ IdsDiffer("reasoning_traces", T) /\ IdsDiffer("candidate_solutions", T)
         /\ IdsDiffer("test_cases", T) /\ IdsDiffer("diagnoses", T)
         /\ FilesAgree(T) /\ FieldsAgree(T)
  <2> TAKE T
  <2>1. (\A key \in Keys : IdsDiffer(key, T)) <=>
            /\ IdsDiffer("reasoning_traces", T) /\ IdsDiffer("candidate_solutions", T)
            /\ IdsDiffer("test_cases", T) /\ IdsDiffer("diagnoses", T)
    BY DEF Keys
  <2> QED BY <2>1 DEF ConsistentSoFar
<1>6. FilesAgree(S) => index.problems = S
  <2>1. index.problems = {IdOf(f) : f \in S}
    BY DEF IndexIs
  <2>2. FilesAgree(S) => \A f \in S : IdOf(f) = f
    BY DEF FilesAgree
  <2> HIDE DEF pid
  <2> QED BY <2>1, <2>2
<1>7. stem # ""
  BY StemIsSome
<1>8. pid = stem =>
         /\ (\A r \in Records(doc, "reasoning_traces") \cup Records(doc, "test_cases") : ~Elsewhere(r, pid))
            <=> Own("reasoning_traces") /\ Own("test_cases")
         /\ ~(TextOf(rv, "problem_id") # "" /\ Elsewhere(rv, pid)) <=> TextOf(rv, "problem_id") \in {stem, ""}
  <2> SUFFICES ASSUME pid = stem
               PROVE  /\ (\A r \in Records(doc, "reasoning_traces") \cup Records(doc, "test_cases") : ~Elsewhere(r, stem))
                         <=> Own("reasoning_traces") /\ Own("test_cases")
                      /\ ~(TextOf(rv, "problem_id") # "" /\ Elsewhere(rv, stem)) <=> TextOf(rv, "problem_id") \in {stem, ""}
    OBVIOUS
  <2>1. \A o : HasType(o, "problem_id", {"string"}) =>
           (~Elsewhere(o, stem) <=> TextOf(o, "problem_id") = stem)
    BY <1>7 DEF Elsewhere
  <2>2. ~HasType(rv, "problem_id", {"string"}) => TextOf(rv, "problem_id") = ""
    BY DEF TextOf
  <2>3. \A r \in Records(doc, "reasoning_traces") \cup Records(doc, "test_cases") :
           HasType(r, "problem_id", {"string"})
    BY DEF HasItsFields, IsTyped, TraceIsTyped, TestIsTyped
  <2> HIDE DEF rv, doc
  <2>4. ~(TextOf(rv, "problem_id") # "" /\ Elsewhere(rv, stem)) <=> TextOf(rv, "problem_id") \in {stem, ""}
    <3>1. CASE HasType(rv, "problem_id", {"string"})
      BY <2>1, <3>1
    <3>2. CASE ~HasType(rv, "problem_id", {"string"})
      BY <2>2, <3>2
    <3> QED BY <3>1, <3>2
  <2> QED BY <2>1, <2>3, <2>4
<1>9. FileAgrees(doc, stem) <=>
         /\ pid \notin index.problems /\ pid = stem
         /\ ~(TextOf(rv, "problem_id") # "" /\ Elsewhere(rv, pid))
         /\ \A r \in Records(doc, "reasoning_traces") \cup Records(doc, "test_cases") : ~Elsewhere(r, pid)
         /\ New("reasoning_traces", index.traces) /\ New("candidate_solutions", index.solutions)
         /\ New("test_cases", index.tests) /\ New("diagnoses", index.diagnoses)
  BY DEF FileAgrees, IdOf, ProblemOf
<1> HIDE DEF U, pid, rv, New, Own, doc
<1>10. ConsistentSoFar(U) <=> ConsistentSoFar(S) /\ FileAgrees(doc, stem)
  <2>1. CASE FilesAgree(S) /\ pid = stem
    <3>1. pid \notin index.problems
      BY <1>6, <2>1
    <3>2. FileAgrees(doc, stem) <=>
             /\ TextOf(rv, "problem_id") \in {stem, ""}
             /\ Own("reasoning_traces") /\ Own("test_cases")
             /\ New("reasoning_traces", index.traces) /\ New("candidate_solutions", index.solutions)
             /\ New("test_cases", index.tests) /\ New("diagnoses", index.diagnoses)
      BY <1>8, <1>9, <2>1, <3>1
    <3> QED BY <1>1, <1>2, <1>4, <1>5, <2>1, <3>2
  <2>2. CASE ~(FilesAgree(S) /\ pid = stem)
    <3>1. ~ConsistentSoFar(U)
      BY <1>2, <1>5, <2>2
    <3>2. ~(ConsistentSoFar(S) /\ FileAgrees(doc, stem))
      BY <1>5, <1>9, <2>2
    <3> QED BY <3>1, <3>2
  <2> QED BY <2>1, <2>2
<1> QED BY <1>10 DEF U, doc

----------------------------------------------------------------------------
(* Phase 2: every file is in the index                                     *)

AllRead ==
    /\ data \in Datasets /\ IndexIs(index, DOMAIN data.files)
    /\ \A f \in DOMAIN data.files : HasItsFields(f)

LEMMA AllPlaces == \A key : PlacesOf(key, DOMAIN data.files) = Places(key)
BY DEF PlacesOf, Places

LEMMA IndexIsAll ==
    ASSUME AllRead
    PROVE  /\ index.traces = [p \in Places("reasoning_traces") |->
                                 TraceRec(RecordAt("reasoning_traces", p), p[1])]
           /\ index.solutions = [p \in Places("candidate_solutions") |->
                                    SolRec(RecordAt("candidate_solutions", p), p[1])]
           /\ index.tests = [p \in Places("test_cases") |-> TestRec(RecordAt("test_cases", p), p[1])]
           /\ index.diagnoses = [p \in Places("diagnoses") |-> DiagRec(RecordAt("diagnoses", p), p[1])]
           /\ DOMAIN index.verifications = {}
<1> DEFINE D == DOMAIN data.files
<1>1. /\ PlacesOf("reasoning_traces", D) = Places("reasoning_traces")
      /\ PlacesOf("candidate_solutions", D) = Places("candidate_solutions")
      /\ PlacesOf("test_cases", D) = Places("test_cases")
      /\ PlacesOf("diagnoses", D) = Places("diagnoses")
  BY AllPlaces
<1> QED BY <1>1 DEF AllRead, IndexIs

LEMMA RecordsAreTyped ==
    ASSUME AllRead
    PROVE  /\ \A p \in Places("reasoning_traces") : TraceIsTyped(RecordAt("reasoning_traces", p))
           /\ \A p \in Places("diagnoses") : DiagnosisIsTyped(RecordAt("diagnoses", p))
<1>1. \A key : \A p \in Places(key) : p[1] \in DOMAIN data.files
                  /\ RecordAt(key, p) \in Records(data.files[p[1]].loaded, key)
  BY DEF Places, RecordAt, Records, ToSet
<1>2. \A f \in DOMAIN data.files : IsTyped(data.files[f].loaded)
  BY DEF AllRead, HasItsFields
<1> QED BY <1>1, <1>2 DEF IsTyped

LEMMA IdsAreThere ==
    ASSUME AllRead
    PROVE  \A id : id \in Ids(index.traces) <=> Naming("reasoning_traces", "id", id) # {}
<1>1. index.traces = [p \in Places("reasoning_traces") |-> TraceRec(RecordAt("reasoning_traces", p), p[1])]
  BY IndexIsAll
<1>2. \A p \in Places("reasoning_traces") : index.traces[p].id = FieldAt("reasoning_traces", p, "id")
  BY <1>1 DEF TraceRec, FieldAt
<1> QED BY <1>1, <1>2 DEF Ids, ToSet, Naming

(* References to traces.                                                   *)
TraceReferencesResolve ==
    \A key \in {"candidate_solutions", "diagnoses"} :
       \A p \in Places(key) : Naming("reasoning_traces", "id", FieldAt(key, p, "trace_id")) # {}

LEMMA TracesResolve ==
    ASSUME AllRead
    PROVE  UnresolvedTraces = {} <=> TraceReferencesResolve
<1> DEFINE Faults(r) == At(When(r.trace \notin Ids(index.traces), "E_BAD_TRACE_FK"), r.file, r.id)
           R == ToSet(index.solutions) \cup ToSet(index.diagnoses)
           Known(id) == Naming("reasoning_traces", "id", id) # {}
<1>1. \A r : Faults(r) = {} <=> r.trace \in Ids(index.traces)
  BY AtIs DEF When
<1>2. UnresolvedTraces = UNION {Faults(r) : r \in R}
  BY DEF UnresolvedTraces
<1>3. UnresolvedTraces = {} <=> \A r \in R : Known(r.trace)
  <2> HIDE DEF Faults, Known, R
  <2>1. UnresolvedTraces = {} <=> \A r \in R : r.trace \in Ids(index.traces)
    BY <1>1, <1>2
  <2> QED BY <2>1, IdsAreThere DEF Known
<1>4. R = {index.solutions[p] : p \in Places("candidate_solutions")}
          \cup {index.diagnoses[p] : p \in Places("diagnoses")}
  BY IndexIsAll DEF ToSet
<1>5. /\ \A p \in Places("candidate_solutions") :
            index.solutions[p].trace = FieldAt("candidate_solutions", p, "trace_id")
      /\ \A p \in Places("diagnoses") : index.diagnoses[p].trace = FieldAt("diagnoses", p, "trace_id")
  BY IndexIsAll DEF SolRec, DiagRec, FieldAt
<1>6. TraceReferencesResolve <=>
         /\ \A p \in Places("candidate_solutions") : Known(FieldAt("candidate_solutions", p, "trace_id"))
         /\ \A p \in Places("diagnoses") : Known(FieldAt("diagnoses", p, "trace_id"))
  BY DEF TraceReferencesResolve
<1> HIDE DEF Known, R
<1> QED BY <1>3, <1>4, <1>5, <1>6

LEMMA ResultsResolve ==
    ASSUME AllRead
    PROVE  UnresolvedResults = {}
BY IndexIsAll DEF UnresolvedResults, ToSet

LEMMA TracesComplete ==
    ASSUME AllRead
    PROVE  Associations = {} <=> TracesAreComplete
<1> DEFINE lonely(t) == t.hasImplStep /\ \A s \in ToSet(index.solutions) : s.trace # t.id
           many(t) == Cardinality(DiagnosesFor(t.id)) # 1
           Faults(t) == At(When(lonely(t), "E_IMPLEMENTATION_WITHOUT_SOLUTION")
                           \cup When(many(t), "E_DIAGNOSIS_CARDINALITY"), t.file, t.id)
           P == Places("reasoning_traces")
           rec(p) == RecordAt("reasoning_traces", p)
           Complete(t) ==
              /\ Cardinality(Naming("diagnoses", "trace_id", TextOf(t, "id"))) = 1
              /\ (\E s \in ToSet(ItemsOf(t, "steps")) : TextOf(s, "stage") = ImplementationStage)
                 => Naming("candidate_solutions", "trace_id", TextOf(t, "id")) # {}
<1>1. Associations = UNION {Faults(t) : t \in ToSet(index.traces)}
  BY DEF Associations
<1>2. \A t : Faults(t) = {} <=> ~lonely(t) /\ ~many(t)
  <2> TAKE t
  <2>1. PICK codes : codes = When(lonely(t), "E_IMPLEMENTATION_WITHOUT_SOLUTION")
                             \cup When(many(t), "E_DIAGNOSIS_CARDINALITY")
    OBVIOUS
  <2>2. codes = {} <=> ~lonely(t) /\ ~many(t)
    <3> HIDE DEF lonely, many
    <3> QED BY <2>1 DEF When
  <2>3. Faults(t) = At(codes, t.file, t.id)
    BY <2>1
  <2> HIDE DEF Faults, lonely, many
  <2> QED BY <2>2, <2>3, AtIs
<1>3. ToSet(index.traces) = {index.traces[p] : p \in P}
  BY IndexIsAll DEF ToSet
<1>4. Associations = {} <=> \A p \in P : ~lonely(index.traces[p]) /\ ~many(index.traces[p])
  <2> HIDE DEF Faults, lonely, many, P
  <2> QED BY <1>1, <1>2, <1>3
<1>5. \A id : DiagnosesFor(id) = Naming("diagnoses", "trace_id", id)
  BY IndexIsAll DEF DiagnosesFor, Naming, DiagRec, FieldAt
<1>6. \A id : (\A s \in ToSet(index.solutions) : s.trace # id) <=> Naming("candidate_solutions", "trace_id", id) = {}
  BY IndexIsAll DEF ToSet, Naming, SolRec, FieldAt
<1>7. ASSUME NEW p \in P
      PROVE  (~lonely(index.traces[p]) /\ ~many(index.traces[p])) <=> Complete(rec(p))
  <2>1. PICK t, x : t = rec(p) /\ x = index.traces[p]
    OBVIOUS
  <2>2. x = TraceRec(t, p[1])
    BY <1>7, <2>1, IndexIsAll
  <2>3. ObjectsOf(t, "steps") = ToSet(ItemsOf(t, "steps"))
    <3>1. TraceIsTyped(t)
      BY <1>7, <2>1, RecordsAreTyped
    <3> QED BY <3>1 DEF TraceIsTyped, ObjectsOf
  <2>4. /\ x.id = TextOf(t, "id")
        /\ x.hasImplStep <=> \E s \in ToSet(ItemsOf(t, "steps")) : TextOf(s, "stage") = ImplementationStage
    BY <2>2, <2>3 DEF TraceRec
  <2>5. (~lonely(x) /\ ~many(x)) <=> Complete(t)
    BY <1>5, <1>6, <2>4
  <2> QED BY <2>1, <2>5
<1>8. TracesAreComplete <=> \A p \in P : Complete(rec(p))
  BY DEF TracesAreComplete
<1> HIDE DEF lonely, many, Complete, P, rec
<1> QED BY <1>4, <1>7, <1>8

(* A record of a diagnosis holds what is written there.                    *)
LEMMA KeptDiagnosis ==
    ASSUME AllRead, NEW p \in Places("diagnoses"), NEW x, x = index.diagnoses[p]
    PROVE  /\ x.status = FieldAt("diagnoses", p, "status") /\ x.status \in Statuses
           /\ x.primary = FieldAt("diagnoses", p, "primary_category")
           /\ x.cats = FoundIn(p) /\ x.findingsOk
           /\ x.primaryInFindings <=> x.primary \in FoundIn(p)
<1>1. PICK t : t = RecordAt("diagnoses", p)
  OBVIOUS
<1>2. x = DiagRec(t, p[1])
  BY <1>1, IndexIsAll
<1>3. DiagnosisIsTyped(t)
  BY <1>1, RecordsAreTyped
<1>4. ObjectsOf(t, "findings") = ToSet(ItemsOf(t, "findings"))
  BY <1>3 DEF DiagnosisIsTyped, ObjectsOf
<1>5. FoundIn(p) = {TextOf(f, "category") : f \in ToSet(ItemsOf(t, "findings"))}
  BY <1>1 DEF FoundIn
<1>6. FoundIn(p) \subseteq Categories
  BY <1>3, <1>5 DEF DiagnosisIsTyped
<1>7. /\ x.status = TextOf(t, "status") /\ x.primary = TextOf(t, "primary_category")
      /\ x.cats = FoundIn(p) \cap Categories /\ x.findingsOk = HasType(t, "findings", {"array"})
      /\ x.primaryInFindings = (TextOf(t, "primary_category") \in FoundIn(p))
  BY <1>2, <1>4, <1>5 DEF DiagRec
<1>8. x.cats = FoundIn(p)
  BY <1>6, <1>7
<1>9. HasType(t, "findings", {"array"}) /\ TextOf(t, "status") \in Statuses
  BY <1>3 DEF DiagnosisIsTyped
<1>10. TextOf(t, "status") = FieldAt("diagnoses", p, "status")
       /\ TextOf(t, "primary_category") = FieldAt("diagnoses", p, "primary_category")
  BY <1>1 DEF FieldAt
<1> QED BY <1>1, <1>7, <1>8, <1>9, <1>10

LEMMA DiagnosesConsistent ==
    ASSUME AllRead, NoFieldFault(StatusRules)
    PROVE  StatusRules = {} <=> DiagnosesAreConsistent
<1> DEFINE Faults(r) == At(StatusCodes(r), r.file, r.id)
           P == Places("diagnoses")
           Right(p) ==
              LET status == FieldAt("diagnoses", p, "status")
                  primary == FieldAt("diagnoses", p, "primary_category")
              IN  /\ status = "correct" => FoundIn(p) = {}
                  /\ primary # "" <=> status = "incorrect"
                  /\ status = "incorrect" => primary \in FoundIn(p)
<1>1. ASSUME NEW p \in P, NEW x, x = index.diagnoses[p]
      PROVE  /\ x.status = FieldAt("diagnoses", p, "status") /\ x.status \in Statuses
             /\ x.primary = FieldAt("diagnoses", p, "primary_category")
             /\ x.cats = FoundIn(p) /\ x.findingsOk
             /\ x.primaryInFindings <=> x.primary \in FoundIn(p)
  BY <1>1, KeptDiagnosis
<1>2. \A d : d \in StatusRules <=> \E p \in P : d \in Faults(index.diagnoses[p])
  <2>1. ToSet(index.diagnoses) = {index.diagnoses[p] : p \in P}
    BY IndexIsAll DEF ToSet
  <2>2. {r \in ToSet(index.diagnoses) : r.status \in Statuses} = {index.diagnoses[p] : p \in P}
    BY <1>1, <2>1
  <2>3. StatusRules = UNION {Faults(r) : r \in {index.diagnoses[p] : p \in P}}
    BY <2>2 DEF StatusRules
  <2> HIDE DEF Faults, P
  <2> QED BY <2>3
<1>3. ASSUME NEW p \in P
      PROVE  Faults(index.diagnoses[p]) = {} <=> Right(p)
  <2>1. PICK x, codes : x = index.diagnoses[p] /\ codes = StatusCodes(x)
    OBVIOUS
  <2>2. NoFieldFault(Faults(x))
    <3> HIDE DEF Faults
    <3> QED BY <1>2, <1>3, <2>1 DEF NoFieldFault
  <2>3. codes \cap LocalCodes = {} /\ (Faults(x) = {} <=> codes = {})
    BY <2>1, <2>2, AtIs
  <2>4. "E_INVALID_ENUM" \notin codes
    BY <2>3, FieldCodes
  <2>5. codes = When(x.primary \notin Categories \cup {""}, "E_INVALID_ENUM") \cup
                CASE x.status = "correct" ->
                        When(~x.findingsOk \/ x.cats # {} \/ x.primary # "", "E_CORRECT_WITH_FINDINGS")
                  [] x.status = "incorrect" ->
                        IF ~x.findingsOk \/ x.cats = {} THEN {"E_INCORRECT_WITHOUT_FINDINGS"}
                        ELSE When(x.primary = "" \/ ~x.primaryInFindings, "E_PRIMARY_NOT_IN_FINDINGS")
                  [] OTHER -> When(x.primary # "", "E_STATUS_PRIMARY_MISMATCH")
    BY <2>1 DEF StatusCodes
  <2>6. When(x.primary \notin Categories \cup {""}, "E_INVALID_ENUM") = {}
    BY <2>4, <2>5 DEF When
  <2>7. /\ x.status = FieldAt("diagnoses", p, "status") /\ x.status \in Statuses
        /\ x.primary = FieldAt("diagnoses", p, "primary_category")
        /\ x.cats = FoundIn(p) /\ x.findingsOk
        /\ x.primaryInFindings <=> x.primary \in FoundIn(p)
    BY <1>1, <1>3, <2>1
  <2>8. codes = {} <=> /\ x.status = "correct" => x.cats = {}
                       /\ x.primary # "" <=> x.status = "incorrect"
                       /\ x.status = "incorrect" => x.primaryInFindings
    <3>1. CASE x.status = "correct"
      BY <2>5, <2>6, <2>7, <3>1 DEF When
    <3>2. CASE x.status = "incorrect"
      <4>1. x.primaryInFindings => x.cats # {}
        BY <2>7
      <4> QED BY <2>5, <2>6, <2>7, <3>2, <4>1 DEF When
    <3>3. CASE x.status = "undetermined"
      BY <2>5, <2>6, <2>7, <3>3 DEF When
    <3> QED BY <2>7, <3>1, <3>2, <3>3 DEF Statuses
  <2> HIDE DEF Faults
  <2> QED BY <2>1, <2>3, <2>7, <2>8
<1>4. DiagnosesAreConsistent <=> \A p \in P : Right(p)
  BY DEF DiagnosesAreConsistent
<1> HIDE DEF Faults, Right, P
<1> QED BY <1>2, <1>3, <1>4

(* References as the code compares them: a verdict may name no problem.    *)
VerdictsAccepted == \A f \in DOMAIN data.files : VerdictOf(f) \in {f, ""}
ReferencesAccepted ==
    FieldsAgree(DOMAIN data.files) /\ VerdictsAccepted /\ TraceReferencesResolve

(* Phase 1 has checked the rest.                                           *)
LEMMA FilesConsistent ==
    ASSUME AllRead
    PROVE  /\ ConsistentSoFar(DOMAIN data.files) /\ TraceReferencesResolve
                 <=> OneRecordPerId /\ ReferencesAccepted
           /\ ReferencesResolve <=> ReferencesAccepted /\ VerdictsAgree
<1> DEFINE D == DOMAIN data.files
           Single(key) == \A p \in Places(key) : Naming(key, "id", FieldAt(key, p, "id")) = {p}
<1>1. \A key : IdsDiffer(key, D) <=> Single(key)
  <2> TAKE key
  <2>1. PlacesOf(key, D) = Places(key)
    BY AllPlaces
  <2> QED BY <2>1 DEF IdsDiffer, Naming
<1>2. OneRecordPerId <=> (\A key \in Keys : Single(key)) /\ \A f \in D : IdOf(f) = f
  BY DEF OneRecordPerId, Keys, IdOf
<1>3. FieldsAgree(D) <=> \A key \in {"reasoning_traces", "test_cases"} :
                            \A p \in Places(key) : FieldAt(key, p, "problem_id") = p[1]
  BY AllPlaces DEF FieldsAgree
<1>4. FilesAgree(D) <=>
         (\A f \in D : IdOf(f) = f) /\ VerdictsAccepted
  BY DEF FilesAgree, VerdictsAccepted, VerdictOf
<1>5. ReferencesResolve <=> FieldsAgree(D) /\ VerdictsAgree /\ TraceReferencesResolve
  BY <1>3 DEF ReferencesResolve, TraceReferencesResolve
<1>6. ConsistentSoFar(D) <=> (\A key \in Keys : Single(key)) /\ FilesAgree(D) /\ FieldsAgree(D)
  <2> HIDE DEF Single
  <2> QED BY <1>1 DEF ConsistentSoFar
<1>7. VerdictsAgree => VerdictsAccepted
  BY DEF VerdictsAgree, VerdictsAccepted
<1> HIDE DEF Single
<1> QED BY <1>2, <1>4, <1>5, <1>6, <1>7 DEF ReferencesAccepted

----------------------------------------------------------------------------
(* The counts of the manifest                                              *)

LEMMA DivisionIs ==
    ASSUME NEW n \in Nat \ {0}, NEW a \in Int
    PROVE  a \div n \in Int /\ a % n \in 0..(n - 1) /\ a = n * (a \div n) + (a % n)
OBVIOUS

LEMMA OneRemainder ==
    ASSUME NEW n \in Nat \ {0}, NEW k \in Int, NEW j \in Int,
           NEW r \in 0..(n - 1), NEW s \in 0..(n - 1), n * k + r = n * j + s
    PROVE  r = s
<1>1. CASE k = j
  BY <1>1
<1>2. CASE k > j
  <2>1. n * (k - j) >= n
    BY <1>2
  <2>2. n * (k - j) = n * k - n * j
    OBVIOUS
  <2> QED BY <2>1, <2>2
<1>3. CASE k < j
  <2>1. n * (j - k) >= n
    BY <1>3
  <2>2. n * (j - k) = n * j - n * k
    OBVIOUS
  <2> QED BY <2>1, <2>2
<1> QED BY <1>1, <1>2, <1>3

LEMMA Distributes ==
    ASSUME NEW n \in Int, NEW a \in Int, NEW b \in Int
    PROVE  n * (a + b) = n * a + n * b /\ n * (a - b) = n * a - n * b
<1>1. n * (a + b) = n * a + n * b
  OBVIOUS
<1>2. n * (a - b) = n * a - n * b
  OBVIOUS
<1> QED BY <1>1, <1>2

(* Two numbers have the same remainder exactly if their difference has     *)
(* none.                                                                   *)
LEMMA SameRemainder ==
    ASSUME NEW n \in Nat \ {0}, NEW a \in Int, NEW b \in Int
    PROVE  a % n = b % n <=> (a - b) % n = 0
<1> PICK p, q, r, s, t, u :
        /\ p = a \div n /\ q = b \div n /\ r = a % n /\ s = b % n
        /\ t = (a - b) \div n /\ u = (a - b) % n
  OBVIOUS
<1>1. p \in Int /\ r \in 0..(n - 1) /\ a = n * p + r
  BY DivisionIs
<1>2. q \in Int /\ s \in 0..(n - 1) /\ b = n * q + s
  BY DivisionIs
<1>3. t \in Int /\ u \in 0..(n - 1) /\ a - b = n * t + u
  <2>1. a - b \in Int
    OBVIOUS
  <2> QED BY <2>1, DivisionIs
<1>4. n * (t + q) = n * t + n * q /\ n * (p - q) = n * p - n * q
  <2>1. n \in Int /\ p \in Int /\ q \in Int /\ t \in Int
    BY <1>1, <1>2, <1>3
  <2>2. n * (t + q) = n * t + n * q
    BY <2>1, Distributes
  <2>3. n * (p - q) = n * p - n * q
    BY <2>1, Distributes
  <2> QED BY <2>2, <2>3
<1>5. ASSUME r = s PROVE u = 0
  <2>1. n * (p - q) + 0 = n * t + u
    BY <1>1, <1>2, <1>3, <1>4, <1>5
  <2>2. p - q \in Int /\ 0 \in 0..(n - 1)
    BY <1>1, <1>2
  <2> QED BY <1>3, <2>1, <2>2, OneRemainder
<1>6. ASSUME u = 0 PROVE r = s
  <2>1. n * p + r = n * (t + q) + s
    BY <1>1, <1>2, <1>3, <1>4, <1>6
  <2>2. t + q \in Int
    BY <1>2, <1>3
  <2> QED BY <1>1, <1>2, <2>1, <2>2, OneRemainder
<1> QED BY <1>5, <1>6

LEMMA SameInt ==
    ASSUME NEW a \in Int, NEW b \in Int
    PROVE  AsInt(a) = AsInt(b) <=> (a - b) % IntRange = 0
<1>1. PICK n, h, c, d : n = IntRange /\ h = IntRange \div 2 /\ c = a + h /\ d = b + h
  OBVIOUS
<1>2. n \in Nat \ {0}
  BY <1>1, DatasetAssumption
<1>3. h \in Int /\ c \in Int /\ d \in Int /\ c - d = a - b
  BY <1>1, <1>2
<1>4. c % n \in Int /\ d % n \in Int
  BY <1>3, <1>2, DivisionIs
<1>5. AsInt(a) = (c % n) - h /\ AsInt(b) = (d % n) - h
  BY <1>1 DEF AsInt
<1>6. AsInt(a) = AsInt(b) <=> c % n = d % n
  BY <1>3, <1>4, <1>5
<1>7. c % n = d % n <=> (c - d) % n = 0
  BY <1>3, <1>2, SameRemainder
<1> QED BY <1>1, <1>3, <1>6, <1>7

(* A table of counts without a fault in its fields.                        *)
CountsAre(o, keys, want) == \A k \in keys : (Get(o, k).integer - want[k]) % IntRange = 0

IntCodes(o, keys, want) ==
    Required(o, Fields(keys, {"integer"}))
    \cup When(\E k \in keys : /\ HasType(o, k, {"integer"})
                              /\ AsInt(Get(o, k).integer) # AsInt(want[k]),
              "E_MANIFEST_COUNT_MISMATCH")
HoldsInts(o) == \A k : HasType(o, k, {"integer"}) => Get(o, k).integer \in Int

LEMMA IntsAre ==
    ASSUME NEW o, NEW keys, NEW want \in [keys -> Nat], HoldsInts(o),
           IntCodes(o, keys, want) \cap LocalCodes = {}
    PROVE  /\ \A k \in keys : HasType(o, k, {"integer"})
           /\ IntCodes(o, keys, want) = {} <=> CountsAre(o, keys, want)
<1>1. Required(o, Fields(keys, {"integer"})) = {}
  BY CheckIsLocal DEF IntCodes
<1>2. \A k \in keys : HasType(o, k, {"integer"})
  <2>1. \A k \in keys : <<k, {"integer"}>> \in Fields(keys, {"integer"})
    BY DEF Fields
  <2> QED BY <1>1, <2>1, NothingRequired
<1>3. IntCodes(o, keys, want) = {} <=> \A k \in keys : AsInt(Get(o, k).integer) = AsInt(want[k])
  BY <1>1, <1>2 DEF When, IntCodes
<1>4. \A k \in keys : AsInt(Get(o, k).integer) = AsInt(want[k])
                      <=> (Get(o, k).integer - want[k]) % IntRange = 0
  <2> TAKE k \in keys
  <2>1. Get(o, k).integer \in Int /\ want[k] \in Int
    BY <1>2 DEF HoldsInts
  <2> QED BY <2>1, SameInt
<1> QED BY <1>2, <1>3, <1>4 DEF CountsAre

LEMMA FilesAreFinite ==
    ASSUME data \in Datasets
    PROVE  IsFiniteSet(DOMAIN data.files)
<1> DEFINE names == {FileOrder[i] : i \in DOMAIN FileOrder}
<1>1. Len(FileOrder) \in Nat /\ DOMAIN FileOrder = 1..Len(FileOrder)
  BY DatasetAssumption DEF IsSequence
<1>2. IsFiniteSet(DOMAIN FileOrder)
  BY <1>1, FS_Interval
<1>3. IsFiniteSet(names)
  BY <1>2, FiniteImage
<1>4. DOMAIN data.files \subseteq names
  BY DatasetAssumption DEF ToSet
<1> QED BY <1>3, <1>4, FS_Subset

(* What the counts are counted from.                                       *)
LEMMA AllPlacesAreFinite ==
    ASSUME data \in Datasets, \A f \in DOMAIN data.files : HasItsFields(f), NEW key \in Keys
    PROVE  IsFiniteSet(Places(key))
<1> DEFINE D == DOMAIN data.files
           PlacesIn(f) == {<<f, i>> : i \in DOMAIN ItemsIn(key, f)}
<1>1. IsFiniteSet(D)
  BY FilesAreFinite
<1>2. \A f \in D : IsFiniteSet(PlacesIn(f))
  <2> TAKE f \in D
  <2>1. Len(ItemsIn(key, f)) \in Nat /\ DOMAIN ItemsIn(key, f) = 1..Len(ItemsIn(key, f))
    BY ItemsAreSequences
  <2>2. IsFiniteSet(DOMAIN ItemsIn(key, f))
    BY <2>1, FS_Interval
  <2> DEFINE place == [i \in DOMAIN ItemsIn(key, f) |-> <<f, i>>]
  <2>3. PlacesIn(f) = {place[i] : i \in DOMAIN ItemsIn(key, f)}
    OBVIOUS
  <2> HIDE DEF place, PlacesIn
  <2> QED BY <2>2, <2>3, FiniteImage
<1>3. IsFiniteSet(UNION {PlacesIn(f) : f \in D})
  <2> DEFINE parts == {PlacesIn(f) : f \in D}
  <2>1. IsFiniteSet(parts)
    <3> DEFINE part == [f \in D |-> PlacesIn(f)]
    <3>1. parts = {part[f] : f \in D}
      OBVIOUS
    <3> HIDE DEF parts, part
    <3> QED BY <1>1, <3>1, FiniteImage
  <2>2. \A s \in parts : IsFiniteSet(s)
    BY <1>2
  <2> HIDE DEF parts
  <2> QED BY <2>1, <2>2, FS_UNION DEF parts
<1>4. Places(key) = UNION {PlacesIn(f) : f \in D}
  BY DEF Places, ItemsIn
<1> QED BY <1>3, <1>4

LEMMA ManifestIs ==
    ASSUME HasType(Manifest, "problem_ids", {"array"})
    PROVE  IsLoaded(data.manifest) /\ Manifest = data.manifest.loaded
<1>1. ~HasType(Object(<<>>), "problem_ids", {"array"})
  BY DEF HasType, Has, Object, IsObject
<1> QED BY <1>1 DEF Manifest

OfManifest(o) == o = Manifest \/ \E key : Has(Manifest, key) /\ o = Manifest.object[key]

LEMMA ManifestInts ==
    ASSUME data \in Datasets, HasType(Manifest, "problem_ids", {"array"}),
           NEW o, OfManifest(o)
    PROVE  HoldsInts(o)
<1>1. IsLoaded(data.manifest) /\ Manifest = data.manifest.loaded
  BY ManifestIs
<1>2. o \in {data.manifest.loaded} \cup Parts(data.manifest.loaded)
  BY <1>1 DEF Parts, Has, OfManifest
<1>3. \A k : HasType(o, k, {"integer"}) => IsObject(o) /\ k \in DOMAIN o.object
  BY DEF HasType, Has
<1>4. \A k \in DOMAIN o.object : IsObject(o) /\ HasType(o, k, {"integer"}) => o.object[k].integer \in Int
  BY <1>1, <1>2, LoadedAssumption
<1> QED BY <1>3, <1>4 DEF Get, HoldsInts

LEMMA ManifestFields ==
    /\ \A key \in {"problem_count", "trace_count"} : <<key, {"integer"}>> \in ManifestSchema.required
    /\ \A key \in {"category_counts", "status_counts", "test_origin_counts"} :
          <<key, {"object"}>> \in ManifestSchema.required
    /\ <<"problem_ids", {"array"}>> \in ManifestSchema.required
    /\ <<"review_status", {"string"}>> \in ManifestSchema.required
    /\ "problem_ids" \in ManifestSchema.lists
    /\ "review_status" \in DOMAIN ManifestSchema.enums
    /\ ManifestSchema.enums["review_status"] = ReviewStatuses
BY DEF ManifestSchema, Schema, Strings, Arrays, Objects, Fields

(* A list of strings names the problems of the index.                      *)
LEMMA ListNamesAll ==
    ASSUME data \in Datasets, NEW m, NEW ids, ids = ItemsOf(m, "problem_ids"), IsSequence(ids),
           \A v \in ToSet(ids) : DOMAIN v = {"string"}
    PROVE  NamesEveryProblem(m) <=> /\ {i.string : i \in ToSet(ids)} = index.problems
                                    /\ Len(ids) = Cardinality(index.problems)
<1> DEFINE S == {n \in 0..Len(ids) : \A i \in 1..n : DOMAIN ids[i] = {"string"}}
           read == Max(S)
<1>1. Len(ids) \in Nat /\ DOMAIN ids = 1..Len(ids)
  BY DEF IsSequence
<1>2. ToSet(ids) = {ids[i] : i \in 1..Len(ids)}
  BY <1>1 DEF ToSet
<1>3. NamesEveryProblem(m) <=> /\ {ids[i].string : i \in 1..read} = index.problems
                               /\ read = Cardinality(index.problems)
  BY DEF NamesEveryProblem
<1>4. read = Len(ids)
  <2>1. S \in SUBSET (0..Len(ids)) /\ Len(ids) \in S
    BY <1>1, <1>2
  <2> HIDE DEF S
  <2>2. Max(S) \in S /\ Len(ids) <= Max(S)
    BY <1>1, <2>1, NatMax
  <2>3. Max(S) \in 0..Len(ids)
    BY <2>1, <2>2
  <2> QED BY <1>1, <2>2, <2>3
<1> HIDE DEF read
<1>5. {ids[i].string : i \in 1..Len(ids)} = {i.string : i \in ToSet(ids)}
  BY <1>2
<1> QED BY <1>3, <1>4, <1>5

(* The counts, as functions.                                               *)
LEMMA CountsOf ==
    ASSUME AllRead
    PROVE  /\ \A c : CategoryCount(c) = Cardinality({p \in Places("diagnoses") : c \in FoundIn(p)})
           /\ \A s : StatusCount(s) = Cardinality(Naming("diagnoses", "status", s))
           /\ \A o : OriginCount(o) = Cardinality(Naming("test_cases", "origin", o))
           /\ \A c : CategoryCount(c) \in Nat /\ StatusCount(c) \in Nat /\ OriginCount(c) \in Nat
<1>1. DOMAIN index.diagnoses = Places("diagnoses") /\ DOMAIN index.tests = Places("test_cases")
  BY IndexIsAll
<1>2. \A p \in Places("diagnoses") : /\ index.diagnoses[p].cats = FoundIn(p)
                                     /\ index.diagnoses[p].status = FieldAt("diagnoses", p, "status")
  BY KeptDiagnosis
<1>3. \A p \in Places("test_cases") : index.tests[p].origin = FieldAt("test_cases", p, "origin")
  BY IndexIsAll DEF TestRec, FieldAt
<1>4. ASSUME NEW c
      PROVE  {p \in DOMAIN index.diagnoses : c \in index.diagnoses[p].cats}
                = {p \in Places("diagnoses") : c \in FoundIn(p)}
  BY <1>1, <1>2
<1>5. ASSUME NEW s
      PROVE  {p \in DOMAIN index.diagnoses : index.diagnoses[p].status = s} = Naming("diagnoses", "status", s)
  BY <1>1, <1>2 DEF Naming
<1>6. ASSUME NEW o
      PROVE  {p \in DOMAIN index.tests : index.tests[p].origin = o} = Naming("test_cases", "origin", o)
  BY <1>1, <1>3 DEF Naming
<1>7. IsFiniteSet(Places("diagnoses")) /\ IsFiniteSet(Places("test_cases"))
  BY AllPlacesAreFinite DEF Keys, AllRead
<1>8. ASSUME NEW c
      PROVE  /\ CategoryCount(c) = Cardinality({p \in Places("diagnoses") : c \in FoundIn(p)})
             /\ CategoryCount(c) \in Nat
  <2>1. PICK T : T = {p \in Places("diagnoses") : c \in FoundIn(p)}
    OBVIOUS
  <2>2. IsFiniteSet(T)
    BY <1>7, <2>1, FS_Subset
  <2> QED BY <1>4, <2>1, <2>2, FS_CardinalityType DEF CategoryCount, Quantify
<1>9. ASSUME NEW s
      PROVE  StatusCount(s) = Cardinality(Naming("diagnoses", "status", s)) /\ StatusCount(s) \in Nat
  <2>1. IsFiniteSet(Naming("diagnoses", "status", s))
    BY <1>7, FS_Subset DEF Naming
  <2> QED BY <1>5, <2>1, FS_CardinalityType DEF StatusCount, Quantify
<1>10. ASSUME NEW o
       PROVE  OriginCount(o) = Cardinality(Naming("test_cases", "origin", o)) /\ OriginCount(o) \in Nat
  <2>1. IsFiniteSet(Naming("test_cases", "origin", o))
    BY <1>7, FS_Subset DEF Naming
  <2> QED BY <1>6, <2>1, FS_CardinalityType DEF OriginCount, Quantify
<1> QED BY <1>8, <1>9, <1>10

(* One table of the manifest.                                              *)
LEMMA TableFaults ==
    ASSUME data \in Datasets, HasType(Manifest, "problem_ids", {"array"}),
           NEW key, HasType(Manifest, key, {"object"}), NEW keys, NEW want \in [keys -> Nat],
           IntCodes(Section(Manifest, key), keys, want) \cap LocalCodes = {}
    PROVE  /\ \A k \in keys : HasType(Section(Manifest, key), k, {"integer"})
           /\ IntCodes(Section(Manifest, key), keys, want) = {}
              <=> CountsAre(Section(Manifest, key), keys, want)
<1>1. Has(Manifest, key) /\ Section(Manifest, key) = Manifest.object[key]
  BY DEF Section, Get, HasType
<1>2. OfManifest(Section(Manifest, key))
  BY <1>1 DEF OfManifest
<1> QED BY <1>2, ManifestInts, IntsAre

(* A single count of the manifest.                                         *)
CountCodes(key, n) ==
    CheckInts(Manifest, {key} \cap DOMAIN Manifest.object, LAMBDA k : n)

LEMMA CountFaults ==
    ASSUME data \in Datasets, HasType(Manifest, "problem_ids", {"array"}),
           NEW key, HasType(Manifest, key, {"integer"}), NEW n \in Nat
    PROVE  CountCodes(key, n) = {} <=> (Get(Manifest, key).integer - n) % IntRange = 0
<1>1. {key} \cap DOMAIN Manifest.object = {key}
  BY DEF HasType, Has
<1>2. Required(Manifest, Fields({key}, {"integer"})) = {}
  BY DEF Required, Fields, HasType
<1>3. CountCodes(key, n) = When(AsInt(Get(Manifest, key).integer) # AsInt(n), "E_MANIFEST_COUNT_MISMATCH")
  <2>1. (\E k \in {key} : HasType(Manifest, k, {"integer"}) /\ AsInt(Get(Manifest, k).integer) # AsInt(n))
           <=> AsInt(Get(Manifest, key).integer) # AsInt(n)
    OBVIOUS
  <2> QED BY <1>1, <1>2, <2>1 DEF CountCodes, CheckInts, When
<1>4. Get(Manifest, key).integer \in Int
  <2>1. OfManifest(Manifest)
    BY DEF OfManifest
  <2>2. HoldsInts(Manifest)
    BY <2>1, ManifestInts
  <2> QED BY <2>2 DEF HoldsInts
<1>5. AsInt(Get(Manifest, key).integer) = AsInt(n) <=> (Get(Manifest, key).integer - n) % IntRange = 0
  <2>1. PICK z \in Int : z = Get(Manifest, key).integer
    BY <1>4
  <2>2. AsInt(z) = AsInt(n) <=> (z - n) % IntRange = 0
    BY SameInt
  <2> QED BY <2>1, <2>2
<1> QED BY <1>3, <1>5 DEF When

(* The parts of SummaryCodes.                                              *)
CategoryWant == [c \in Categories |-> CategoryCount(c)]
StatusWant == [s \in Statuses |-> StatusCount(s)]
OriginWant == [o \in TestOrigins |-> OriginCount(o)]
OtherCategories == DOMAIN Section(Manifest, "category_counts").object \ Categories
ReviewDiffers ==
    \E t \in ToSet(index.traces) : \E s \in t.reviewStatus : s # TextOf(Manifest, "review_status")

LEMMA SummaryParts ==
    ASSUME HasType(Manifest, "problem_ids", {"array"}),
           \A key \in {"category_counts", "status_counts", "test_origin_counts"} :
              HasType(Manifest, key, {"object"})
    PROVE  SummaryCodes(Manifest)
              = UNION {Check(Manifest, ManifestSchema), ReviewCodes(Manifest),
                       When(\E k \in ManifestKeys : ~Has(Manifest, k), "E_MISSING_KEY"),
                       CountCodes("problem_count", Cardinality(index.problems)),
                       CountCodes("trace_count", index.traceCount),
                       IntCodes(Section(Manifest, "category_counts"), Categories, CategoryWant)
                       \cup When(OtherCategories # {}, "E_MANIFEST_COUNT_MISMATCH"),
                       IntCodes(Section(Manifest, "status_counts"), Statuses, StatusWant),
                       IntCodes(Section(Manifest, "test_origin_counts"), TestOrigins, OriginWant),
                       When(~NamesEveryProblem(Manifest), "E_MANIFEST_COUNT_MISMATCH"),
                       When(ReviewDiffers, "E_MANIFEST_COUNT_MISMATCH")}
<1> DEFINE m == Manifest
           Of(key) == Section(m, key)
<1>1. CheckInts(Of("category_counts"), Categories, CategoryCount)
         = IntCodes(Section(Manifest, "category_counts"), Categories, CategoryWant)
  BY DEF CheckInts, IntCodes, CategoryWant
<1>2. CheckInts(Of("status_counts"), Statuses, StatusCount)
         = IntCodes(Section(Manifest, "status_counts"), Statuses, StatusWant)
  BY DEF CheckInts, IntCodes, StatusWant
<1>3. CheckInts(Of("test_origin_counts"), TestOrigins, OriginCount)
         = IntCodes(Section(Manifest, "test_origin_counts"), TestOrigins, OriginWant)
  BY DEF CheckInts, IntCodes, OriginWant
<1>4. PICK cat, sta, org :
         /\ cat = CheckInts(Of("category_counts"), Categories, CategoryCount)
         /\ sta = CheckInts(Of("status_counts"), Statuses, StatusCount)
         /\ org = CheckInts(Of("test_origin_counts"), TestOrigins, OriginCount)
  OBVIOUS
<1>5. PICK a, b, c, d, e, f, g :
         /\ a = Check(m, ManifestSchema) /\ b = ReviewCodes(m)
         /\ c = When(\E k \in ManifestKeys : ~Has(m, k), "E_MISSING_KEY")
         /\ d = CountCodes("problem_count", Cardinality(index.problems))
         /\ e = CountCodes("trace_count", index.traceCount)
         /\ f = When(OtherCategories # {}, "E_MANIFEST_COUNT_MISMATCH")
         /\ g = When(ReviewDiffers, "E_MANIFEST_COUNT_MISMATCH")
  OBVIOUS
<1>6. PICK n : n = When(~NamesEveryProblem(m), "E_MANIFEST_COUNT_MISMATCH")
  OBVIOUS
<1>7. When(HasType(m, "problem_ids", {"array"}) /\ ~NamesEveryProblem(m), "E_MANIFEST_COUNT_MISMATCH") = n
  BY <1>6
<1>8. SummaryCodes(m) = UNION {a, b, c, d, e,
         IF HasType(m, "category_counts", {"object"}) THEN cat \cup f ELSE {},
         IF HasType(m, "status_counts", {"object"}) THEN sta ELSE {},
         IF HasType(m, "test_origin_counts", {"object"}) THEN org ELSE {}, n, g}
  BY <1>4, <1>5, <1>7 DEF SummaryCodes, CountCodes, OtherCategories, ReviewDiffers
<1>9. SummaryCodes(m) = UNION {a, b, c, d, e, cat \cup f, sta, org, n, g}
  BY <1>8
<1> QED BY <1>1, <1>2, <1>3, <1>4, <1>5, <1>6, <1>9

(* The numbers of the manifest, in the tables of what is wanted.           *)
InTable(n, o, keys, want) == \E k \in keys : n = <<Get(o, k).integer, want[k]>>

LEMMA ManifestCountsAre ==
    ASSUME AllRead
    PROVE  \A n : n \in ManifestCounts <=>
              \/ n = <<Get(Manifest, "problem_count").integer, Cardinality(DOMAIN data.files)>>
              \/ n = <<Get(Manifest, "trace_count").integer, Cardinality(Places("reasoning_traces"))>>
              \/ InTable(n, Section(Manifest, "category_counts"), Categories, CategoryWant)
              \/ InTable(n, Section(Manifest, "status_counts"), Statuses, StatusWant)
              \/ InTable(n, Section(Manifest, "test_origin_counts"), TestOrigins, OriginWant)
<1>1. \A c \in Categories : CategoryWant[c] = Cardinality({p \in Places("diagnoses") : c \in FoundIn(p)})
  BY CountsOf DEF CategoryWant
<1>2. \A t \in Statuses : StatusWant[t] = Cardinality(Naming("diagnoses", "status", t))
  BY CountsOf DEF StatusWant
<1>3. \A o \in TestOrigins : OriginWant[o] = Cardinality(Naming("test_cases", "origin", o))
  BY CountsOf DEF OriginWant
<1> DEFINE Table(key, names, want) == {<<Get(Section(Manifest, key), k).integer, want[k]>> : k \in names}
<1>4. ManifestCounts =
         {<<Get(Manifest, "problem_count").integer, Cardinality(DOMAIN data.files)>>,
          <<Get(Manifest, "trace_count").integer, Cardinality(Places("reasoning_traces"))>>}
         \cup Table("category_counts", Categories, CategoryWant)
         \cup Table("status_counts", Statuses, StatusWant)
         \cup Table("test_origin_counts", TestOrigins, OriginWant)
  <2>1. {<<Get(Section(Manifest, "category_counts"), c).integer,
           Cardinality({p \in Places("diagnoses") : c \in FoundIn(p)})>> : c \in Categories}
           = Table("category_counts", Categories, CategoryWant)
    BY <1>1
  <2>2. {<<Get(Section(Manifest, "status_counts"), t).integer,
           Cardinality(Naming("diagnoses", "status", t))>> : t \in Statuses}
           = Table("status_counts", Statuses, StatusWant)
    BY <1>2
  <2>3. {<<Get(Section(Manifest, "test_origin_counts"), o).integer,
           Cardinality(Naming("test_cases", "origin", o))>> : o \in TestOrigins}
           = Table("test_origin_counts", TestOrigins, OriginWant)
    BY <1>3
  <2> HIDE DEF Table
  <2> QED BY <2>1, <2>2, <2>3 DEF ManifestCounts
<1>5. \A n, key, names, want : n \in Table(key, names, want) <=> InTable(n, Section(Manifest, key), names, want)
  BY DEF InTable
<1> HIDE DEF Table
<1> QED BY <1>4, <1>5

LEMMA TableCounts ==
    ASSUME NEW o, NEW keys, NEW want
    PROVE  CountsAre(o, keys, want) <=> \A n : InTable(n, o, keys, want) => (n[1] - n[2]) % IntRange = 0
<1>1. CountsAre(o, keys, want)
         => \A n : InTable(n, o, keys, want) => (n[1] - n[2]) % IntRange = 0
  BY DEF CountsAre, InTable
<1>2. ASSUME \A n : InTable(n, o, keys, want) => (n[1] - n[2]) % IntRange = 0
      PROVE  CountsAre(o, keys, want)
  <2> SUFFICES ASSUME NEW k \in keys PROVE (Get(o, k).integer - want[k]) % IntRange = 0
    BY DEF CountsAre
  <2>1. PICK n : n = <<Get(o, k).integer, want[k]>>
    OBVIOUS
  <2>2. n[1] = Get(o, k).integer /\ n[2] = want[k]
    BY <2>1
  <2>3. InTable(n, o, keys, want)
    BY <2>1 DEF InTable
  <2> QED BY <1>2, <2>2, <2>3
<1> QED BY <1>1, <1>2

LEMMA TableNumbers ==
    ASSUME NEW o, NEW keys, NEW want \in [keys -> Nat], HoldsInts(o),
           \A k \in keys : HasType(o, k, {"integer"})
    PROVE  \A n : InTable(n, o, keys, want) => n[1] \in Int /\ n[2] \in Int
BY DEF HoldsInts, InTable

(* The manifest as the code compares it: numbers in the width of int, and  *)
(* signed where the reviewer is a name or null.                            *)
CountsAccepted == \A n \in ManifestCounts : (n[1] - n[2]) % IntRange = 0
CountsAreNumbers == \A n \in ManifestCounts : n[1] \in Int /\ n[2] \in Int
ManifestAccepted ==
    LET ids == ItemsOf(Manifest, "problem_ids")
    IN  /\ CountsAccepted
        /\ DOMAIN Section(Manifest, "category_counts").object = Categories
        /\ {i.string : i \in ToSet(ids)} = DOMAIN data.files
        /\ Len(ids) = Cardinality(DOMAIN data.files)
        /\ \A p \in Places("reasoning_traces") :
              FieldAt("reasoning_traces", p, "review_status") = TextOf(Manifest, "review_status")
ReviewersAreNames ==
    \A k \in SigningKeys : HasType(Manifest, k, {"null"}) \/ TextOf(Manifest, k) # ""

LEMMA SigningIs ==
    ASSUME ReviewCodes(Manifest) = {}, TextOf(Manifest, "review_status") \in ReviewStatuses,
           ReviewersAreNames
    PROVE  ManifestIsSigned
<1> DEFINE signed == {k \in {"reviewer", "reviewed_at"} : TextOf(Manifest, k) # ""}
<1>1. /\ ~(TextOf(Manifest, "review_status") = "planner_reviewed" /\ Cardinality(signed) < 2)
      /\ ~(TextOf(Manifest, "review_status") = "pending_planner_review" /\ signed # {})
  BY DEF ReviewCodes, When
<1>2. ASSUME NEW k \in SigningKeys, TextOf(Manifest, k) = "" PROVE Cardinality(signed) < 2
  <2>1. PICK other : signed \in SUBSET {other}
    BY <1>2 DEF SigningKeys
  <2>2. IsFiniteSet({other}) /\ Cardinality({other}) = 1
    BY FS_Singleton
  <2> HIDE DEF signed
  <2>3. IsFiniteSet(signed) /\ Cardinality(signed) <= 1
    BY <2>1, <2>2, FS_Subset
  <2>4. Cardinality(signed) \in Nat
    BY <2>3, FS_CardinalityType
  <2> QED BY <2>3, <2>4
<1>3. \A k \in SigningKeys : signed = {} => TextOf(Manifest, k) = ""
  BY DEF SigningKeys
<1> HIDE DEF signed
<1> QED BY <1>1, <1>2, <1>3 DEF ManifestIsSigned, ReviewersAreNames, ReviewStatuses

(* Where its fields are right, the manifest gets no diagnostic exactly if  *)
(* it agrees with the records, as the code compares them.                  *)
LEMMA SummaryFaults ==
    ASSUME AllRead, IsLoaded(data.manifest), index.problems = DOMAIN data.files,
           NEW codes, codes = SummaryCodes(Manifest), codes \cap LocalCodes = {}
    PROVE  /\ HasType(Manifest, "problem_ids", {"array"})
           /\ \A v \in ToSet(ItemsOf(Manifest, "problem_ids")) : DOMAIN v = {"string"}
           /\ codes = {} <=> ManifestAccepted
           /\ CountsAreNumbers /\ (ReviewersAreNames => ManifestIsSigned)
<1> DEFINE m == Manifest
           ids == ItemsOf(m, "problem_ids")
           cats == IntCodes(Section(m, "category_counts"), Categories, CategoryWant)
           stats == IntCodes(Section(m, "status_counts"), Statuses, StatusWant)
           origins == IntCodes(Section(m, "test_origin_counts"), TestOrigins, OriginWant)
           problems == CountCodes("problem_count", Cardinality(index.problems))
           traces == CountCodes("trace_count", index.traceCount)
           missing == When(\E k \in ManifestKeys : ~Has(m, k), "E_MISSING_KEY")
           others == When(OtherCategories # {}, "E_MANIFEST_COUNT_MISMATCH")
           unnamed == When(~NamesEveryProblem(m), "E_MANIFEST_COUNT_MISMATCH")
           differs == When(ReviewDiffers, "E_MANIFEST_COUNT_MISMATCH")
<1>1. Check(m, ManifestSchema) = {}
  <2>1. Check(m, ManifestSchema) \subseteq codes
    BY DEF SummaryCodes
  <2> QED BY <2>1, CheckIsLocal
<1>2. /\ HasType(m, "problem_ids", {"array"})
      /\ HasType(m, "problem_count", {"integer"}) /\ HasType(m, "trace_count", {"integer"})
      /\ \A key \in {"category_counts", "status_counts", "test_origin_counts"} : HasType(m, key, {"object"})
      /\ \A v \in ToSet(ids) : DOMAIN v = {"string"}
      /\ TextOf(m, "review_status") \in ReviewStatuses
  BY <1>1, ManifestFields, CheckedIsTyped
<1>3. codes = UNION {Check(m, ManifestSchema), ReviewCodes(m), missing, problems, traces,
                     cats \cup others, stats, origins, unnamed, differs}
  BY <1>2, SummaryParts
<1> HIDE DEF cats, stats, origins, problems, traces, others, unnamed, differs, missing
<1>4. ReviewCodes(m) = {} /\ missing = {}
  <2>1. missing \subseteq LocalCodes
    BY FieldCodes DEF missing, When
  <2> QED BY <1>3, <2>1, ReviewIsLocal
<1>5. cats \cap LocalCodes = {} /\ stats \cap LocalCodes = {} /\ origins \cap LocalCodes = {}
  BY <1>3
<1>6. codes = {} <=> /\ problems = {} /\ traces = {} /\ cats = {} /\ others = {} /\ stats = {}
                     /\ origins = {} /\ unnamed = {} /\ differs = {}
  BY <1>1, <1>3, <1>4
<1>7. data \in Datasets
  BY DEF AllRead
<1>8. /\ Cardinality(DOMAIN data.files) \in Nat
      /\ problems = {} <=> (Get(m, "problem_count").integer - Cardinality(DOMAIN data.files)) % IntRange = 0
  <2>1. Cardinality(DOMAIN data.files) \in Nat
    BY <1>7, FilesAreFinite, FS_CardinalityType
  <2>2. PICK n \in Nat : n = Cardinality(DOMAIN data.files)
    BY <2>1
  <2>3. CountCodes("problem_count", n) = {} <=> (Get(m, "problem_count").integer - n) % IntRange = 0
    BY <1>2, <1>7, CountFaults
  <2> QED BY <2>1, <2>2, <2>3 DEF problems
<1>9. traces = {} <=>
         (Get(m, "trace_count").integer - Cardinality(Places("reasoning_traces"))) % IntRange = 0
  <2>1. index.traceCount = Cardinality(Places("reasoning_traces")) /\ index.traceCount \in Nat
    <3>1. /\ IsFiniteSet(PlacesOf("reasoning_traces", DOMAIN data.files))
          /\ index.traceCount = Cardinality(PlacesOf("reasoning_traces", DOMAIN data.files))
      BY DEF AllRead, IndexIs
    <3> QED BY <3>1, AllPlaces, FS_CardinalityType
  <2>2. PICK n \in Nat : n = index.traceCount
    BY <2>1
  <2>3. CountCodes("trace_count", n) = {} <=> (Get(m, "trace_count").integer - n) % IntRange = 0
    BY <1>2, <1>7, CountFaults
  <2> QED BY <2>1, <2>2, <2>3 DEF traces
<1>10. /\ CategoryWant \in [Categories -> Nat] /\ StatusWant \in [Statuses -> Nat]
       /\ OriginWant \in [TestOrigins -> Nat]
  BY CountsOf DEF CategoryWant, StatusWant, OriginWant
<1>11. /\ \A c \in Categories : HasType(Section(m, "category_counts"), c, {"integer"})
       /\ cats = {} <=> CountsAre(Section(m, "category_counts"), Categories, CategoryWant)
  BY <1>2, <1>5, <1>7, <1>10, TableFaults DEF cats
<1>12. stats = {} <=> CountsAre(Section(m, "status_counts"), Statuses, StatusWant)
  BY <1>2, <1>5, <1>7, <1>10, TableFaults DEF stats
<1>13. origins = {} <=> CountsAre(Section(m, "test_origin_counts"), TestOrigins, OriginWant)
  BY <1>2, <1>5, <1>7, <1>10, TableFaults DEF origins
<1>14. others = {} <=> DOMAIN Section(m, "category_counts").object = Categories
  <2>1. Categories \subseteq DOMAIN Section(m, "category_counts").object
    BY <1>11 DEF HasType, Has
  <2> QED BY <2>1 DEF others, OtherCategories, When
<1>15. unnamed = {} <=> /\ {i.string : i \in ToSet(ids)} = DOMAIN data.files
                        /\ Len(ids) = Cardinality(DOMAIN data.files)
  <2>1. IsSequence(ids)
    <3>1. IsLoaded(data.manifest) /\ m = data.manifest.loaded
      BY <1>2, ManifestIs
    <3> QED BY <1>7, <3>1, ListsAreSequences
  <2> HIDE DEF m
  <2>2. NamesEveryProblem(m) <=> /\ {i.string : i \in ToSet(ids)} = index.problems
                                 /\ Len(ids) = Cardinality(index.problems)
    BY <1>2, <1>7, <2>1, ListNamesAll
  <2> QED BY <2>2 DEF unnamed, When
<1>16. differs = {} <=> \A p \in Places("reasoning_traces") :
                           FieldAt("reasoning_traces", p, "review_status") = TextOf(m, "review_status")
  <2>1. ASSUME NEW p \in Places("reasoning_traces")
        PROVE  index.traces[p].reviewStatus = {FieldAt("reasoning_traces", p, "review_status")}
    <3>1. PICK t : t = RecordAt("reasoning_traces", p)
      OBVIOUS
    <3>2. HasType(t, "review_status", {"string"})
      BY <2>1, <3>1, RecordsAreTyped DEF TraceIsTyped
    <3>3. index.traces[p] = TraceRec(t, p[1])
      BY <2>1, <3>1, IndexIsAll
    <3> QED BY <3>1, <3>2, <3>3 DEF TraceRec, FieldAt
  <2>2. ToSet(index.traces) = {index.traces[p] : p \in Places("reasoning_traces")}
    BY IndexIsAll DEF ToSet
  <2>3. ReviewDiffers <=> \E p \in Places("reasoning_traces") :
           FieldAt("reasoning_traces", p, "review_status") # TextOf(m, "review_status")
    BY <2>1, <2>2 DEF ReviewDiffers
  <2> QED BY <2>3 DEF differs, When
<1>17. ManifestAccepted <=>
         /\ (Get(m, "problem_count").integer - Cardinality(DOMAIN data.files)) % IntRange = 0
         /\ (Get(m, "trace_count").integer - Cardinality(Places("reasoning_traces"))) % IntRange = 0
         /\ CountsAre(Section(m, "category_counts"), Categories, CategoryWant)
         /\ DOMAIN Section(m, "category_counts").object = Categories
         /\ CountsAre(Section(m, "status_counts"), Statuses, StatusWant)
         /\ CountsAre(Section(m, "test_origin_counts"), TestOrigins, OriginWant)
         /\ {i.string : i \in ToSet(ids)} = DOMAIN data.files
         /\ Len(ids) = Cardinality(DOMAIN data.files)
         /\ \A p \in Places("reasoning_traces") :
               FieldAt("reasoning_traces", p, "review_status") = TextOf(m, "review_status")
  <2>1. CountsAccepted <=>
         /\ (Get(m, "problem_count").integer - Cardinality(DOMAIN data.files)) % IntRange = 0
         /\ (Get(m, "trace_count").integer - Cardinality(Places("reasoning_traces"))) % IntRange = 0
         /\ CountsAre(Section(m, "category_counts"), Categories, CategoryWant)
         /\ CountsAre(Section(m, "status_counts"), Statuses, StatusWant)
         /\ CountsAre(Section(m, "test_origin_counts"), TestOrigins, OriginWant)
    <3>1. PICK p, t : /\ p = <<Get(m, "problem_count").integer, Cardinality(DOMAIN data.files)>>
                      /\ t = <<Get(m, "trace_count").integer, Cardinality(Places("reasoning_traces"))>>
      OBVIOUS
    <3>2. /\ p[1] = Get(m, "problem_count").integer /\ p[2] = Cardinality(DOMAIN data.files)
          /\ t[1] = Get(m, "trace_count").integer /\ t[2] = Cardinality(Places("reasoning_traces"))
      BY <3>1
    <3>3. PICK cs, ss, os : /\ cs = Section(m, "category_counts") /\ ss = Section(m, "status_counts")
                            /\ os = Section(m, "test_origin_counts")
      OBVIOUS
    <3>4. \A n : n \in ManifestCounts <=> \/ n = p \/ n = t
                                           \/ InTable(n, cs, Categories, CategoryWant)
                                           \/ InTable(n, ss, Statuses, StatusWant)
                                           \/ InTable(n, os, TestOrigins, OriginWant)
      BY <3>1, <3>3, ManifestCountsAre
    <3>5. CountsAccepted <=> /\ (p[1] - p[2]) % IntRange = 0 /\ (t[1] - t[2]) % IntRange = 0
                             /\ CountsAre(cs, Categories, CategoryWant)
                             /\ CountsAre(ss, Statuses, StatusWant)
                             /\ CountsAre(os, TestOrigins, OriginWant)
      BY <3>4, TableCounts DEF CountsAccepted
    <3> QED BY <3>2, <3>3, <3>5
  <2> QED BY <2>1 DEF ManifestAccepted
<1>18. CountsAreNumbers
  <2>1. HoldsInts(m)
    BY <1>2, <1>7, ManifestInts DEF OfManifest
  <2>2. \A key \in {"category_counts", "status_counts", "test_origin_counts"} : HoldsInts(Section(m, key))
    <3> TAKE key \in {"category_counts", "status_counts", "test_origin_counts"}
    <3>1. OfManifest(Section(m, key))
      BY <1>2 DEF OfManifest, Section, Get, HasType
    <3> QED BY <1>2, <1>7, <3>1, ManifestInts
  <2>3. /\ \A t \in Statuses : HasType(Section(m, "status_counts"), t, {"integer"})
        /\ \A o \in TestOrigins : HasType(Section(m, "test_origin_counts"), o, {"integer"})
    BY <1>2, <1>5, <1>7, <1>10, TableFaults DEF stats, origins
  <2>4. Cardinality(Places("reasoning_traces")) \in Int
    BY <1>7, AllPlacesAreFinite, FS_CardinalityType DEF AllRead, Keys
  <2>5. Get(m, "problem_count").integer \in Int /\ Get(m, "trace_count").integer \in Int
    BY <1>2, <2>1 DEF HoldsInts
  <2>6. \A n : InTable(n, Section(m, "category_counts"), Categories, CategoryWant)
                 => n[1] \in Int /\ n[2] \in Int
    BY <1>10, <1>11, <2>2, TableNumbers
  <2>7. \A n : InTable(n, Section(m, "status_counts"), Statuses, StatusWant)
                 => n[1] \in Int /\ n[2] \in Int
    BY <1>10, <2>2, <2>3, TableNumbers
  <2>8. \A n : InTable(n, Section(m, "test_origin_counts"), TestOrigins, OriginWant)
                 => n[1] \in Int /\ n[2] \in Int
    BY <1>10, <2>2, <2>3, TableNumbers
  <2> QED BY <1>8, <2>4, <2>5, <2>6, <2>7, <2>8, ManifestCountsAre DEF CountsAreNumbers
<1>19. ReviewersAreNames => ManifestIsSigned
  BY <1>2, <1>4, SigningIs
<1> HIDE DEF m, ids
<1> QED BY <1>2, <1>6, <1>8, <1>9, <1>11, <1>12, <1>13, <1>14, <1>15, <1>16, <1>17,
            <1>18, <1>19 DEF m, ids

----------------------------------------------------------------------------
(* The verdict                                                             *)

(* What phase 2 adds to the agreement of the files.                        *)
RecordsAgree ==
    /\ ConsistentSoFar(DOMAIN data.files) /\ TraceReferencesResolve
    /\ TracesAreComplete /\ DiagnosesAreConsistent

(* What the exporter needs of a data set.                                  *)
Accepted ==
    /\ IsLoaded(data.manifest)
    /\ HasType(Manifest, "problem_ids", {"array"})
    /\ \A v \in ToSet(ItemsOf(Manifest, "problem_ids")) : DOMAIN v = {"string"}
    /\ {v.string : v \in ToSet(ItemsOf(Manifest, "problem_ids"))} = DOMAIN data.files
    /\ \A f \in DOMAIN data.files : HasItsFields(f)
    /\ ConsistentSoFar(DOMAIN data.files)

(* While no field is wrong: the index is that of the files read so far,    *)
(* and there is a diagnostic exactly if they do not agree.                 *)
ReadIs(S) ==
    /\ IsLoaded(data.manifest) /\ IndexIs(index, S)
    /\ \A f \in S : HasItsFields(f)
VerdictInv ==
    /\ vpc \in {"idle", "manifest"} => filesRead = {} /\ index = NoIndex
    /\ vpc \in {"problems", "summary"} /\ NoFieldFault(diags) => ReadIs(filesRead)
    /\ vpc = "problems" /\ NoFieldFault(diags) => (diags = {} <=> ConsistentSoFar(filesRead))
    /\ vpc = "summary" => filesRead = DOMAIN data.files
    /\ vpc = "summary" /\ NoFieldFault(diags) => (diags = {} <=> RecordsAgree)
    /\ vpc # "done" => verdict = "none"
    /\ verdict = "pass" => Accepted

LEMMA DataLater ==
    ASSUME UNCHANGED data
    PROVE  /\ Accepted' = Accepted /\ RecordsAgree' = RecordsAgree
           /\ \A S : ConsistentSoFar(S)' = ConsistentSoFar(S)
           /\ index' = index => \A S : ReadIs(S)' = ReadIs(S)
<1>1. \A key : (Places(key))' = Places(key)
  BY DEF Places
<1>2. \A key, p, field : (FieldAt(key, p, field))' = FieldAt(key, p, field)
  BY DEF FieldAt, RecordAt
<1>3. \A key, p : (RecordAt(key, p))' = RecordAt(key, p)
  BY DEF RecordAt
<1>4. \A key, S : (PlacesOf(key, S))' = PlacesOf(key, S)
  BY <1>1 DEF PlacesOf
<1>5. \A f : (IdOf(f))' = IdOf(f)
  BY DEF IdOf, ProblemOf
<1>6. \A S : ConsistentSoFar(S)' = ConsistentSoFar(S)
  <2>1. \A key, S : IdsDiffer(key, S)' = IdsDiffer(key, S)
    BY <1>2, <1>4 DEF IdsDiffer
  <2>2. \A S : FilesAgree(S)' = FilesAgree(S)
    BY <1>5 DEF FilesAgree
  <2>3. \A S : FieldsAgree(S)' = FieldsAgree(S)
    BY <1>2, <1>4 DEF FieldsAgree
  <2> QED BY <2>1, <2>2, <2>3 DEF ConsistentSoFar
<1>7. \A f : HasItsFields(f)' = HasItsFields(f)
  BY DEF HasItsFields, Manifest
<1>8. \A key, field, value : (Naming(key, field, value))' = Naming(key, field, value)
  BY <1>1, <1>2 DEF Naming
<1>9. \A p : (FoundIn(p))' = FoundIn(p)
  BY <1>3 DEF FoundIn
<1>10. TraceReferencesResolve' = TraceReferencesResolve
  BY <1>1, <1>2, <1>8 DEF TraceReferencesResolve
<1>11. TracesAreComplete' = TracesAreComplete
  BY <1>1, <1>3, <1>8 DEF TracesAreComplete
<1>12. DiagnosesAreConsistent' = DiagnosesAreConsistent
  BY <1>1, <1>2, <1>9 DEF DiagnosesAreConsistent
<1>13. RecordsAgree' = RecordsAgree
  BY <1>6, <1>10, <1>11, <1>12 DEF RecordsAgree
<1>14. Accepted' = Accepted
  BY <1>6, <1>7 DEF Accepted, Manifest
<1>15. index' = index => \A S : IndexIs(index, S)' = IndexIs(index, S)
  BY <1>3, <1>4, <1>5 DEF IndexIs
<1> QED BY <1>6, <1>7, <1>13, <1>14, <1>15 DEF ReadIs

LEMMA IndexLater ==
    ASSUME UNCHANGED data, NEW x, NEW S, IndexIs(x, S), index' = x
    PROVE  IndexIs(index, S)'
<1>1. \A key, T : (PlacesOf(key, T))' = PlacesOf(key, T)
  BY DEF PlacesOf, Places
<1>2. \A key, p : (RecordAt(key, p))' = RecordAt(key, p)
  BY DEF RecordAt
<1>3. \A f : (IdOf(f))' = IdOf(f)
  BY DEF IdOf, ProblemOf
<1> QED BY <1>1, <1>2, <1>3 DEF IndexIs

LEMMA NothingIndexed ==
    ASSUME IsLoaded(data.manifest), index = NoIndex
    PROVE  ReadIs({}) /\ ConsistentSoFar({})
<1>1. \A key : PlacesOf(key, {}) = {}
  BY DEF PlacesOf
<1>2. ConsistentSoFar({})
  BY <1>1 DEF ConsistentSoFar, IdsDiffer, FilesAgree, FieldsAgree
<1>3. IsFiniteSet({}) /\ Cardinality({}) = 0
  BY FS_EmptySet
<1>4. IndexIs(NoIndex, {})
  <2>1. <<>> = [p \in PlacesOf("reasoning_traces", {}) |-> TraceRec(RecordAt("reasoning_traces", p), p[1])]
    BY <1>1
  <2>2. <<>> = [p \in PlacesOf("candidate_solutions", {}) |-> SolRec(RecordAt("candidate_solutions", p), p[1])]
    BY <1>1
  <2>3. <<>> = [p \in PlacesOf("test_cases", {}) |-> TestRec(RecordAt("test_cases", p), p[1])]
    BY <1>1
  <2>4. <<>> = [p \in PlacesOf("diagnoses", {}) |-> DiagRec(RecordAt("diagnoses", p), p[1])]
    BY <1>1
  <2>5. /\ NoIndex.problems = {} /\ NoIndex.traceCount = 0 /\ NoIndex.traces = <<>>
        /\ NoIndex.solutions = <<>> /\ NoIndex.tests = <<>> /\ NoIndex.diagnoses = <<>>
        /\ NoIndex.verifications = <<>>
    BY DEF NoIndex
  <2>6. NoIndex.problems = {IdOf(f) : f \in {}} /\ DOMAIN NoIndex.verifications = {}
    BY <2>5
  <2> QED BY <1>1, <1>3, <2>1, <2>2, <2>3, <2>4, <2>5, <2>6 DEF IndexIs
<1> QED BY <1>2, <1>4 DEF ReadIs

LEMMA FaultShows ==
    ASSUME NEW ds, NEW code \in LocalCodes, NEW file, NEW id, <<code, file, id>> \in ds
    PROVE  ~NoFieldFault(ds)
<1>1. <<code, file, id>>[1] = code
  OBVIOUS
<1> QED BY <1>1 DEF NoFieldFault

LEMMA CheckDirectoryKeeps ==
    ASSUME TypeOK, VerdictInv, CheckDirectory
    PROVE  VerdictInv'
<1>1. UNCHANGED <<data, filesRead, index>> /\ vpc = "idle"
  BY DEF CheckDirectory
<1>2. filesRead = {} /\ index = NoIndex /\ verdict = "none"
  BY <1>1 DEF VerdictInv
<1>3. \/ vpc' = "done" /\ verdict' = "fail"
      \/ vpc' = "manifest" /\ UNCHANGED verdict
  BY DEF CheckDirectory, Return
<1> QED BY <1>1, <1>2, <1>3 DEF VerdictInv

LEMMA LoadManifestKeeps ==
    ASSUME TypeOK, VerdictInv, LoadManifest
    PROVE  VerdictInv'
<1>1. UNCHANGED <<data, filesRead, index, verdict>> /\ vpc = "manifest" /\ vpc' = "problems"
  BY DEF LoadManifest
<1>2. filesRead = {} /\ index = NoIndex /\ verdict = "none"
  BY <1>1 DEF VerdictInv
<1>3. CASE IsLoaded(data.manifest)
  <2>1. diags' = {}
    BY <1>3 DEF LoadManifest
  <2>2. ReadIs({})' /\ ConsistentSoFar({})'
    BY <1>1, <1>2, <1>3, NothingIndexed, DataLater
  <2> QED BY <1>1, <1>2, <2>1, <2>2 DEF VerdictInv
<1>4. CASE ~IsLoaded(data.manifest)
  <2>1. diags' = {<<data.manifest.error, "manifest", "">>}
    BY <1>4 DEF LoadManifest
  <2>2. data.manifest.error \in LocalCodes
    <3>1. data.manifest.error \in {"E_FILE_READ", "E_JSON_PARSE"}
      BY <1>4, LoadedAssumption DEF TypeOK
    <3> QED BY <3>1, FieldCodes
  <2>3. ~NoFieldFault(diags')
    BY <2>1, <2>2 DEF NoFieldFault
  <2>4. ~NoFieldFault(diags)'
    BY <2>3 DEF NoFieldFault
  <2> QED BY <1>1, <1>2, <2>4 DEF VerdictInv
<1> QED BY <1>3, <1>4

LEMMA LoadProblemKeeps ==
    ASSUME TypeOK, VerdictInv, LoadProblem
    PROVE  VerdictInv'
<1>1. PICK S, f, file, doc, ds : S = filesRead /\ f = NextFile /\ file = data.files[f]
                                 /\ doc = file.loaded /\ ds = FileDiags(doc, f, Manifest)
  OBVIOUS
<1>2. /\ UNCHANGED <<data, vpc, verdict>> /\ vpc = "problems"
      /\ filesRead' = S \cup {f} /\ Unread # {}
  BY <1>1 DEF LoadProblem
<1>3. f \in DOMAIN data.files /\ f \notin S /\ data \in Datasets
  BY <1>1, <1>2, NextIsUnread DEF TypeOK, Unread
<1>4. \/ ~IsLoaded(file) /\ diags' = diags \cup {<<file.error, f, "">>}
      \/ IsLoaded(file) /\ diags' = diags \cup {<<"E_TYPE_MISMATCH", f, "">>}
      \/ IsLoaded(file) /\ diags' = diags \cup ds /\ index' = Extended(doc, f)
  BY <1>1 DEF LoadProblem
<1>5. ASSUME NoFieldFault(diags')
      PROVE  /\ IsLoaded(file) /\ NoFieldFault(diags) /\ NoFieldFault(ds)
             /\ diags' = diags \cup ds /\ index' = Extended(doc, f)
  <2>1. ~IsLoaded(file) => file.error \in LocalCodes
    <3>1. ~IsLoaded(file) => file.error \in {"E_FILE_READ", "E_JSON_PARSE"}
      BY <1>1, <1>3, LoadedAssumption
    <3> QED BY <3>1, FieldCodes
  <2>2. ~(~IsLoaded(file) /\ diags' = diags \cup {<<file.error, f, "">>})
    BY <1>5, <2>1, FaultShows
  <2>3. diags' # diags \cup {<<"E_TYPE_MISMATCH", f, "">>}
    <3>1. "E_TYPE_MISMATCH" \in LocalCodes
      BY FieldCodes
    <3> QED BY <1>5, <3>1, FaultShows
  <2>4. IsLoaded(file) /\ diags' = diags \cup ds /\ index' = Extended(doc, f)
    BY <1>4, <2>2, <2>3
  <2> QED BY <1>5, <2>4 DEF NoFieldFault
<1>6. ASSUME NoFieldFault(diags')
      PROVE  ReadIs(S \cup {f})' /\ (diags' = {} <=> ConsistentSoFar(S \cup {f}))
  <2>1. /\ IsLoaded(file) /\ NoFieldFault(diags) /\ NoFieldFault(ds)
        /\ diags' = diags \cup ds /\ index' = Extended(doc, f)
    BY <1>5, <1>6
  <2>2. ReadIs(S) /\ (diags = {} <=> ConsistentSoFar(S))
    BY <1>1, <1>2, <2>1 DEF VerdictInv
  <2>3. /\ IsTyped(doc) /\ IsVersioned(Section(doc, "meta"), Manifest)
        /\ ds = {} <=> FileAgrees(doc, f)
    BY <1>1, <2>1, FileFaults
  <2>4. HasItsFields(f) /\ doc = data.files[f].loaded
    BY <1>1, <2>1, <2>3 DEF HasItsFields
  <2>5. IndexIs(index, S)
    BY <2>2 DEF ReadIs
  <2>6. ConsistentSoFar(S \cup {f}) <=> ConsistentSoFar(S) /\ FileAgrees(doc, f)
    BY <1>3, <2>4, <2>5, OneMoreFile
  <2>7. IndexIs(Extended(doc, f), S \cup {f})
    BY <1>3, <2>4, <2>5, IndexGrows
  <2>8. PICK x : x = Extended(doc, f) /\ index' = x /\ IndexIs(x, S \cup {f})
    BY <2>1, <2>7
  <2>9. ReadIs(S \cup {f})'
    <3>1. (\A g \in S \cup {f} : HasItsFields(g)) /\ IsLoaded(data.manifest)
      BY <2>2, <2>4 DEF ReadIs
    <3>2. IndexIs(index, S \cup {f})'
      BY <1>2, <2>8, IndexLater
    <3>3. \A g : HasItsFields(g)' = HasItsFields(g)
      BY <1>2 DEF HasItsFields, Manifest
    <3> QED BY <1>2, <3>1, <3>2, <3>3 DEF ReadIs
  <2> QED BY <2>1, <2>2, <2>3, <2>6, <2>9
<1>7. NoFieldFault(diags)' = NoFieldFault(diags') /\ Accepted' = Accepted
      /\ ConsistentSoFar(S \cup {f})' = ConsistentSoFar(S \cup {f})
  BY <1>2, DataLater DEF NoFieldFault
<1> QED BY <1>2, <1>6, <1>7 DEF VerdictInv

LEMMA ResolveKeeps ==
    ASSUME TypeOK, VerdictInv, Resolve
    PROVE  VerdictInv'
<1>1. /\ UNCHANGED <<data, filesRead, index, verdict>> /\ vpc = "problems" /\ vpc' = "summary"
      /\ Unread = {}
  BY DEF Resolve
<1>2. filesRead = DOMAIN data.files /\ data \in Datasets
  BY <1>1 DEF TypeOK, Unread
<1>3. PICK a, b, c, d, ds : /\ a = UnresolvedTraces /\ b = UnresolvedResults
                            /\ c = Associations /\ d = StatusRules /\ ds = diags'
  OBVIOUS
<1>4. ds = diags \cup a \cup b \cup c \cup d
  BY <1>3 DEF Resolve
<1>5. ASSUME NoFieldFault(ds)
      PROVE  ReadIs(filesRead) /\ (ds = {} <=> RecordsAgree)
  <2>1. NoFieldFault(diags) /\ NoFieldFault(d)
    BY <1>4, <1>5 DEF NoFieldFault
  <2>2. ReadIs(filesRead) /\ (diags = {} <=> ConsistentSoFar(DOMAIN data.files))
    BY <1>1, <1>2, <2>1 DEF VerdictInv
  <2>3. AllRead
    BY <1>2, <2>2 DEF AllRead, ReadIs
  <2>4. a = {} <=> TraceReferencesResolve
    BY <1>3, <2>3, TracesResolve
  <2>5. b = {}
    BY <1>3, <2>3, ResultsResolve
  <2>6. c = {} <=> TracesAreComplete
    BY <1>3, <2>3, TracesComplete
  <2>7. d = {} <=> DiagnosesAreConsistent
    BY <1>3, <2>1, <2>3, DiagnosesConsistent
  <2>8. ds = {} <=> diags = {} /\ a = {} /\ c = {} /\ d = {}
    BY <1>4, <2>5
  <2> QED BY <2>2, <2>4, <2>6, <2>7, <2>8 DEF RecordsAgree
<1>6. NoFieldFault(diags)' = NoFieldFault(ds) /\ diags' = ds
  BY <1>3 DEF NoFieldFault
<1>7. ReadIs(filesRead)' = ReadIs(filesRead) /\ RecordsAgree' = RecordsAgree /\ Accepted' = Accepted
  BY <1>1, DataLater
<1> QED BY <1>1, <1>2, <1>5, <1>6, <1>7 DEF VerdictInv

(* A number that is an int is the same in the width of int.                *)
LEMMA CountsCompared ==
    ASSUME CountsAreNumbers
    PROVE  /\ CountsAgree => CountsAccepted
           /\ CountsAccepted /\ ~Overlooked => CountsAgree
<1>1. ASSUME NEW n \in ManifestCounts
      PROVE  AsInt(n[1]) = AsInt(n[2]) <=> (n[1] - n[2]) % IntRange = 0
  BY SameInt DEF CountsAreNumbers
<1>2. ~Overlooked => \A n \in ManifestCounts : AsInt(n[1]) = n[1] /\ AsInt(n[2]) = n[2]
  BY DEF Overlooked
<1> QED BY <1>1, <1>2 DEF CountsAgree, CountsAccepted

(* What the code compares is the contract, but for what it overlooks.      *)
LEMMA AcceptedIsSound ==
    ASSUME AllRead, CountsAreNumbers, ReviewersAreNames => ManifestIsSigned
    PROVE  /\ ReferencesResolve /\ ManifestAgrees => ReferencesAccepted /\ ManifestAccepted
           /\ ReferencesAccepted /\ ManifestAccepted /\ ~Overlooked
                 => ReferencesResolve /\ ManifestAgrees
<1>1. ReferencesResolve <=> ReferencesAccepted /\ VerdictsAgree
  BY FilesConsistent
<1>2. ReferencesAccepted /\ ~Overlooked => VerdictsAgree
  BY DEF ReferencesAccepted, VerdictsAccepted, VerdictsAgree, Overlooked
<1>3. ~Overlooked => VersionsAgree
  BY DEF AllRead, HasItsFields, IsVersioned, VersionsAgree, Overlooked
<1>4. ~Overlooked => ManifestIsSigned
  BY DEF ReviewersAreNames, Overlooked
<1>5. ManifestAgrees <=> ManifestAccepted /\ CountsAgree /\ VersionsAgree /\ ManifestIsSigned
  <2>1. CountsAgree => CountsAccepted
    BY CountsCompared
  <2> QED BY <2>1 DEF ManifestAgrees, ManifestAccepted
<1>6. ManifestAccepted /\ ~Overlooked => CountsAgree
  BY CountsCompared DEF ManifestAccepted
<1> QED BY <1>1, <1>2, <1>3, <1>4, <1>5, <1>6

(* The verdict, where no field is wrong.                                   *)
LEMMA VerdictIsRight ==
    ASSUME TypeOK, VerdictInv, CheckSummary, NoFieldFault(diags')
    PROVE  /\ SoundDataset => verdict' = "pass"
           /\ verdict' = "pass" /\ ~Overlooked => SoundDataset
           /\ verdict' = "pass" => Accepted
<1>1. vpc = "summary" /\ filesRead = DOMAIN data.files /\ data \in Datasets
  BY DEF CheckSummary, VerdictInv, TypeOK
<1>2. PICK ds, codes, sum : ds = diags' /\ codes = SummaryCodes(Manifest)
                            /\ sum = At(codes, "manifest", "")
  OBVIOUS
<1>3. /\ ds = diags \cup (IF IsLoaded(data.manifest) THEN sum ELSE {})
      /\ verdict' = IF ds = {} THEN "pass" ELSE "fail"
  BY <1>2 DEF CheckSummary, Return
<1>4. NoFieldFault(diags)
  BY <1>2, <1>3 DEF NoFieldFault
<1>5. ReadIs(DOMAIN data.files) /\ (diags = {} <=> RecordsAgree)
  BY <1>1, <1>4 DEF VerdictInv
<1>6. IsLoaded(data.manifest) /\ AllRead
  BY <1>1, <1>5 DEF ReadIs, AllRead
<1>7. codes \cap LocalCodes = {} /\ (sum = {} <=> codes = {})
  <2>1. NoFieldFault(sum)
    BY <1>2, <1>3, <1>6 DEF NoFieldFault
  <2> QED BY <1>2, <2>1, AtIs
<1>8. verdict' = "pass" <=> diags = {} /\ codes = {}
  BY <1>3, <1>6, <1>7
<1>9. RecordsAgree <=> /\ OneRecordPerId /\ ReferencesAccepted
                       /\ TracesAreComplete /\ DiagnosesAreConsistent
  BY <1>6, FilesConsistent DEF RecordsAgree
<1>10. ASSUME RecordsAgree
       PROVE  /\ HasType(Manifest, "problem_ids", {"array"})
              /\ \A v \in ToSet(ItemsOf(Manifest, "problem_ids")) : DOMAIN v = {"string"}
              /\ codes = {} <=> ManifestAccepted
              /\ CountsAreNumbers /\ (ReviewersAreNames => ManifestIsSigned)
  <2>1. index.problems = {IdOf(f) : f \in DOMAIN data.files}
    BY <1>6 DEF AllRead, IndexIs
  <2>2. \A f \in DOMAIN data.files : IdOf(f) = f
    BY <1>10 DEF RecordsAgree, ConsistentSoFar, FilesAgree
  <2>3. index.problems = DOMAIN data.files
    BY <2>1, <2>2
  <2> QED BY <1>2, <1>6, <1>7, <2>3, SummaryFaults
<1>11. /\ SoundDataset => verdict' = "pass"
       /\ verdict' = "pass" /\ ~Overlooked => SoundDataset
  <2>1. verdict' = "pass" <=> RecordsAgree /\ ManifestAccepted
    BY <1>5, <1>8, <1>10
  <2>2. ASSUME RecordsAgree
        PROVE  /\ ReferencesResolve /\ ManifestAgrees => ReferencesAccepted /\ ManifestAccepted
               /\ ReferencesAccepted /\ ManifestAccepted /\ ~Overlooked
                     => ReferencesResolve /\ ManifestAgrees
    BY <1>6, <1>10, <2>2, AcceptedIsSound
  <2>3. ReferencesResolve => ReferencesAccepted
    BY <1>6, FilesConsistent
  <2> QED BY <1>9, <2>1, <2>2, <2>3 DEF SoundDataset
<1>12. ASSUME verdict' = "pass" PROVE Accepted
  <2>1. RecordsAgree /\ ManifestAccepted
    BY <1>5, <1>8, <1>10, <1>12
  <2>2. {v.string : v \in ToSet(ItemsOf(Manifest, "problem_ids"))} = DOMAIN data.files
    BY <2>1 DEF ManifestAccepted
  <2>3. \A f \in DOMAIN data.files : HasItsFields(f)
    BY <1>6 DEF AllRead
  <2> QED BY <1>6, <1>10, <2>1, <2>2, <2>3 DEF Accepted, RecordsAgree
<1> QED BY <1>11, <1>12

LEMMA CheckSummaryKeeps ==
    ASSUME TypeOK, VerdictInv, CheckSummary
    PROVE  VerdictInv'
<1>1. UNCHANGED <<data, filesRead, index>> /\ vpc' = "done"
  BY DEF CheckSummary, Return
<1>2. verdict' = "pass" => diags' = {}
  BY DEF CheckSummary, Return
<1>3. verdict' = "pass" => Accepted
  <2>1. diags' = {} => NoFieldFault(diags')
    BY DEF NoFieldFault
  <2> QED BY <1>2, <2>1, VerdictIsRight
<1> QED BY <1>1, <1>3, DataLater DEF VerdictInv

LEMMA VerdictInit == Init => VerdictInv
BY DEF Init, ValidatorInit, VerdictInv

LEMMA VerdictStep == ExportInv /\ VerdictInv /\ [Next]_vars => VerdictInv'
<1> SUFFICES ASSUME ExportInv, VerdictInv, [Next]_vars PROVE VerdictInv'
  OBVIOUS
<1>0. TypeOK
  BY DEF ExportInv
<1>1. CASE Validate
  BY <1>0, <1>1, CheckDirectoryKeeps, LoadManifestKeeps, LoadProblemKeeps, ResolveKeeps,
     CheckSummaryKeeps DEF Validate
<1>2. CASE UNCHANGED validatorVars
  <2>1. UNCHANGED <<data, vpc, filesRead, index, diags, verdict>>
    BY <1>2 DEF validatorVars
  <2>2. /\ ReadIs(filesRead)' = ReadIs(filesRead) /\ Accepted' = Accepted
        /\ RecordsAgree' = RecordsAgree /\ ConsistentSoFar(filesRead)' = ConsistentSoFar(filesRead)
    BY <2>1, DataLater
  <2>3. NoFieldFault(diags)' = NoFieldFault(diags)
    BY <2>1 DEF NoFieldFault
  <2> QED BY <2>1, <2>2, <2>3 DEF VerdictInv
<1> QED BY <1>1, <1>2 DEF Next, vars

LEMMA DirectoryCodes ==
    ASSUME TypeOK, CheckDirectory, vpc' = "done"
    PROVE  ~NoFieldFault(diags')
<1>1. data.directory \in {"", "E_DATA_DIR_NOT_FOUND", "E_MANIFEST_NOT_FOUND"}
  BY LoadedAssumption DEF TypeOK
<1>2. PICK code \in {"E_DATA_DIR_NOT_FOUND", "E_MANIFEST_NOT_FOUND", "E_PROBLEMS_DIR_NOT_FOUND"} :
         diags' = {<<code, "", "">>}
  BY <1>1 DEF CheckDirectory, Return
<1>3. code \in LocalCodes /\ <<code, "", "">> \in diags'
  BY <1>2, FieldCodes
<1> QED BY <1>3, FaultShows

(* Where validate reports no single field, it exits with 0 if the records  *)
(* of all files together keep the contract, and only then, but for what no *)
(* step compares: numbers that are no int, empty problem_ids and versions, *)
(* reviewers that are neither null nor a name (validateDataset).           *)
THEOREM ValidateKeepsTheContract == Spec => VerdictMatchesContract
<1> DEFINE Right == (vpc # "done" /\ vpc' = "done" /\ \A d \in diags' : d[1] \notin LocalCodes)
                    => /\ SoundDataset => verdict' = "pass"
                       /\ verdict' = "pass" /\ ~Overlooked => SoundDataset
<1>1. ExportInv /\ VerdictInv /\ [Next]_vars => [Right]_validatorVars
  <2> SUFFICES ASSUME ExportInv, VerdictInv, Validate, vpc # "done", vpc' = "done", NoFieldFault(diags')
               PROVE  /\ SoundDataset => verdict' = "pass"
                      /\ verdict' = "pass" /\ ~Overlooked => SoundDataset
    BY DEF Next, vars, NoFieldFault
  <2>1. TypeOK
    BY DEF ExportInv
  <2>2. CheckDirectory \/ CheckSummary
    BY DEF Validate, LoadManifest, LoadProblem, Resolve
  <2> QED BY <2>1, <2>2, DirectoryCodes, VerdictIsRight
<1>2. Spec => []ExportInv
  BY ExportTypeCorrect, PTL
<1> QED BY <1>1, <1>2, VerdictInit, VerdictStep, PTL DEF Spec, VerdictMatchesContract

----------------------------------------------------------------------------
(* The exports of what was accepted                                        *)

TraceIdAt(p) == FieldAt("reasoning_traces", p, "id")

(* A file whose traces can all be exported, and a data set of such files.  *)
FileIsGood(f) ==
    /\ IsLoaded(data.files[f])
    /\ HasType(data.files[f].loaded, "reasoning_traces", {"array"})
    /\ HasType(ProblemOf(f), "id", {"string"}) /\ TextOf(ProblemOf(f), "id") = f
    /\ \A i \in DOMAIN ItemsIn("reasoning_traces", f) :
          LET t == ItemsIn("reasoning_traces", f)[i]
          IN  HasType(t, "id", {"string"}) /\ ~Elsewhere(t, f)
Exportable ==
    LET ids == ItemsOf(data.manifest.loaded, "problem_ids")
    IN  /\ IsLoaded(data.manifest)
        /\ HasType(data.manifest.loaded, "problem_ids", {"array"})
        /\ \A i \in DOMAIN ids : DOMAIN ids[i] = {"string"}
        /\ {ids[i].string : i \in DOMAIN ids} = DOMAIN data.files
        /\ \A f \in DOMAIN data.files : FileIsGood(f)
        /\ \A p, q \in PlacesOf("reasoning_traces", DOMAIN data.files) :
              TraceIdAt(p) = TraceIdAt(q) => p = q

LEMMA AcceptedIsExportable == data \in Datasets /\ Accepted => Exportable
<1> SUFFICES ASSUME data \in Datasets, Accepted PROVE Exportable
  OBVIOUS
<1> DEFINE D == DOMAIN data.files
           ids == ItemsOf(Manifest, "problem_ids")
<1>1. IsLoaded(data.manifest) /\ Manifest = data.manifest.loaded /\ HasType(Manifest, "problem_ids", {"array"})
  BY ManifestIs DEF Accepted
<1>2. ToSet(ids) = {ids[i] : i \in DOMAIN ids}
  BY DEF ToSet
<1>3. (\A i \in DOMAIN ids : DOMAIN ids[i] = {"string"}) /\ {ids[i].string : i \in DOMAIN ids} = D
  <2>1. (\A v \in ToSet(ids) : DOMAIN v = {"string"}) /\ {v.string : v \in ToSet(ids)} = D
    BY DEF Accepted
  <2> HIDE DEF ids, D
  <2> QED BY <1>2, <2>1
<1>4. ASSUME NEW f \in D PROVE FileIsGood(f)
  <2>1. HasItsFields(f) /\ FilesAgree(D) /\ FieldsAgree(D)
    BY <1>4 DEF Accepted, ConsistentSoFar
  <2>2. IsLoaded(data.files[f]) /\ IsTyped(data.files[f].loaded)
    BY <2>1 DEF HasItsFields
  <2>3. HasType(ProblemOf(f), "id", {"string"}) /\ TextOf(ProblemOf(f), "id") = f
    BY <1>4, <2>1, <2>2 DEF FilesAgree, IdOf, IsTyped, ProblemOf
  <2>4. /\ HasType(data.files[f].loaded, "reasoning_traces", {"array"})
        /\ \A t \in Records(data.files[f].loaded, "reasoning_traces") : HasId(t)
    BY <2>2 DEF IsTyped, Keys
  <2>5. ASSUME NEW i \in DOMAIN ItemsIn("reasoning_traces", f),
               NEW t, t = ItemsIn("reasoning_traces", f)[i]
        PROVE  HasType(t, "id", {"string"}) /\ ~Elsewhere(t, f)
    <3>1. HasId(t)
      BY <2>4, <2>5 DEF Records, ItemsIn, ToSet
    <3>2. <<f, i>> \in PlacesOf("reasoning_traces", D)
      BY <1>4, <2>5, PlaceIs
    <3>3. FieldAt("reasoning_traces", <<f, i>>, "problem_id") = f
      BY <2>1, <3>2 DEF FieldsAgree
    <3>4. TextOf(t, "problem_id") = f
      BY <2>5, <3>3 DEF FieldAt, RecordAt, ItemsIn
    <3> QED BY <3>1, <3>4 DEF HasId, Elsewhere
  <2> QED BY <2>2, <2>3, <2>4, <2>5 DEF FileIsGood
<1>5. IdsDiffer("reasoning_traces", D)
  BY DEF Accepted, ConsistentSoFar, Keys
<1> HIDE DEF ids
<1> QED BY <1>1, <1>3, <1>4, <1>5 DEF Exportable, IdsDiffer, TraceIdAt, ids

LEMMA AcceptedLoads ==
    ASSUME data \in Datasets, Exportable, NEW e, template[e].encoding \in Encodings
    PROVE  {LoadError(e), CollectError} \cap {"E_DATA_LOAD", "E_FOREIGN_KEY"} = {}
<1> DEFINE ids == ItemsOf(data.manifest.loaded, "problem_ids")
           OK == {"ok", "E_UNSAFE_ID"}
<1>1. LoadError(e) \notin {"E_DATA_LOAD", "E_FOREIGN_KEY"}
  BY DEF LoadError, Exportable, TemplateError, Encodings
<1>2. ASSUME NEW pid \in DOMAIN data.files, pid \in SafeIds PROVE ProblemError(pid) \in OK
  <2> DEFINE traces == TracesOf(pid)
             codes == [j \in DOMAIN traces |-> TraceError(pid, traces[j])]
  <2>1. FileIsGood(pid) /\ ProblemFile(pid) = data.files[pid]
    BY DEF Exportable, ProblemFile
  <2>2. HasTraces(pid) /\ traces = ItemsIn("reasoning_traces", pid)
    BY <2>1 DEF FileIsGood, HasTraces, TracesOf, ItemsIn
  <2>3. SubObject(ProblemFile(pid).loaded, "problem") = ProblemOf(pid)
    BY <2>1 DEF SubObject, ProblemOf, Section
  <2>4. ASSUME NEW j \in DOMAIN traces PROVE TraceError(pid, traces[j]) \in OK
    <3>1. HasType(traces[j], "id", {"string"}) /\ ~Elsewhere(traces[j], pid)
      BY <2>1, <2>2, <2>4 DEF FileIsGood
    <3> HIDE DEF traces
    <3>2. TextOf(ProblemOf(pid), "id") = pid /\ pid # ""
      BY <1>2, <2>1, SafeIdsAssumption DEF FileIsGood
    <3>3. ~ForeignTrace(pid, traces[j])
      BY <2>3, <3>1, <3>2 DEF ForeignTrace, Elsewhere
    <3> QED BY <3>1, <3>3 DEF TraceError
  <2>5. FirstError(codes) \in OK
    <3>1. \A j \in DOMAIN codes : codes[j] \in OK
      BY <2>4
    <3> HIDE DEF codes
    <3> QED BY <3>1, FirstErrorRange
  <2> QED BY <1>2, <2>2, <2>5 DEF ProblemError
<1>3. CollectError \in OK
  <2> DEFINE codes == [i \in DOMAIN ids |->
                          IF DOMAIN ids[i] = {"string"} THEN ProblemError(ids[i].string) ELSE "ok"]
  <2>1. ASSUME NEW i \in DOMAIN ids PROVE codes[i] \in OK
    <3>1. ids[i].string \in DOMAIN data.files
      BY <2>1 DEF Exportable
    <3>2. \A pid : pid \notin SafeIds => ProblemError(pid) \in OK
      BY DEF ProblemError
    <3> HIDE DEF ids, OK
    <3>3. ProblemError(ids[i].string) \in OK
      BY <1>2, <3>1, <3>2
    <3> QED BY <2>1, <3>3 DEF OK
  <2>2. FirstError(codes) \in OK
    <3>1. \A i \in DOMAIN codes : codes[i] \in OK
      BY <2>1
    <3> HIDE DEF codes
    <3> QED BY <3>1, FirstErrorRange
  <2> QED BY <2>2 DEF CollectError
<1> QED BY <1>1, <1>3

(* A trace for each id, and an id for each trace.                          *)
LEMMA AcceptedIdsArePlaces ==
    ASSUME data \in Datasets, Exportable, CollectError = "ok"
    PROVE  {RefId(Refs[i]) : i \in DOMAIN Refs} =
           {TraceIdAt(p) : p \in PlacesOf("reasoning_traces", DOMAIN data.files)}
<1> DEFINE ids == ItemsOf(data.manifest.loaded, "problem_ids")
           D == DOMAIN data.files
<1>1. IsLoaded(data.manifest) /\ \A i \in DOMAIN ids : DOMAIN ids[i] = {"string"}
  BY DEF Exportable
<1>2. /\ \A i \in DOMAIN Refs : IsTraceRef(Refs[i])
      /\ \A v \in ToSet(ids) : ToSet(RefsOf(v)) \subseteq ToSet(Refs)
  BY <1>1, RefsAreTraces
<1>3. \A f \in D : TracesOf(f) = ItemsIn("reasoning_traces", f)
  BY DEF TracesOf, ItemsIn, ProblemFile
<1>4. ASSUME NEW i \in DOMAIN Refs
      PROVE  \E p \in PlacesOf("reasoning_traces", D) : RefId(Refs[i]) = TraceIdAt(p)
  <2> DEFINE ref == Refs[i]
             f == ref.problem
  <2>1. f \in D /\ \E j \in DOMAIN TracesOf(f) : ref.trace = TracesOf(f)[j]
    BY <1>2 DEF IsTraceRef
  <2>2. PICK j \in DOMAIN ItemsIn("reasoning_traces", f) : ref.trace = ItemsIn("reasoning_traces", f)[j]
    BY <1>3, <2>1
  <2> HIDE DEF f
  <2>3. <<f, j>> \in PlacesOf("reasoning_traces", D)
    BY <2>1, <2>2, PlaceIs
  <2>4. TraceIdAt(<<f, j>>) = RefId(ref)
    BY <2>2 DEF TraceIdAt, FieldAt, RecordAt, ItemsIn, RefId
  <2> QED BY <2>3, <2>4
<1>5. ASSUME NEW p \in PlacesOf("reasoning_traces", D)
      PROVE  \E i \in DOMAIN Refs : RefId(Refs[i]) = TraceIdAt(p)
  <2>1. PICK f \in D : \E j \in DOMAIN ItemsIn("reasoning_traces", f) : p = <<f, j>>
    BY PlaceIs
  <2>2. PICK j \in DOMAIN ItemsIn("reasoning_traces", f) : p = <<f, j>>
    BY <2>1
  <2>3. PICK i \in DOMAIN ids : ids[i].string = f
    BY DEF Exportable
  <2> DEFINE ref == [problem |-> f, trace |-> ItemsIn("reasoning_traces", f)[j]]
  <2>4. ref \in ToSet(RefsOf(ids[i]))
    <3>1. RefsOf(ids[i]) = [k \in DOMAIN TracesOf(f) |-> [problem |-> f, trace |-> TracesOf(f)[k]]]
      <4> HIDE DEF ids
      <4> QED BY <1>1, <2>3 DEF RefsOf
    <3>2. j \in DOMAIN RefsOf(ids[i]) /\ RefsOf(ids[i])[j] = ref
      <4> HIDE DEF ids
      <4> QED BY <1>3, <2>2, <3>1
    <3> HIDE DEF ref, ids
    <3> QED BY <3>2 DEF ToSet
  <2>5. ref \in ToSet(Refs)
    <3>1. ids[i] \in ToSet(ids)
      BY <2>3 DEF ToSet
    <3> HIDE DEF ref, ids
    <3> QED BY <1>2, <2>4, <3>1
  <2>6. RefId(ref) = TraceIdAt(p)
    BY <2>2 DEF TraceIdAt, FieldAt, RecordAt, ItemsIn, RefId
  <2>7. PICK k \in DOMAIN Refs : Refs[k] = ref
    <3> HIDE DEF ref
    <3> QED BY <2>5 DEF ToSet
  <2> QED BY <2>6, <2>7
<1> QED BY <1>4, <1>5

(* The errors that the data cause are those of the data.                   *)
ErrorInv ==
    \A e \in Exporters :
       eresult[e] \in {"E_DATA_LOAD", "E_FOREIGN_KEY"} => eresult[e] \in {LoadError(e), CollectError}

LEMMA ErrorStep == ExportInv /\ ErrorInv /\ [Next]_vars => ErrorInv'
<1> SUFFICES ASSUME ExportInv, ErrorInv, [Next]_vars PROVE ErrorInv'
  OBVIOUS
<1> DEFINE Own(e, code) == code \in {"E_DATA_LOAD", "E_FOREIGN_KEY"} => code \in {LoadError(e), CollectError}
<1>1. ASSUME UNCHANGED <<data, template>>, NEW e \in Exporters,
             \A c \in Exporters : eresult'[c] = eresult[c] \/ (c = e /\ Own(c, eresult'[c]))
      PROVE  ErrorInv'
  <2> SUFFICES ASSUME NEW c \in Exporters
               PROVE  Own(c, eresult'[c])
    BY <1>1, Fixed DEF ErrorInv
  <2>1. Own(c, eresult[c])
    BY DEF ErrorInv
  <2> QED BY <1>1, <2>1
<1>2. CASE UNCHANGED <<data, template, eresult>>
  BY <1>2, Fixed DEF ErrorInv
<1>3. Validate => UNCHANGED data
  BY DEF Validate, CheckDirectory, LoadManifest, LoadProblem, Resolve, CheckSummary, Return
<1>4. CASE UNCHANGED exporterVars
  BY <1>2, <1>3, <1>4 DEF exporterVars, Next, vars, validatorVars
<1>5. CASE UNCHANGED validatorVars /\ \E e \in Exporters : Export(e)
  <2>1. PICK e \in Exporters : Export(e)
    BY <1>5
  <2>2. UNCHANGED <<data, template>>
    BY <1>5, <2>1, Alone DEF validatorVars
  <2>3. eresult \in [Exporters -> Results]
    BY DEF ExportInv, TypeOK
  <2>4. \/ eresult' = eresult
        \/ \E code : eresult' = [eresult EXCEPT ![e] = code] /\ Own(e, code)
    <3>0. template[e].encoding \in Encodings
      BY DEF ExportInv, ShapeInv
    <3> HIDE DEF Own
    <3>1. /\ Own(e, LoadError(e)) /\ Own(e, CollectError) /\ Own(e, "ok") /\ Own(e, "killed")
          /\ Own(e, "E_WRITE_FAILED") /\ Own(e, "E_RUN_DIR_EXISTS") /\ Own(e, "E_JSON_PARSE")
          /\ Own(e, template[e].encoding) /\ \A ref : Own(e, PromptError(e, ref))
      BY <3>0, PromptRange DEF Own, Encodings
    <3>2. CASE ReadTemplate(e)
      BY <3>1, <3>2 DEF ReadTemplate, Leave
    <3>3. CASE CheckRunDir(e)
      BY <3>1, <3>3 DEF CheckRunDir, Leave
    <3>4. CASE LoadData(e)
      BY <3>1, <3>4 DEF LoadData, Leave
    <3>5. CASE MakeTemp(e)
      BY <3>1, <3>5 DEF MakeTemp, Fail
    <3>6. CASE Collect(e)
      BY <3>1, <3>6 DEF Collect, Fail
    <3>7. CASE WritePrompt(e)
      <4>1. PICK ref : \/ Fail(e, PromptError(e, ref)) \/ Fail(e, "E_WRITE_FAILED")
                       \/ UNCHANGED eresult
        BY <3>7 DEF WritePrompt
      <4> QED BY <3>1, <4>1 DEF Fail
    <3>8. CASE WriteManifest(e)
      BY <3>1, <3>8 DEF WriteManifest, Fail
    <3>9. CASE Rename(e)
      BY <3>1, <3>9 DEF Rename, Fail
    <3>10. CASE CleanUp(e)
      BY <3>10 DEF CleanUp
    <3>11. CASE Reload(e)
      BY <3>1, <3>11 DEF Reload, Leave
    <3>12. CASE Kill(e)
      BY <3>1, <3>12 DEF Kill, Leave
    <3> QED
      BY <2>1, <3>2, <3>3, <3>4, <3>5, <3>6, <3>7, <3>8, <3>9, <3>10, <3>11, <3>12 DEF Export
  <2> HIDE DEF Own
  <2>5. \A c \in Exporters : eresult'[c] = eresult[c] \/ (c = e /\ Own(c, eresult'[c]))
    BY <2>3, <2>4
  <2> QED BY <1>1, <2>2, <2>5 DEF Own
<1> QED BY <1>2, <1>4, <1>5 DEF Next, vars, validatorVars, exporterVars

LEMMA AcceptedExports ==
    ASSUME ExportInv, WholeInv, VerdictInv, ErrorInv, PublishedRunIsWhole
    PROVE  ValidatedExport
<1> SUFFICES ASSUME verdict = "pass"
             PROVE  /\ \A e \in Exporters : eresult[e] \notin {"E_DATA_LOAD", "E_FOREIGN_KEY"}
                    /\ run # Absent =>
                          Cardinality(DOMAIN run.prompts) = Cardinality(Places("reasoning_traces"))
  BY DEF ValidatedExport
<1>0. Accepted
  BY DEF VerdictInv
<1>1. Exportable /\ data \in Datasets /\ \A e \in Exporters : template[e].encoding \in Encodings
  BY <1>0, AcceptedIsExportable DEF ExportInv, ShapeInv, TypeOK
<1>2. \A e \in Exporters : eresult[e] \notin {"E_DATA_LOAD", "E_FOREIGN_KEY"}
  BY <1>1, AcceptedLoads DEF ErrorInv
<1>3. ASSUME run # Absent
      PROVE  Cardinality(DOMAIN run.prompts) = Cardinality(Places("reasoning_traces"))
  <2> DEFINE P == Places("reasoning_traces")
             ids == {TraceIdAt(p) : p \in P}
             f == [p \in P |-> TraceIdAt(p)]
  <2>1. P = PlacesOf("reasoning_traces", DOMAIN data.files)
    BY DEF PlacesOf, Places
  <2>2. run.by \in Exporters /\ CollectError = "ok"
    BY <1>3 DEF ExportInv, TypeOK, WholeInv, RunInv, Published
  <2>3. DOMAIN run.prompts = ids
    <3>1. DOMAIN run.prompts = {RefId(Refs[i]) : i \in DOMAIN Refs}
      BY <1>3 DEF PublishedRunIsWhole
    <3> QED BY <1>1, <2>1, <2>2, <3>1, AcceptedIdsArePlaces
  <2>4. IsFiniteSet(P)
    BY <1>0, <1>1, AllPlacesAreFinite DEF Accepted, Keys
  <2>5. \A p, q \in P : TraceIdAt(p) = TraceIdAt(q) => p = q
    BY <1>1, <2>1 DEF Exportable
  <2> HIDE DEF P
  <2>6. Cardinality(P) = Cardinality(ids)
    <3>1. f \in [P -> ids] /\ \A p \in P : f[p] = TraceIdAt(p)
      OBVIOUS
    <3>2. \A z \in ids : \E p \in P : f[p] = z
      OBVIOUS
    <3>3. \A p, q \in P : f[p] = f[q] => p = q
      BY <2>5
    <3> HIDE DEF f, ids
    <3> QED BY <2>4, <3>1, <3>2, <3>3, PairedSets
  <2> QED BY <2>3, <2>6 DEF P
<1> QED BY <1>2, <1>3

(* What validate has accepted loads, and each of its traces, in whatever   *)
(* file it is, gets a prompt of its own (validateDataset, exportPrompts    *)
(* 5).                                                                     *)
THEOREM ValidatedDataExports == Spec => []ValidatedExport
<1>1. Init => ErrorInv
  BY DEF Init, ExporterInit, ErrorInv
<1> QED
  BY <1>1, ExportTypeCorrect, PublishedRunsAreWhole, WholeInit, WholeStep, VerdictInit, VerdictStep,
     ErrorStep, AcceptedExports, PTL DEF Spec
=============================================================================
