--------------------------- MODULE EvaluationPath ---------------------------
(***************************************************************************)
(* The way of a diagnosis through one run, as data: each trace in turn is  *)
(* asked for through Hy3Client and its transport, the content of the       *)
(* response is classified into a wrapper, and in the end the reporter      *)
(* counts.  The order of commands and files is EvaluationRun's subject;    *)
(* here one command ends before the next begins.                           *)
(***************************************************************************)
EXTENDS Hy3Client, ReportMetrics

CONSTANTS
    Documents,          \* contents a model may answer with
    GoldDiagnoses,      \* diagnoses of a dataset that validate has accepted
    HasCandidate        \* the traces with a candidate solution

ASSUME PathAssumption ==
    /\ Documents \subseteq Document
    /\ HasCandidate \subseteq TraceSet
    /\ \A g \in GoldDiagnoses : PairSet(g.findings) \subseteq Stages \X Categories

VARIABLE
    asked       \* how many traces the operator is done with

pathVars == <<clientVars, metricsVars, asked>>

PathTypeOK ==
    /\ ClientTypeOK
    /\ asked \in 0..Len(TraceIds) /\ counted \in 0..Len(TraceIds)
    /\ \A t \in TraceSet : /\ wrapper[t].parse_status \in ParseStatuses \cup {"wrapper_missing"}
                         /\ gold[t] \in GoldDiagnoses \cup {NoDiagnosis}
    /\ \A c \in DOMAIN metrics \ {"runComplete", "statusCounts", "statusConf", "primaryConf"} :
          metrics[c] \in Nat
    /\ metrics.runComplete \in BOOLEAN

PathInit ==
    /\ ClientInit
    /\ wrapper = [t \in TraceSet |-> NoWrapper]
    /\ gold = [t \in TraceSet |-> NoDiagnosis]
    /\ counted = 0
    /\ metrics = NoCounts
    /\ asked = 0

----------------------------------------------------------------------------
Asking == asked < Len(TraceIds)
Current == TraceIds[asked + 1]

(* The next trace begins with a client of its own.                         *)
NextTrace ==
    /\ asked' = asked + 1
    /\ cpc' = "idle"
    /\ envelope' = NoEnvelope
    /\ callResult' = NoResult
    /\ tpc' = "idle"
    /\ request' = NoRequest
    /\ elapsed' = 0 /\ received' = 0 /\ statusLine' = 0
    /\ response' = NoResponse
    /\ UNCHANGED <<platform, gold, counted, metrics>>

Calling ==
    /\ Asking
    /\ ClientNext
    /\ UNCHANGED <<metricsVars, asked>>

(* A call that did not succeed imports nothing.                            *)
GiveUp ==
    /\ Asking
    /\ cpc = "returned"
    /\ callResult.status # "Succeeded"
    /\ NextTrace
    /\ UNCHANGED wrapper

(* What an import may write, for a trace with and without a candidate.     *)
ImportedWrappers ==
    [c \in BOOLEAN |-> {WrapperFor(ClassifyResponse(d, c), d) : d \in Documents}]

Import ==
    /\ Asking
    /\ cpc = "returned"
    /\ callResult.status = "Succeeded"
    /\ \E w \in ImportedWrappers[(Current \in HasCandidate)] :
          wrapper' = [wrapper EXCEPT ![Current] = w]
    /\ NextTrace

(* mark-not-attempted instead of a call.                                   *)
Mark ==
    /\ Asking
    /\ cpc = "idle"
    /\ wrapper' = [wrapper EXCEPT ![Current] =
                      WrapperFor("model_call_not_attempted", NoDiagnosis)]
    /\ NextTrace

(* The report is made against a dataset that may not know every trace.     *)
OpenDataset ==
    /\ ~Asking /\ counted = 0
    /\ metrics = NoCounts /\ gold = [t \in TraceSet |-> NoDiagnosis]
    /\ gold' \in [TraceSet -> GoldDiagnoses \cup {NoDiagnosis}]
    /\ UNCHANGED <<clientVars, wrapper, counted, metrics, asked>>

Report ==
    /\ ~Asking
    /\ CountTrace
    /\ UNCHANGED <<clientVars, asked>>

PathNext ==
    \/ Calling \/ GiveUp \/ Import \/ Mark
    \/ OpenDataset \/ Report

PathSpec == PathInit /\ [][PathNext]_pathVars

----------------------------------------------------------------------------
(* Every wrapper of the run keeps the contract of the evaluator.           *)
PredictionsKeepContract ==
    \A t \in TraceSet : PredictionKeepsContract(t, t \in HasCandidate)
============================================================================
