--------------------------- MODULE MCPublishedRun ---------------------------
(***************************************************************************)
(* A run directory from its export on: once it is published, commands work *)
(* on its files in turns, over writes that may be lost (EvaluationRun).    *)
(* To keep the two from multiplying, commands work on one export only.     *)
(***************************************************************************)
EXTENDS MCPromptExporter

CONSTANTS Commands, Bytes, Empty

VARIABLES runManifest, raw, predictions, sidecar, reportJson, reportMd, pc, cmd, workedOn, bytes,
          callStatus, good, saved, imported, seen, invoked

files == <<runManifest, raw, predictions, sidecar, reportJson, reportMd>>
commandVars ==
    <<files, pc, cmd, workedOn, bytes, callStatus, good, saved, imported, seen, invoked>>

Files == INSTANCE EvaluationRun WITH
    inTurns <- TRUE, Traces <- {"t3"}, manifest <- runManifest, trace <- workedOn,
    ParseStatusOf <- [b \in Bytes |-> IF b = Empty THEN "empty_response" ELSE "parsed"]

(* The export whose directory is used: its data set has the one trace.     *)
IsReady ==
    /\ data = Catalogue.onlyP2 /\ verdict = "pass" /\ faults = 0
    /\ epc = [e \in Exporters |-> IF e = e1 THEN "ended" ELSE "template"]
    /\ run # Absent /\ run.manifest.trace_ids = {"t3"}
NoneBegun == \A p \in Commands : pc[p] = "unborn"
AllEnded == \A p \in Commands : pc[p] \in Files!Ended \ {"unborn"}

PublishedInit == Init /\ Files!Init

PublishedNext ==
    \/ NoneBegun /\ Next /\ UNCHANGED commandVars
    \/ /\ IsReady
       /\ \E p \in Commands : Files!Start(p) \/ Files!Step(p) \/ Files!Crash(p)
       /\ UNCHANGED vars
    \/ AllEnded /\ UNCHANGED <<vars, commandVars>>

(* Fair as FairSpec of EvaluationRun is.                                   *)
PublishedSpec ==
    /\ PublishedInit /\ [][PublishedNext]_<<vars, commandVars>>
    /\ \A p \in Commands : WF_commandVars(Files!Step(p))

(* A final sidecar claims only what the other files show, even when a      *)
(* write was lost unnoticed (finishAudit).                                 *)
SidecarIsTruthful == Files!SidecarIsTruthful

(* A call that got past its latch settles its sidecar, unless it is killed *)
(* or cannot write (runRecordedModelForTrace).                             *)
HeldCallSettles == Files!HeldCallSettles
============================================================================
