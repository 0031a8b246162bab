------------------------ MODULE InteractiveDiagnosis ------------------------
(***************************************************************************)
(* POST /api/diagnose: InteractiveHttpApplication::diagnose and, inside    *)
(* it, runInteractiveDiagnosis.  Several servers may run on one artifacts  *)
(* root; each handles many exchanges in threads of its own and lets one    *)
(* through at a time.  A server may be killed and started again.           *)
(*                                                                         *)
(* Abstractions.  A response is a member of Responses and stands for its   *)
(* bytes, its SHA-256 and the JSON parsed from it; ParseStatusOf is what   *)
(* the strict classification makes of it.  A file that is written in place *)
(* may be torn; replaceJson renames a complete file over the old one.      *)
(***************************************************************************)
EXTENDS Naturals, FiniteSets

CONSTANTS
    Exchanges,      \* POSTs to /api/diagnose
    Servers,        \* demo processes that share the artifacts root
    Ids,            \* request_id values
    Responses,      \* bytes a model may answer with
    ParseStatusOf,  \* the parse_status of each response
    MaxFaults,      \* bound: failed writes and killed servers
    Absent, Torn    \* no such file; a file with some other content

ResponseStatuses ==
    {"empty_response", "schema_invalid", "invalid_utf8", "invalid_json",
     "semantic_invalid", "parsed"}

ASSUME InteractiveAssumption ==
    /\ Absent \notin Responses /\ Torn \notin Responses /\ Absent # Torn
    /\ ParseStatusOf \in [Responses -> ResponseStatuses]
    /\ MaxFaults \in Nat

VARIABLES
    dirs,           \* requests whose directory exists
    prompt,         \* prompt.txt is there, complete
    record,         \* model-call.json
    raw,            \* raw-response.txt
    diagnosis,      \* diagnosis.json, as the response it was parsed from
    active,         \* call_active_ of each server
    pc,             \* the next step of each exchange
    server,         \* the server that handles it
    id,             \* its request_id
    result,         \* its InteractiveDiagnosisResult
    reply,          \* its HTTP reply
    invoked,        \* history: how often client.invoke ran for each request
    faults          \* history: failed writes and killed servers so far

disk == <<dirs, prompt, record, raw, diagnosis>>
vars == <<disk, active, pc, server, id, result, reply, invoked, faults>>

Outcomes == {"attempting", "model_call_failed", "artifact_error",
             "duplicate_request", "invalid_model_response", "diagnosed"}
Codes == {"none", "E_REQUEST_EXISTS", "E_ARTIFACT_WRITE", "E_RESPONSE_INVALID",
          "E_MODEL_RATE_LIMITED", "E_MODEL_TIMEOUT", "E_MODEL_OTHER"}
CallFailures == {"E_MODEL_RATE_LIMITED", "E_MODEL_TIMEOUT", "E_MODEL_OTHER"}

(* sha is raw_response_sha256, Absent where the code has null.             *)
Result(ok, outcome, code, parseStatus, sha) ==
    [ok |-> ok, outcome |-> outcome, code |-> code,
     parse_status |-> parseStatus, sha |-> sha]

Attempting == Result(FALSE, "attempting", "none", "not_attempted", Absent)
Received(response) == Result(FALSE, "attempting", "none", "not_attempted", response)
Failed(outcome, code) == Result(FALSE, outcome, code, "not_attempted", Absent)

ArtifactError(r) ==
    [r EXCEPT !.ok = FALSE, !.outcome = "artifact_error", !.code = "E_ARTIFACT_WRITE"]

(* What the saved response is worth; result.ok is set before               *)
(* diagnosis.json is written.                                              *)
Classified(response) ==
    LET s == ParseStatusOf[response]
    IN  IF s = "parsed" THEN Result(TRUE, "diagnosed", "none", s, response)
        ELSE Result(FALSE, "invalid_model_response", "E_RESPONSE_INVALID", s, response)

Results ==
    [ok : BOOLEAN, outcome : Outcomes, code : Codes,
     parse_status : ResponseStatuses \cup {"not_attempted"},
     sha : Responses \cup {Absent}]

(* sidecar(): response_saved is whether a hash is known, diagnosis_saved   *)
(* is result.ok.                                                           *)
NoRecord == [outcome |-> "absent", response_saved |-> FALSE, sha |-> Absent,
             diagnosis_saved |-> FALSE]

Sidecar(r) ==
    [outcome |-> r.outcome, response_saved |-> r.sha # Absent, sha |-> r.sha,
     diagnosis_saved |-> r.ok]

Records ==
    [outcome : Outcomes \cup {"absent"}, response_saved : BOOLEAN,
     sha : Responses \cup {Absent}, diagnosis_saved : BOOLEAN]

NoReply == [status |-> 0, diagnosis |-> Absent]

(* Between test_and_set and the destructor of ClearFlag.                   *)
LatchedSteps == {"prompt", "publish", "invoke", "await", "raw", "diagnosis", "record"}
FlagSteps == {"make_directory", "clear"} \cup LatchedSteps
Ended == {"unborn", "done", "killed"}
Steps == {"flag"} \cup FlagSteps \cup Ended

Owns(x, i) == pc[x] \in LatchedSteps /\ id[x] = i

TypeOK ==
    /\ dirs \subseteq Ids
    /\ prompt \subseteq Ids
    /\ record \in [Ids -> Records]
    /\ raw \in [Ids -> Responses \cup {Absent, Torn}]
    /\ diagnosis \in [Ids -> Responses \cup {Absent}]
    /\ active \in [Servers -> BOOLEAN]
    /\ pc \in [Exchanges -> Steps]
    /\ server \in [Exchanges -> Servers]
    /\ id \in [Exchanges -> Ids]
    /\ result \in [Exchanges -> Results]
    /\ reply \in [Exchanges -> [status : {0, 200, 400, 409, 429, 500, 502, 504},
                                diagnosis : Responses \cup {Absent}]]
    /\ invoked \in [Ids -> Nat]
    /\ faults \in 0..MaxFaults

Init ==
    /\ dirs = {}
    /\ prompt = {}
    /\ record = [i \in Ids |-> NoRecord]
    /\ raw = [i \in Ids |-> Absent]
    /\ diagnosis = [i \in Ids |-> Absent]
    /\ active = [s \in Servers |-> FALSE]
    /\ pc = [x \in Exchanges |-> "unborn"]
    /\ server \in [Exchanges -> Servers]
    /\ id \in [Exchanges -> Ids]
    /\ result = [x \in Exchanges |-> Attempting]
    /\ reply = [x \in Exchanges |-> NoReply]
    /\ invoked = [i \in Ids |-> 0]
    /\ faults = 0

----------------------------------------------------------------------------
Goto(x, from, to) == pc[x] = from /\ pc' = [pc EXCEPT ![x] = to]

SetResult(x, r) == result' = [result EXCEPT ![x] = r]

Fault == faults < MaxFaults /\ faults' = faults + 1

(* The frame of a step inside runInteractiveDiagnosis.                     *)
Inside == UNCHANGED <<active, server, id, reply>>

(* The reply is made, and httplib sends it once the flag is clear.         *)
Answer(x, status, response) ==
    reply' = [reply EXCEPT ![x] = [status |-> status, diagnosis |-> response]]

----------------------------------------------------------------------------
(* InteractiveHttpApplication::diagnose                                    *)

(* A POST arrives.  What has a wrong content type, size or shape is turned *)
(* away before the flag (415, 413 and 400; 400 stands for them).           *)
Receive(x) ==
    \/ /\ Goto(x, "unborn", "flag")
       /\ UNCHANGED <<disk, active, server, id, result, reply, invoked, faults>>
    \/ /\ Goto(x, "unborn", "done")
       /\ Answer(x, 400, Absent)
       /\ UNCHANGED <<disk, active, server, id, result, invoked, faults>>

(* Mutant: the flag is read and set in two steps that others may separate, *)
(* here: it is set without looking.                                        *)
SetFlag(x) ==
    /\ Goto(x, "flag", "make_directory")
    /\ active' = [active EXCEPT ![server[x]] = TRUE]
    /\ UNCHANGED <<disk, server, id, result, reply, invoked, faults>>

(* call_active_.test_and_set(): busy, or one at a time.                    *)
TestAndSetFlag(x) ==
    \/ /\ ~active[server[x]]
       /\ Goto(x, "flag", "make_directory")
       /\ active' = [active EXCEPT ![server[x]] = TRUE]
       /\ UNCHANGED <<disk, server, id, result, reply, invoked, faults>>
    \/ /\ active[server[x]]
       /\ Goto(x, "flag", "done")
       /\ Answer(x, 429, Absent)
       /\ UNCHANGED <<disk, active, server, id, result, invoked, faults>>

(* Mutant: what has no status of its own is a service that is unavailable. *)
StatusForUnavailable(r) ==
    IF r.ok THEN 200
    ELSE CASE r.code = "E_REQUEST_EXISTS" -> 409
           [] r.code = "E_MODEL_RATE_LIMITED" -> 429
           [] r.code = "E_MODEL_TIMEOUT" -> 504
           [] r.code = "E_ARTIFACT_WRITE" -> 500
           [] OTHER -> 503

StatusFor(r) ==
    IF r.ok THEN 200
    ELSE CASE r.code = "E_REQUEST_EXISTS" -> 409
           [] r.code = "E_MODEL_RATE_LIMITED" -> 429
           [] r.code = "E_MODEL_TIMEOUT" -> 504
           [] r.code = "E_ARTIFACT_WRITE" -> 500
           [] OTHER -> 502

(* Mutant: an exchange that did not get a diagnosis leaves the flag set.   *)
ClearFlagOnSuccess(x) ==
    LET r == result[x]
    IN  /\ Goto(x, "clear", "done")
        /\ active' = [active EXCEPT ![server[x]] = ~r.ok]
        /\ Answer(x, StatusFor(r), IF r.ok THEN r.sha ELSE Absent)
        /\ UNCHANGED <<disk, server, id, result, invoked, faults>>

(* The destructor of ClearFlag; only an ok result carries its diagnosis.   *)
ClearFlag(x) ==
    LET r == result[x]
    IN  /\ Goto(x, "clear", "done")
        /\ active' = [active EXCEPT ![server[x]] = FALSE]
        /\ Answer(x, StatusFor(r), IF r.ok THEN r.sha ELSE Absent)
        /\ UNCHANGED <<disk, server, id, result, invoked, faults>>

----------------------------------------------------------------------------
(* runInteractiveDiagnosis                                                 *)

(* Mutant: create_directories, which accepts a directory that exists.      *)
MakeDirectories(x) ==
    /\ Goto(x, "make_directory", "prompt")
    /\ dirs' = dirs \cup {id[x]}
    /\ SetResult(x, Attempting)
    /\ Inside
    /\ UNCHANGED <<prompt, record, raw, diagnosis, invoked, faults>>

(* create_directory latches the request_id; any other result of it, an I/O *)
(* error too, is reported as a duplicate.  An unusable root or template    *)
(* ends the exchange before.                                               *)
MakeDirectory(x) ==
    \/ /\ id[x] \notin dirs
       /\ Goto(x, "make_directory", "prompt")
       /\ dirs' = dirs \cup {id[x]}
       /\ SetResult(x, Attempting)
       /\ Inside
       /\ UNCHANGED <<prompt, record, raw, diagnosis, invoked, faults>>
    \/ /\ Goto(x, "make_directory", "clear")
       /\ \/ /\ id[x] \in dirs
             /\ SetResult(x, Failed("duplicate_request", "E_REQUEST_EXISTS"))
             /\ UNCHANGED faults
          \/ /\ Fault
             /\ \/ SetResult(x, Failed("duplicate_request", "E_REQUEST_EXISTS"))
                \/ SetResult(x, Failed("artifact_error", "E_ARTIFACT_WRITE"))
       /\ Inside
       /\ UNCHANGED <<disk, invoked>>

(* A failed write before the call ends the exchange; the directory stays.  *)
AbandonBeforeCall(x, from) ==
    /\ Goto(x, from, "clear")
    /\ SetResult(x, Failed("artifact_error", "E_ARTIFACT_WRITE"))
    /\ Fault
    /\ Inside
    /\ UNCHANGED <<disk, invoked>>

WritePrompt(x) ==
    \/ /\ Goto(x, "prompt", "publish")
       /\ prompt' = prompt \cup {id[x]}
       /\ Inside
       /\ UNCHANGED <<dirs, record, raw, diagnosis, result, invoked, faults>>
    \/ AbandonBeforeCall(x, "prompt")

(* Mutant: the call is made although the record could not be published.    *)
PublishUnchecked(x) ==
    /\ Goto(x, "publish", "invoke")
    /\ \/ /\ record' = [record EXCEPT ![id[x]] = Sidecar(Attempting)]
          /\ UNCHANGED faults
       \/ Fault /\ UNCHANGED record
    /\ Inside
    /\ UNCHANGED <<dirs, prompt, raw, diagnosis, result, invoked>>

PublishRecord(x) ==
    \/ /\ Goto(x, "publish", "invoke")
       /\ record' = [record EXCEPT ![id[x]] = Sidecar(Attempting)]
       /\ Inside
       /\ UNCHANGED <<dirs, prompt, raw, diagnosis, result, invoked, faults>>
    \/ AbandonBeforeCall(x, "publish")

(* invokeModelOnce: the request may be billed from here on.                *)
Invoke(x) ==
    /\ Goto(x, "invoke", "await")
    /\ invoked' = [invoked EXCEPT ![id[x]] = @ + 1]
    /\ Inside
    /\ UNCHANGED <<disk, result, faults>>

CallFails(x, code) ==
    /\ Goto(x, "await", "record")
    /\ SetResult(x, Failed("model_call_failed", code))
    /\ Inside
    /\ UNCHANGED <<disk, invoked, faults>>

(* The hash of the response is known, and recorded, before it is saved.    *)
CallSucceeds(x, response) ==
    /\ Goto(x, "await", "raw")
    /\ SetResult(x, Received(response))
    /\ Inside
    /\ UNCHANGED <<disk, invoked, faults>>

WriteRaw(x) ==
    LET response == result[x].sha
        parsed == ParseStatusOf[response] = "parsed"
    IN  \/ /\ Goto(x, "raw", IF parsed THEN "diagnosis" ELSE "record")
           /\ raw' = [raw EXCEPT ![id[x]] = response]
           /\ SetResult(x, Classified(response))
           /\ Inside
           /\ UNCHANGED <<dirs, prompt, record, diagnosis, invoked, faults>>
        \/ /\ Goto(x, "raw", "record")
           /\ \E left \in {Absent, Torn} : raw' = [raw EXCEPT ![id[x]] = left]
           /\ SetResult(x, ArtifactError(result[x]))
           /\ Fault
           /\ Inside
           /\ UNCHANGED <<dirs, prompt, record, diagnosis, invoked>>

(* Mutant: a diagnosis.json that could not be written is not an error.     *)
WriteDiagnosisUnchecked(x) ==
    /\ Goto(x, "diagnosis", "record")
    /\ \/ /\ diagnosis' = [diagnosis EXCEPT ![id[x]] = result[x].sha]
          /\ UNCHANGED faults
       \/ Fault /\ UNCHANGED diagnosis
    /\ Inside
    /\ UNCHANGED <<dirs, prompt, record, raw, result, invoked>>

WriteDiagnosis(x) ==
    /\ Goto(x, "diagnosis", "record")
    /\ \/ /\ diagnosis' = [diagnosis EXCEPT ![id[x]] = result[x].sha]
          /\ UNCHANGED <<result, faults>>
       \/ /\ SetResult(x, ArtifactError(result[x]))
          /\ Fault
          /\ UNCHANGED diagnosis
    /\ Inside
    /\ UNCHANGED <<dirs, prompt, record, raw, invoked>>

(* The last replaceJson.  Its failure is ignored after a failed call and   *)
(* after a failed raw write, and turns any other result into an error.     *)
FinalizeIgnored(r) ==
    \/ r.outcome = "model_call_failed"
    \/ r.outcome = "artifact_error" /\ r.parse_status = "not_attempted"

(* Mutant: the reply does not depend on whether the record was finalized.  *)
FinalizeAlwaysIgnored(x) ==
    /\ Goto(x, "record", "clear")
    /\ \/ /\ record' = [record EXCEPT ![id[x]] = Sidecar(result[x])]
          /\ UNCHANGED faults
       \/ Fault /\ UNCHANGED record
    /\ Inside
    /\ UNCHANGED <<dirs, prompt, raw, diagnosis, result, invoked>>

FinalizeRecord(x) ==
    /\ Goto(x, "record", "clear")
    /\ \/ /\ record' = [record EXCEPT ![id[x]] = Sidecar(result[x])]
          /\ UNCHANGED <<result, faults>>
       \/ /\ SetResult(x, IF FinalizeIgnored(result[x]) THEN result[x]
                          ELSE ArtifactError(result[x]))
          /\ Fault
          /\ UNCHANGED record
    /\ Inside
    /\ UNCHANGED <<dirs, prompt, raw, diagnosis, invoked>>

----------------------------------------------------------------------------
(* A server is killed with its exchanges and its flag, and started again.  *)
Restart(s) ==
    /\ Fault
    /\ pc' = [x \in Exchanges |->
                 IF server[x] = s /\ pc[x] \notin Ended THEN "killed" ELSE pc[x]]
    /\ active' = [active EXCEPT ![s] = FALSE]
    /\ UNCHANGED <<disk, server, id, result, reply, invoked>>

Return(x) ==
    \/ \E code \in CallFailures : CallFails(x, code)
    \/ \E response \in Responses : CallSucceeds(x, response)

(* Every step of an exchange that has arrived.                             *)
Step(x) ==
    \/ TestAndSetFlag(x) \/ ClearFlag(x)
    \/ MakeDirectory(x) \/ WritePrompt(x) \/ PublishRecord(x)
    \/ Invoke(x) \/ Return(x) \/ WriteRaw(x) \/ WriteDiagnosis(x) \/ FinalizeRecord(x)

Next ==
    \/ \E x \in Exchanges : Receive(x) \/ Step(x)
    \/ \E s \in Servers : Restart(s)

Spec == Init /\ [][Next]_vars

(* A thread that handles an exchange runs on, and the client's timeouts    *)
(* end every wait for the model; nothing makes a POST arrive.              *)
FairSpec == Spec /\ \A x \in Exchanges : WF_vars(Step(x))

----------------------------------------------------------------------------
(* Properties                                                              *)

(* One call per request_id, for any number of servers on the same root,    *)
(* POSTs repeated after any failure, and restarts in the middle            *)
(* ("每个请求最多一次调用，不自动重试", docs/interactive-diagnosis-demo.md).   *)
AtMostOneCall == \A i \in Ids : invoked[i] <= 1

(* The directory, the prompt and a record of the attempt are on disk       *)
(* before the request leaves, and stay.                                    *)
CallIsOnRecord ==
    \A i \in Ids : invoked[i] > 0 => i \in dirs \cap prompt /\ record[i] # NoRecord

(* call_active_ lets one exchange of a server through at a time.           *)
SingleFlight ==
    \A x, y \in Exchanges :
        pc[x] \in FlagSteps /\ pc[y] \in FlagSteps /\ server[x] = server[y] => x = y

(* Whoever is told 200 was told what the files say: the record is final    *)
(* and diagnosed, and raw-response.txt and diagnosis.json are those of the *)
(* diagnosis in the reply, whatever happened since.                        *)
ReplyIsBacked ==
    \A x \in Exchanges :
        LET i == id[x]
            told == reply[x].diagnosis
        IN  reply[x].status = 200 =>
                /\ ParseStatusOf[told] = "parsed"
                /\ raw[i] = told /\ diagnosis[i] = told
                /\ record[i].outcome = "diagnosed" /\ record[i].sha = told

(* A record that claims a diagnosis has one on disk, and the response it   *)
(* came from, restarts and failed writes notwithstanding.                  *)
DiagnosisIsSaved ==
    \A i \in Ids : record[i].diagnosis_saved =>
        diagnosis[i] = record[i].sha /\ raw[i] = record[i].sha

(* docs/interactive-diagnosis-demo.md:179-181: after a successful transfer *)
(* the directory has "原样 raw-response.txt" (the response as it came), and  *)
(* response_saved means that it was saved byte by byte (phase-02-protocol  *)
(* .md:289).  The code sets it as soon as the hash is known.               *)
RecordedResponseIsSaved ==
    \A i \in Ids : record[i].response_saved => raw[i] = record[i].sha

(* A busy server becomes free: every exchange that was let through clears  *)
(* the flag, on every path, duplicates and failures included.              *)
ServerBecomesFree == \A s \in Servers : active[s] ~> ~active[s]

----------------------------------------------------------------------------
(* The inductive part                                                      *)

(* Everything a 200 stands for is on disk.                                 *)
Backed(i, response) ==
    /\ response \in Responses
    /\ ParseStatusOf[response] = "parsed"
    /\ raw[i] = response /\ diagnosis[i] = response
    /\ record[i].outcome = "diagnosed" /\ record[i].sha = response

FlagsAreHeld ==
    \A x, y \in Exchanges :
        pc[x] \in FlagSteps =>
            /\ active[server[x]]
            /\ pc[y] \in FlagSteps /\ server[x] = server[y] => x = y

OwnersAreUnique ==
    \A x, y \in Exchanges :
        pc[x] \in LatchedSteps /\ pc[y] \in LatchedSteps /\ id[x] = id[y] => x = y

(* Where the only owner of a request can be, given its files and calls.    *)
OwnerInv(x) ==
    LET i == id[x]
        r == result[x]
    IN  /\ pc[x] \in LatchedSteps => i \in dirs
        /\ pc[x] \in LatchedSteps \ {"prompt"} => i \in prompt
        /\ pc[x] \in {"prompt", "publish", "invoke"} => invoked[i] = 0
        /\ pc[x] \in {"await", "raw", "diagnosis", "record"} => invoked[i] = 1
        /\ pc[x] \in {"prompt", "publish"} => record[i] = NoRecord
        /\ pc[x] \in LatchedSteps \ {"prompt", "publish"} => record[i] = Sidecar(Attempting)
        /\ pc[x] = "raw" => r.sha \in Responses /\ ~r.ok
        /\ pc[x] = "diagnosis" =>
              /\ r.sha \in Responses /\ raw[i] = r.sha
              /\ ParseStatusOf[r.sha] = "parsed" /\ r.outcome = "diagnosed"
        /\ pc[x] = "record" =>
              /\ r.outcome # "attempting"
              /\ r.ok => /\ r.sha \in Responses /\ ParseStatusOf[r.sha] = "parsed"
                         /\ raw[i] = r.sha /\ diagnosis[i] = r.sha
                         /\ r.outcome = "diagnosed"
        /\ pc[x] = "clear" /\ r.ok => Backed(i, r.sha)

(* What the files and the calls of a request say about each other.         *)
RequestInv(i) ==
    /\ invoked[i] <= 1
    /\ invoked[i] > 0 => i \in dirs \cap prompt /\ record[i] # NoRecord
    /\ i \notin dirs => invoked[i] = 0 /\ record[i] = NoRecord
    /\ invoked[i] = 0 => record[i] \in {NoRecord, Sidecar(Attempting)}
    /\ record[i].diagnosis_saved => diagnosis[i] = record[i].sha /\ raw[i] = record[i].sha

(* With TypeOK inductive; it implies every invariant above but             *)
(* RecordedResponseIsSaved.                                                *)
InteractiveInv ==
    /\ FlagsAreHeld
    /\ OwnersAreUnique
    /\ \A x \in Exchanges : OwnerInv(x)
    /\ \A x \in Exchanges : reply[x].status = 200 => Backed(id[x], reply[x].diagnosis)
    /\ \A i \in Ids : RequestInv(i)

----------------------------------------------------------------------------
(* Refinement: a request_id is a billable key of OneShotCall; the          *)
(* directory is the latch, the final model-call.json the record.           *)

CallState(isMade, count, outcome) ==
    IF count > 0
    THEN IF outcome \in {"absent", "attempting"} THEN "sent" ELSE "settled"
    ELSE IF isMade THEN "latched" ELSE "idle"

CallStates == [i \in Ids |-> CallState(i \in dirs, invoked[i], record[i].outcome)]

Audited == INSTANCE OneShotCall WITH Keys <- Ids, call <- CallStates

(* The demo implements the one-shot call.                                  *)
ImplementsOneShotCall == Audited!Spec
=============================================================================
