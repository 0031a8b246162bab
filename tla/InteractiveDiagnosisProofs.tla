--------------------- MODULE InteractiveDiagnosisProofs ---------------------
(***************************************************************************)
(* Proofs about InteractiveDiagnosis, for every set of exchanges, servers, *)
(* requests and responses, and every bound on faults.                      *)
(***************************************************************************)
EXTENDS InteractiveDiagnosis, TLAPS

(* The results and records the code makes are of their types.              *)
LEMMA ResultsAreTyped ==
    /\ Attempting \in Results /\ NoRecord \in Records
    /\ \A o \in Outcomes, c \in Codes : Failed(o, c) \in Results
    /\ \A r \in Results : ArtifactError(r) \in Results /\ Sidecar(r) \in Records
    /\ \A b \in Responses : Received(b) \in Results /\ Classified(b) \in Results
<1> USE DEF Results, Result, Outcomes, Codes, ResponseStatuses
<1>1. Attempting \in Results /\ NoRecord \in Records
  BY DEF Attempting, NoRecord, Records
<1>2. ASSUME NEW o \in Outcomes, NEW c \in Codes PROVE Failed(o, c) \in Results
  BY DEF Failed
<1>3. ASSUME NEW r \in Results PROVE ArtifactError(r) \in Results
  BY DEF ArtifactError
<1>4. ASSUME NEW r \in Results PROVE Sidecar(r) \in Records
  <2>1. r.outcome \in Outcomes /\ r.sha \in Responses \cup {Absent} /\ r.ok \in BOOLEAN
    OBVIOUS
  <2>2. (r.sha # Absent) \in BOOLEAN
    OBVIOUS
  <2> QED BY <2>1, <2>2 DEF Sidecar, Records
<1>5. ASSUME NEW b \in Responses PROVE Received(b) \in Results /\ Classified(b) \in Results
  <2>1. ParseStatusOf[b] \in ResponseStatuses
    BY InteractiveAssumption
  <2> QED BY <2>1 DEF Received, Classified
<1> QED BY <1>1, <1>2, <1>3, <1>4, <1>5

(* What is in them.                                                        *)
LEMMA FormsOfResults ==
    /\ ~Attempting.ok
    /\ \A o, c : ~Failed(o, c).ok /\ Failed(o, c).outcome = o
    /\ \A r \in Results : /\ ~ArtifactError(r).ok
                         /\ ArtifactError(r).outcome = "artifact_error"
    /\ \A b : /\ ~Received(b).ok /\ Received(b).sha = b
              /\ Classified(b).sha = b /\ Classified(b).outcome # "attempting"
              /\ Classified(b).ok <=> ParseStatusOf[b] = "parsed"
              /\ ParseStatusOf[b] = "parsed" => Classified(b).outcome = "diagnosed"
BY DEF Attempting, Results, Failed, Result, ArtifactError, Received, Classified

LEMMA FormsOfRecords ==
    /\ NoRecord.outcome = "absent" /\ ~NoRecord.diagnosis_saved
    /\ Sidecar(Attempting).outcome = "attempting" /\ ~Sidecar(Attempting).diagnosis_saved
    /\ NoRecord # Sidecar(Attempting)
    /\ \A r : /\ Sidecar(r).outcome = r.outcome /\ Sidecar(r).sha = r.sha
              /\ Sidecar(r).diagnosis_saved = r.ok
BY DEF Sidecar, NoRecord, Attempting, Result

(* What the server answers is a reply, and 200 only says that all went well. *)
LEMMA RepliesAreTyped ==
    ASSUME NEW r \in Results
    PROVE  /\ StatusFor(r) \in {200, 409, 429, 500, 502, 504}
           /\ StatusFor(r) = 200 <=> r.ok
           /\ (IF r.ok THEN r.sha ELSE Absent) \in Responses \cup {Absent}
<1>1. r.ok \in BOOLEAN /\ r.sha \in Responses \cup {Absent}
  BY DEF Results
<1>2. CASE r.ok
  <2>1. StatusFor(r) = 200
    BY <1>2 DEF StatusFor
  <2>2. (IF r.ok THEN r.sha ELSE Absent) = r.sha
    BY <1>2
  <2> QED BY <1>1, <1>2, <2>1, <2>2
<1>3. CASE ~r.ok
  <2>1. StatusFor(r) \in {409, 429, 500, 502, 504}
    BY <1>3 DEF StatusFor
  <2> QED BY <1>1, <1>3, <2>1
<1> QED BY <1>2, <1>3

(* test_and_set lets the exchange in or turns it away.                     *)
LEMMA FlagForms ==
    ASSUME NEW x \in Exchanges, TestAndSetFlag(x)
    PROVE  /\ pc[x] = "flag"
           /\ UNCHANGED <<disk, server, id, result, invoked, faults>>
           /\ \/ /\ ~active[server[x]]
                 /\ pc' = [pc EXCEPT ![x] = "make_directory"]
                 /\ active' = [active EXCEPT ![server[x]] = TRUE]
                 /\ reply' = reply
              \/ /\ pc' = [pc EXCEPT ![x] = "done"]
                 /\ active' = active
                 /\ reply' = [reply EXCEPT ![x] = [status |-> 429, diagnosis |-> Absent]]
BY Zenon DEF TestAndSetFlag, Goto, Answer

(* Every step of an exchange keeps the types.                              *)
LEMMA StepIsTyped ==
    ASSUME TypeOK, InteractiveInv, NEW x \in Exchanges, Receive(x) \/ Step(x)
    PROVE  TypeOK'
<1> USE DEF Steps, FlagSteps, LatchedSteps, Ended, CallFailures, Goto, SetResult, Inside, Answer, AbandonBeforeCall, CallFails, CallSucceeds,
           Return, disk
<1> USE DEF TypeOK
<1>0. id[x] \in Ids /\ server[x] \in Servers /\ result[x] \in Results
  OBVIOUS
<1>a. Fault \/ UNCHANGED faults => faults' \in 0..MaxFaults
  BY InteractiveAssumption DEF Fault
<1>b. ASSUME NEW s \in {0, 200, 400, 409, 429, 500, 502, 504}, NEW d \in Responses \cup {Absent}
      PROVE  [status |-> s, diagnosis |-> d] \in
                [status : {0, 200, 400, 409, 429, 500, 502, 504}, diagnosis : Responses \cup {Absent}]
  OBVIOUS
<1>1. CASE Receive(x)
  <2>1. reply' = reply \/ reply' = [reply EXCEPT ![x] = [status |-> 400, diagnosis |-> Absent]]
    BY <1>1 DEF Receive
  <2>2. reply' \in [Exchanges -> [status : {0, 200, 400, 409, 429, 500, 502, 504},
                                 diagnosis : Responses \cup {Absent}]]
    BY <1>b, <2>1
  <2> QED BY <1>0, <1>a, <2>2, <1>1 DEF Receive
<1>2. CASE TestAndSetFlag(x)
  <2>1. reply' \in [Exchanges -> [status : {0, 200, 400, 409, 429, 500, 502, 504},
                                 diagnosis : Responses \cup {Absent}]]
    BY <1>b, <1>2, FlagForms
  <2>2. pc' \in [Exchanges -> Steps]
    BY <1>2, FlagForms
  <2>3. active' = active \/ active' = [active EXCEPT ![server[x]] = TRUE]
    BY <1>2, FlagForms
  <2>4. active' \in [Servers -> BOOLEAN]
    <3>1. active \in [Servers -> BOOLEAN]
      OBVIOUS
    <3>2. [active EXCEPT ![server[x]] = TRUE] \in [Servers -> BOOLEAN]
      BY ONLY <3>1, Zenon
    <3> QED BY <2>3, <3>1, <3>2, Zenon
  <2> QED BY <1>a, <1>2, <2>1, <2>2, <2>4, FlagForms
<1>3. CASE ClearFlag(x)
  <2> DEFINE r == result[x]
             d == IF r.ok THEN r.sha ELSE Absent
  <2>1. reply' = [reply EXCEPT ![x] = [status |-> StatusFor(r), diagnosis |-> d]]
    BY <1>3 DEF ClearFlag
  <2>2. [status |-> StatusFor(r), diagnosis |-> d] \in
            [status : {0, 200, 400, 409, 429, 500, 502, 504}, diagnosis : Responses \cup {Absent}]
    <3>1. StatusFor(r) \in {200, 409, 429, 500, 502, 504} /\ d \in Responses \cup {Absent}
      BY <1>0, RepliesAreTyped
    <3> QED BY <1>b, <3>1
  <2>3. reply' \in [Exchanges -> [status : {0, 200, 400, 409, 429, 500, 502, 504},
                                 diagnosis : Responses \cup {Absent}]]
    BY <2>1, <2>2
  <2> QED BY <1>0, <1>a, <2>3, <1>3 DEF ClearFlag
<1>4. CASE MakeDirectory(x)
  <2>1. /\ Attempting \in Results
        /\ Failed("duplicate_request", "E_REQUEST_EXISTS") \in Results
        /\ Failed("artifact_error", "E_ARTIFACT_WRITE") \in Results
    BY ResultsAreTyped DEF Outcomes, Codes
  <2> QED BY <1>0, <1>a, <2>1, <1>4 DEF MakeDirectory
<1>5. CASE WritePrompt(x)
  <2>1. Failed("artifact_error", "E_ARTIFACT_WRITE") \in Results
    BY ResultsAreTyped DEF Outcomes, Codes
  <2>2. pc' \in [Exchanges -> Steps]
    BY <1>5 DEF WritePrompt
  <2>3. result' \in [Exchanges -> Results]
    BY <2>1, <1>5 DEF WritePrompt
  <2>4. record' \in [Ids -> Records] /\ prompt' \subseteq Ids
    BY <1>0, <2>1, <1>5 DEF WritePrompt
  <2> QED BY <1>0, <1>a, <2>2, <2>3, <2>4, <1>5 DEF WritePrompt
<1>6. CASE PublishRecord(x)
  <2>1. Failed("artifact_error", "E_ARTIFACT_WRITE") \in Results /\ Sidecar(Attempting) \in Records
    BY ResultsAreTyped DEF Outcomes, Codes
  <2>2. pc' \in [Exchanges -> Steps]
    BY <1>6 DEF PublishRecord
  <2>3. result' \in [Exchanges -> Results]
    BY <2>1, <1>6 DEF PublishRecord
  <2>4. record' \in [Ids -> Records] /\ prompt' \subseteq Ids
    BY <1>0, <2>1, <1>6 DEF PublishRecord
  <2> QED BY <1>0, <1>a, <2>2, <2>3, <2>4, <1>6 DEF PublishRecord
<1>7. CASE Invoke(x)
  BY <1>0, <1>a, ResultsAreTyped, <1>7 DEF Invoke
<1>8. CASE Return(x)
  <2>1. CASE \E code \in CallFailures : CallFails(x, code)
    <3>1. \A code \in CallFailures : Failed("model_call_failed", code) \in Results
      BY ResultsAreTyped DEF Outcomes, Codes
    <3> QED BY <1>0, <1>a, <2>1, <3>1
  <2>2. CASE \E response \in Responses : CallSucceeds(x, response)
    BY <1>0, <1>a, <2>2, ResultsAreTyped
  <2> QED BY <2>1, <2>2, <1>8
<1>9. CASE WriteRaw(x)
  <2>1. PICK left \in {Absent, Torn, result[x].sha} : raw' = [raw EXCEPT ![id[x]] = left]
    BY <1>9 DEF WriteRaw
  <2>2. raw' \in [Ids -> Responses \cup {Absent, Torn}]
    <3>1. result[x].sha \in Responses \cup {Absent}
      BY <1>0 DEF Results
    <3> QED BY <2>1, <3>1
  <2>3. CASE SetResult(x, Classified(result[x].sha)) /\ UNCHANGED faults
    <3>1. result[x].sha \in Responses
      BY <1>9 DEF WriteRaw, InteractiveInv, OwnerInv
    <3>2. Classified(result[x].sha) \in Results
      BY <3>1, ResultsAreTyped
    <3>3. result' \in [Exchanges -> Results]
      BY <2>3, <3>2
    <3> QED BY <1>0, <1>a, <2>2, <2>3, <3>3, <1>9 DEF WriteRaw
  <2>4. CASE SetResult(x, ArtifactError(result[x])) /\ Fault
    <3>1. result' \in [Exchanges -> Results]
      BY <1>0, <2>4, ResultsAreTyped
    <3>2. pc' \in [Exchanges -> Steps]
      BY <1>9 DEF WriteRaw
    <3> QED BY <1>a, <2>2, <2>4, <3>1, <3>2, <1>9 DEF WriteRaw
  <2> QED BY <2>3, <2>4, <1>9 DEF WriteRaw
<1>10. CASE WriteDiagnosis(x)
  <2>1. result[x].sha \in Responses \cup {Absent} /\ ArtifactError(result[x]) \in Results
    BY <1>0, ResultsAreTyped DEF Results
  <2> QED BY <1>0, <1>a, <2>1, <1>10 DEF WriteDiagnosis
<1>11. CASE FinalizeRecord(x)
  <2>1. Sidecar(result[x]) \in Records /\ ArtifactError(result[x]) \in Results
    BY <1>0, ResultsAreTyped
  <2>2. pc' \in [Exchanges -> Steps]
    BY <1>11 DEF FinalizeRecord
  <2>3. result' \in [Exchanges -> Results]
    BY <2>1, <1>11 DEF FinalizeRecord
  <2>4. record' \in [Ids -> Records] /\ prompt' \subseteq Ids
    BY <1>0, <2>1, <1>11 DEF FinalizeRecord
  <2> QED BY <1>0, <1>a, <2>2, <2>3, <2>4, <1>11 DEF FinalizeRecord
<1> QED BY <1>1, <1>2, <1>3, <1>4, <1>5, <1>6, <1>7, <1>8, <1>9, <1>10, <1>11 DEF Step

(* What a step of x leaves alone: the other exchanges, and the files of    *)
(* every request that x does not own.                                      *)
Same(i) ==
    /\ i \in prompt' <=> i \in prompt
    /\ record'[i] = record[i] /\ raw'[i] = raw[i]
    /\ diagnosis'[i] = diagnosis[i] /\ invoked'[i] = invoked[i]

LEMMA StepFrame ==
    ASSUME TypeOK, NEW x \in Exchanges, Receive(x) \/ Step(x)
    PROVE  /\ server' = server /\ id' = id
           /\ \A y \in Exchanges \ {x} :
                 pc'[y] = pc[y] /\ result'[y] = result[y] /\ reply'[y] = reply[y]
           /\ \A i \in Ids : i # id[x] \/ pc[x] \notin LatchedSteps => Same(i)
           /\ dirs \subseteq dirs'
           /\ \A i \in dirs' \ dirs : i = id[x] /\ pc[x] = "make_directory"
<1> USE DEF Steps, FlagSteps, LatchedSteps, Ended, Goto, SetResult, Inside, Answer, AbandonBeforeCall, CallFails, CallSucceeds,
           Return, disk
<1> USE DEF TypeOK, Same
<1>0. id[x] \in Ids
  OBVIOUS
<1>1. CASE Receive(x)
  BY <1>0, <1>1 DEF Receive
<1>2. CASE TestAndSetFlag(x)
  BY <1>0, <1>2, FlagForms
<1>3. CASE ClearFlag(x)
  BY <1>0, <1>3 DEF ClearFlag
<1>4. CASE MakeDirectory(x)
  BY <1>0, <1>4 DEF MakeDirectory
<1>5. CASE WritePrompt(x)
  BY <1>0, <1>5 DEF WritePrompt
<1>6. CASE PublishRecord(x)
  BY <1>0, <1>6 DEF PublishRecord
<1>7. CASE Invoke(x)
  BY <1>0, <1>7 DEF Invoke
<1>8. CASE Return(x)
  BY <1>0, <1>8 DEF Return
<1>9. CASE WriteRaw(x)
  BY <1>0, <1>9 DEF WriteRaw
<1>10. CASE WriteDiagnosis(x)
  BY <1>0, <1>10 DEF WriteDiagnosis
<1>11. CASE FinalizeRecord(x)
  BY <1>0, <1>11 DEF FinalizeRecord
<1> QED BY <1>1, <1>2, <1>3, <1>4, <1>5, <1>6, <1>7, <1>8, <1>9, <1>10, <1>11 DEF Step

(* The flag: test_and_set lets one exchange in when nobody is inside.      *)
LEMMA FlagsAreKept ==
    ASSUME TypeOK, InteractiveInv, NEW x \in Exchanges, Receive(x) \/ Step(x)
    PROVE  FlagsAreHeld'
<1> USE DEF Steps, FlagSteps, LatchedSteps, Ended, Goto, SetResult, Inside, Answer, AbandonBeforeCall, CallFails, CallSucceeds,
           Return, disk
<1> USE DEF TypeOK, InteractiveInv, FlagsAreHeld
<1>0. id[x] \in Ids /\ server[x] \in Servers /\ result[x] \in Results
  OBVIOUS
<1>1. CASE Receive(x)
  BY <1>0, <1>1 DEF Receive
<1>2. CASE TestAndSetFlag(x)
  BY <1>0, <1>2, FlagForms
<1>3. CASE ClearFlag(x)
  BY <1>0, <1>3 DEF ClearFlag
<1>4. CASE MakeDirectory(x)
  BY <1>0, <1>4 DEF MakeDirectory
<1>5. CASE WritePrompt(x)
  BY <1>0, <1>5 DEF WritePrompt
<1>6. CASE PublishRecord(x)
  BY <1>0, <1>6 DEF PublishRecord
<1>7. CASE Invoke(x)
  BY <1>0, <1>7 DEF Invoke
<1>8. CASE Return(x)
  BY <1>0, <1>8 DEF Return
<1>9. CASE WriteRaw(x)
  BY <1>0, <1>9 DEF WriteRaw
<1>10. CASE WriteDiagnosis(x)
  BY <1>0, <1>10 DEF WriteDiagnosis
<1>11. CASE FinalizeRecord(x)
  BY <1>0, <1>11 DEF FinalizeRecord
<1> QED BY <1>1, <1>2, <1>3, <1>4, <1>5, <1>6, <1>7, <1>8, <1>9, <1>10, <1>11 DEF Step

(* The latch: the step that makes an owner makes a new directory.          *)
LEMMA OwnersAreKept ==
    ASSUME TypeOK, InteractiveInv, NEW x \in Exchanges, Receive(x) \/ Step(x)
    PROVE  OwnersAreUnique'
<1> USE DEF Steps, FlagSteps, LatchedSteps, Ended, Goto, SetResult, Inside, Answer, AbandonBeforeCall, CallFails, CallSucceeds,
           Return, disk
<1> USE DEF TypeOK, InteractiveInv, OwnersAreUnique, OwnerInv
<1>0. id[x] \in Ids /\ server[x] \in Servers /\ result[x] \in Results
  OBVIOUS
<1>1. CASE Receive(x)
  BY <1>0, <1>1 DEF Receive
<1>2. CASE TestAndSetFlag(x)
  BY <1>0, <1>2, FlagForms
<1>3. CASE ClearFlag(x)
  BY <1>0, <1>3 DEF ClearFlag
<1>4. CASE MakeDirectory(x)
  BY <1>0, <1>4 DEF MakeDirectory
<1>5. CASE WritePrompt(x)
  BY <1>0, <1>5 DEF WritePrompt
<1>6. CASE PublishRecord(x)
  BY <1>0, <1>6 DEF PublishRecord
<1>7. CASE Invoke(x)
  BY <1>0, <1>7 DEF Invoke
<1>8. CASE Return(x)
  BY <1>0, <1>8 DEF Return
<1>9. CASE WriteRaw(x)
  BY <1>0, <1>9 DEF WriteRaw
<1>10. CASE WriteDiagnosis(x)
  BY <1>0, <1>10 DEF WriteDiagnosis
<1>11. CASE FinalizeRecord(x)
  BY <1>0, <1>11 DEF FinalizeRecord
<1> QED BY <1>1, <1>2, <1>3, <1>4, <1>5, <1>6, <1>7, <1>8, <1>9, <1>10, <1>11 DEF Step

(* A diagnosis that is backed is not touched: its record is final, and an  *)
(* owner's record is not.                                                  *)
LEMMA BackedIsKept ==
    ASSUME TypeOK, InteractiveInv, NEW x \in Exchanges, Receive(x) \/ Step(x),
           NEW i \in Ids, NEW response, Backed(i, response)
    PROVE  Backed(i, response)'
<1>1. i # id[x] \/ pc[x] \notin LatchedSteps
  <2>1. OwnerInv(x) /\ record[i].outcome = "diagnosed"
    BY DEF InteractiveInv, Backed
  <2> QED BY <2>1, FormsOfRecords DEF OwnerInv, LatchedSteps
<1>2. Same(i)
  BY <1>1, StepFrame
<1> QED BY <1>2 DEF Same, Backed

(* What another exchange owns, or is about to answer, is not touched.      *)
LEMMA OthersAreKept ==
    ASSUME TypeOK, InteractiveInv, NEW x \in Exchanges, Receive(x) \/ Step(x),
           NEW y \in Exchanges, y # x
    PROVE  OwnerInv(y)'
<1> DEFINE i == id[y]
<1>1. /\ OwnerInv(y) /\ i \in Ids
      /\ pc'[y] = pc[y] /\ id'[y] = i /\ result'[y] = result[y] /\ dirs \subseteq dirs'
  BY StepFrame DEF TypeOK, InteractiveInv
<1>2. CASE pc[y] \in LatchedSteps
  <2>1. i # id[x] \/ pc[x] \notin LatchedSteps
    BY <1>2 DEF InteractiveInv, OwnersAreUnique
  <2>2. Same(i)
    BY <1>1, <2>1, StepFrame
  <2> HIDE DEF i
  <2>3. i = id[y]
    BY DEF i
  <2> QED BY <1>1, <1>2, <2>2, <2>3 DEF Same, OwnerInv, LatchedSteps
<1>3. CASE pc[y] = "clear"
  <2>1. result[y].ok => Backed(i, result[y].sha)'
    BY <1>1, <1>3, BackedIsKept DEF OwnerInv
  <2> QED BY <1>1, <1>3, <2>1 DEF OwnerInv, LatchedSteps
<1>4. CASE pc[y] \notin LatchedSteps /\ pc[y] # "clear"
  BY <1>1, <1>4 DEF OwnerInv, LatchedSteps
<1> QED BY <1>2, <1>3, <1>4

(* What x itself has done agrees with the files it has written.            *)
LEMMA OwnerIsKept ==
    ASSUME TypeOK, InteractiveInv, NEW x \in Exchanges, Receive(x) \/ Step(x)
    PROVE  OwnerInv(x)'
<1> USE DEF Goto, SetResult, Inside, Answer, AbandonBeforeCall, CallFails, CallSucceeds,
           Return, disk
<1>0. /\ id[x] \in Ids /\ server[x] \in Servers /\ result[x] \in Results
      /\ OwnerInv(x) /\ RequestInv(id[x])
  BY DEF TypeOK, InteractiveInv
<1> USE DEF TypeOK, OwnerInv, LatchedSteps
<1>1. CASE Receive(x)
  BY <1>0, <1>1 DEF Receive
<1>2. CASE TestAndSetFlag(x)
  BY <1>0, <1>2, FlagForms
<1>3. CASE ClearFlag(x)
  BY <1>0, <1>3 DEF ClearFlag
<1>4. CASE MakeDirectory(x)
  BY <1>0, FormsOfResults, <1>4 DEF MakeDirectory, RequestInv
<1>5. CASE WritePrompt(x)
  BY <1>0, FormsOfResults, FormsOfRecords, <1>5 DEF WritePrompt
<1>6. CASE PublishRecord(x)
  BY <1>0, FormsOfResults, FormsOfRecords, <1>6 DEF PublishRecord
<1>7. CASE Invoke(x)
  BY <1>0, FormsOfResults, FormsOfRecords, <1>7 DEF Invoke
<1>8. CASE Return(x)
  BY <1>0, FormsOfResults, FormsOfRecords, <1>8 DEF Return
<1>9. CASE WriteRaw(x)
  BY <1>0, FormsOfResults, FormsOfRecords, <1>9 DEF WriteRaw
<1>10. CASE WriteDiagnosis(x)
  <2>1. CASE UNCHANGED result
    BY <1>0, FormsOfResults, <1>10, <2>1 DEF WriteDiagnosis
  <2>2. CASE SetResult(x, ArtifactError(result[x]))
    BY <1>0, FormsOfResults, <1>10, <2>2 DEF WriteDiagnosis
  <2> QED BY <2>1, <2>2, <1>10 DEF WriteDiagnosis
<1>11. CASE FinalizeRecord(x)
  BY <1>0, FormsOfResults, FormsOfRecords, <1>11 DEF FinalizeRecord, FinalizeIgnored, Backed
<1> QED BY <1>1, <1>2, <1>3, <1>4, <1>5, <1>6, <1>7, <1>8, <1>9, <1>10, <1>11 DEF Step

(* A 200 is given for what is on disk, and stays backed.                   *)
LEMMA ReplyIsKept ==
    ASSUME TypeOK, InteractiveInv, NEW x \in Exchanges, Receive(x) \/ Step(x),
           NEW y \in Exchanges
    PROVE  reply'[y].status = 200 => Backed(id[y], reply[y].diagnosis)'
<1>0. id[x] \in Ids /\ id[y] \in Ids /\ result[x] \in Results /\ id' = id
  BY StepFrame DEF TypeOK
<1>1. CASE reply'[y] = reply[y]
  BY <1>0, <1>1, BackedIsKept DEF InteractiveInv
<1>2. CASE reply'[y] # reply[y]
  <2>1. y = x
    BY <1>2, StepFrame
  <2>2. reply' # reply
    BY <1>2
  <2>3. CASE ClearFlag(x)
    <3>1. reply'[x] = [status |-> StatusFor(result[x]),
                       diagnosis |-> IF result[x].ok THEN result[x].sha ELSE Absent]
      BY <2>3 DEF ClearFlag, Answer, TypeOK
    <3>2. result[x].ok => Backed(id[x], result[x].sha)
      BY <2>3 DEF ClearFlag, Goto, InteractiveInv, OwnerInv
    <3>3. reply'[x].status = 200 => result[x].ok /\ reply'[x].diagnosis = result[x].sha
      BY <1>0, <3>1, RepliesAreTyped
    <3> QED BY <1>0, <2>1, <3>2, <3>3, BackedIsKept
  <2>4. CASE ~ClearFlag(x)
    <3>1. reply'[x].status # 200
      BY <2>1, <2>2, <2>4 DEF Step, Receive, TestAndSetFlag, Return, MakeDirectory, WritePrompt,
            PublishRecord, Invoke, WriteRaw, WriteDiagnosis, FinalizeRecord, AbandonBeforeCall,
            CallFails, CallSucceeds, Inside, Answer, TypeOK
    <3> QED BY <2>1, <3>1
  <2> QED BY <2>3, <2>4
<1> QED BY <1>1, <1>2

(* What the files and the calls say about each other.                      *)
LEMMA RequestIsKept ==
    ASSUME TypeOK, InteractiveInv, NEW x \in Exchanges, Receive(x) \/ Step(x), NEW i \in Ids
    PROVE  RequestInv(i)'
<1> USE DEF Goto, SetResult, Inside, Answer, AbandonBeforeCall, CallFails, CallSucceeds,
           Return, disk
<1>0. /\ id[x] \in Ids /\ server[x] \in Servers /\ result[x] \in Results
      /\ OwnerInv(x) /\ RequestInv(i) /\ dirs \subseteq dirs'
  BY StepFrame DEF TypeOK, InteractiveInv
<1>z. CASE i # id[x] \/ pc[x] \notin LatchedSteps
  <2>1. Same(i)
    BY <1>z, StepFrame
  <2> QED BY <1>0, <2>1 DEF Same, RequestInv
<1>y. CASE i = id[x] /\ pc[x] \in LatchedSteps
  <2> USE DEF TypeOK, OwnerInv, LatchedSteps, RequestInv
  <2>0. pc[x] \in LatchedSteps
    BY <1>y
  <2>1. CASE Receive(x) \/ TestAndSetFlag(x) \/ ClearFlag(x) \/ MakeDirectory(x)
    BY <2>0, <2>1 DEF Receive, TestAndSetFlag, ClearFlag, MakeDirectory
  <2>2. CASE WritePrompt(x)
    BY <1>0, <1>y, FormsOfResults, FormsOfRecords, <2>2 DEF WritePrompt
  <2>3. CASE PublishRecord(x)
    BY <1>0, <1>y, FormsOfResults, FormsOfRecords, <2>3 DEF PublishRecord
  <2>4. CASE Invoke(x)
    BY <1>0, <1>y, FormsOfResults, FormsOfRecords, <2>4 DEF Invoke
  <2>5. CASE Return(x)
    BY <1>0, <1>y, FormsOfResults, FormsOfRecords, <2>5 DEF Return
  <2>6. CASE WriteRaw(x)
    BY <1>0, <1>y, FormsOfResults, FormsOfRecords, <2>6 DEF WriteRaw
  <2>7. CASE WriteDiagnosis(x)
    BY <1>0, <1>y, FormsOfResults, FormsOfRecords, <2>7 DEF WriteDiagnosis
  <2>8. CASE FinalizeRecord(x)
    <3>1. result[x].outcome # "absent"
      BY <1>0 DEF Results, Outcomes
    <3>2. CASE UNCHANGED record
      BY <1>0, <1>y, <2>8, <3>2 DEF FinalizeRecord
    <3>3. CASE record' = [record EXCEPT ![id[x]] = Sidecar(result[x])]
      <4>1. record'[i] = Sidecar(result[x])
        BY <1>0, <1>y, <3>3
      <4>2. record'[i] # NoRecord
        BY <3>1, <4>1, FormsOfRecords
      <4>3. record'[i].diagnosis_saved => diagnosis[i] = record'[i].sha /\ raw[i] = record'[i].sha
        BY <1>0, <1>y, <2>8, <4>1, FormsOfRecords DEF FinalizeRecord
      <4> QED BY <1>0, <1>y, <2>8, <4>2, <4>3 DEF FinalizeRecord
    <3> QED BY <3>2, <3>3, <2>8 DEF FinalizeRecord
  <2> QED BY <2>1, <2>2, <2>3, <2>4, <2>5, <2>6, <2>7, <2>8 DEF Step
<1> QED BY <1>z, <1>y

(* Together: every step of an exchange, and every restart, keeps the       *)
(* invariant.                                                              *)
LEMMA StepIsSafe ==
    ASSUME TypeOK, InteractiveInv, NEW x \in Exchanges, Receive(x) \/ Step(x)
    PROVE  InteractiveInv'
<1>1. \A y \in Exchanges : OwnerInv(y)'
  BY OwnerIsKept, OthersAreKept
<1>2. \A y \in Exchanges : reply'[y].status = 200 => Backed(id[y], reply[y].diagnosis)'
  BY ReplyIsKept
<1>3. \A i \in Ids : RequestInv(i)'
  BY RequestIsKept
<1> QED BY <1>1, <1>2, <1>3, FlagsAreKept, OwnersAreKept DEF InteractiveInv

LEMMA RestartIsSafe ==
    ASSUME TypeOK, InteractiveInv, NEW s \in Servers, Restart(s)
    PROVE  TypeOK' /\ InteractiveInv'
<1> USE DEF Restart, disk
<1>1. TypeOK'
  <2>1. faults' \in 0..MaxFaults
    BY InteractiveAssumption DEF TypeOK, Fault
  <2>2. pc' \in [Exchanges -> Steps]
    BY DEF TypeOK, Steps, Ended
  <2> QED BY <2>1, <2>2 DEF TypeOK
<1>2. \A x \in Exchanges :
          /\ pc'[x] \in {pc[x], "killed"}
          /\ pc'[x] \in FlagSteps => pc'[x] = pc[x] /\ server[x] # s
  BY DEF FlagSteps, LatchedSteps, Ended
<1>3. FlagsAreHeld'
  BY <1>2 DEF TypeOK, InteractiveInv, FlagsAreHeld, FlagSteps
<1>4. OwnersAreUnique'
  BY <1>2 DEF InteractiveInv, OwnersAreUnique, LatchedSteps
<1>5. ASSUME NEW x \in Exchanges PROVE OwnerInv(x)'
  <2>1. OwnerInv(x) /\ pc'[x] \in {pc[x], "killed"}
    BY <1>2 DEF InteractiveInv
  <2> QED BY <2>1 DEF OwnerInv, LatchedSteps, Backed
<1>6. \A x \in Exchanges : reply'[x].status = 200 => Backed(id[x], reply[x].diagnosis)'
  BY DEF InteractiveInv, Backed
<1>7. \A i \in Ids : RequestInv(i)'
  BY DEF InteractiveInv, RequestInv
<1> QED BY <1>1, <1>3, <1>4, <1>5, <1>6, <1>7 DEF InteractiveInv

(* Invariant: types, flags, owners, replies and requests together.         *)
THEOREM InteractiveInvariant == Spec => [](TypeOK /\ InteractiveInv)
<1>1. Init => TypeOK /\ InteractiveInv
  <2> SUFFICES ASSUME Init PROVE TypeOK /\ InteractiveInv
    OBVIOUS
  <2>1. TypeOK
    BY ResultsAreTyped, InteractiveAssumption
       DEF Init, TypeOK, Steps, Ended, NoReply
  <2>2. \A i \in Ids : RequestInv(i)
    BY FormsOfRecords DEF Init, RequestInv
  <2>3. \A x \in Exchanges : OwnerInv(x) /\ reply[x].status # 200
    BY DEF Init, OwnerInv, LatchedSteps, NoReply
  <2> QED BY <2>1, <2>2, <2>3
          DEF Init, InteractiveInv, FlagsAreHeld, OwnersAreUnique, FlagSteps, LatchedSteps
<1>2. TypeOK /\ InteractiveInv /\ [Next]_vars => TypeOK' /\ InteractiveInv'
  <2> SUFFICES ASSUME TypeOK, InteractiveInv, [Next]_vars PROVE TypeOK' /\ InteractiveInv'
    OBVIOUS
  <2>1. CASE UNCHANGED vars
    BY <2>1 DEF vars, disk, TypeOK, InteractiveInv, FlagsAreHeld, OwnersAreUnique, OwnerInv,
                RequestInv, Backed
  <2>2. ASSUME NEW x \in Exchanges, Receive(x) \/ Step(x) PROVE TypeOK' /\ InteractiveInv'
    BY <2>2, StepIsTyped, StepIsSafe
  <2>3. ASSUME NEW s \in Servers, Restart(s) PROVE TypeOK' /\ InteractiveInv'
    BY <2>3, RestartIsSafe
  <2> QED BY <2>1, <2>2, <2>3 DEF Next
<1> QED BY <1>1, <1>2, PTL DEF Spec

(* The state of the demo is always of its type (TypeOK).                   *)
THEOREM InteractiveTypeCorrect == Spec => []TypeOK
BY InteractiveInvariant, PTL

(* A server lets one exchange through at a time (SingleFlight).            *)
THEOREM OneExchangeAtATime == Spec => []SingleFlight
<1>1. InteractiveInv => SingleFlight
  BY DEF InteractiveInv, FlagsAreHeld, SingleFlight
<1> QED BY <1>1, InteractiveInvariant, PTL

(* A request_id is called for at most once (AtMostOneCall).                *)
THEOREM CalledAtMostOnce == Spec => []AtMostOneCall
<1>1. InteractiveInv => AtMostOneCall
  BY DEF InteractiveInv, RequestInv, AtMostOneCall
<1> QED BY <1>1, InteractiveInvariant, PTL

(* Directory, prompt and record are there before the request leaves        *)
(* (CallIsOnRecord).                                                       *)
THEOREM CalledOnRecord == Spec => []CallIsOnRecord
<1>1. InteractiveInv => CallIsOnRecord
  BY DEF InteractiveInv, RequestInv, CallIsOnRecord
<1> QED BY <1>1, InteractiveInvariant, PTL

(* A 200 says what the files say, then and ever after (ReplyIsBacked).     *)
THEOREM RepliesAreBacked == Spec => []ReplyIsBacked
<1>1. InteractiveInv => ReplyIsBacked
  BY DEF InteractiveInv, Backed, ReplyIsBacked
<1> QED BY <1>1, InteractiveInvariant, PTL

(* A record that claims a diagnosis has it on disk (DiagnosisIsSaved).     *)
THEOREM DiagnosesAreSaved == Spec => []DiagnosisIsSaved
<1>1. InteractiveInv => DiagnosisIsSaved
  BY DEF InteractiveInv, RequestInv, DiagnosisIsSaved
<1> QED BY <1>1, InteractiveInvariant, PTL

(* The abstract state, one case per phase of a request.                    *)
LEMMA CallStateOfForms ==
    /\ CallState(FALSE, 0, "absent") = "idle"
    /\ \A o : CallState(TRUE, 0, o) = "latched"
    /\ \A b, o : CallState(b, 1, o) =
                    IF o \in {"absent", "attempting"} THEN "sent" ELSE "settled"
BY DEF CallState

(* The demo implements the one-shot call (ImplementsOneShotCall).  Three   *)
(* steps show: the directory, the request, the final record.               *)
THEOREM DemoImplementsOneShotCall == Spec => ImplementsOneShotCall
<1>1. Init => Audited!Init
  <2> SUFFICES ASSUME Init PROVE CallStates = [i \in Ids |-> "idle"]
    BY DEF Audited!Init
  <2>1. \A i \in Ids : (i \in dirs) = FALSE /\ invoked[i] = 0
    BY DEF Init
  <2>2. \A o : CallState(FALSE, 0, o) = "idle"
    BY DEF CallState
  <2> QED BY <2>1, <2>2 DEF CallStates
<1>2. TypeOK /\ InteractiveInv /\ [Next]_vars => [Audited!Next]_CallStates
  <2> SUFFICES ASSUME TypeOK, InteractiveInv, [Next]_vars
               PROVE  Audited!Next \/ UNCHANGED CallStates
    OBVIOUS
  <2>1. CASE UNCHANGED vars
    BY <2>1 DEF vars, disk, CallStates
  <2>2. ASSUME NEW s \in Servers, Restart(s) PROVE UNCHANGED CallStates
    BY <2>2 DEF Restart, disk, CallStates
  <2>3. ASSUME NEW x \in Exchanges, Receive(x) \/ Step(x)
        PROVE  Audited!Next \/ UNCHANGED CallStates
    <3> DEFINE i == id[x]
               Quiet == UNCHANGED <<dirs, record, invoked>>
    <3>0. /\ i \in Ids /\ result[x] \in Results
          /\ OwnerInv(x) /\ RequestInv(i)
      BY DEF TypeOK, InteractiveInv
    <3>1. CASE Quiet
      BY <3>1 DEF CallStates
    <3>2. CASE ~Quiet
      <4>1. \/ /\ i \notin dirs /\ dirs' = dirs \cup {i}
               /\ UNCHANGED <<record, invoked>>
            \/ /\ pc[x] = "publish" /\ record' = [record EXCEPT ![i] = Sidecar(Attempting)]
               /\ UNCHANGED <<dirs, invoked>>
            \/ /\ pc[x] = "invoke" /\ invoked' = [invoked EXCEPT ![i] = @ + 1]
               /\ UNCHANGED <<dirs, record>>
            \/ /\ pc[x] = "record" /\ record' = [record EXCEPT ![i] = Sidecar(result[x])]
               /\ UNCHANGED <<dirs, invoked>>
        BY <2>3, <3>2 DEF Step, Receive, TestAndSetFlag, ClearFlag, Return, MakeDirectory,
           WritePrompt, PublishRecord, Invoke, WriteRaw, WriteDiagnosis, FinalizeRecord,
           AbandonBeforeCall, CallFails, CallSucceeds, Goto, disk
      <4>2. CASE i \notin dirs /\ dirs' = dirs \cup {i} /\ UNCHANGED <<record, invoked>>
        <5>1. (i \in dirs) = FALSE /\ (i \in dirs') = TRUE /\ invoked[i] = 0
          BY <3>0, <4>2 DEF RequestInv
        <5>2. CallStates[i] = "idle"
          BY <3>0, <5>1, CallStateOfForms DEF CallStates, CallState
        <5>3. \A j \in Ids : CallState(j \in dirs', invoked'[j], record'[j].outcome)
                  = IF j = i THEN "latched"
                    ELSE CallState(j \in dirs, invoked[j], record[j].outcome)
          <6>1. ASSUME NEW j \in Ids, j # i PROVE (j \in dirs') = (j \in dirs)
            BY <4>2, <6>1
          <6> QED BY <4>2, <5>1, <6>1, CallStateOfForms
        <5>4. CallStates' = [CallStates EXCEPT ![i] = "latched"]
          BY <5>3 DEF CallStates
        <5> QED BY <3>0, <5>2, <5>4 DEF Audited!Latch, Audited!Next
      <4>3. CASE pc[x] = "publish" /\ record' = [record EXCEPT ![i] = Sidecar(Attempting)]
                 /\ UNCHANGED <<dirs, invoked>>
        <5>1. invoked[i] = 0 /\ (i \in dirs) = TRUE
          BY <3>0, <4>3 DEF OwnerInv, LatchedSteps
        <5>2. \A j \in Ids \ {i} : record'[j] = record[j]
          BY <3>0, <4>3 DEF TypeOK
        <5>3. \A j \in Ids : CallState(j \in dirs', invoked'[j], record'[j].outcome)
                  = CallState(j \in dirs, invoked[j], record[j].outcome)
          BY <4>3, <5>1, <5>2, CallStateOfForms
        <5> QED BY <5>3 DEF CallStates
      <4>4. CASE pc[x] = "invoke" /\ invoked' = [invoked EXCEPT ![i] = @ + 1]
                 /\ UNCHANGED <<dirs, record>>
        <5>1. invoked[i] = 0 /\ (i \in dirs) = TRUE /\ record[i].outcome = "attempting"
          BY <3>0, <4>4, FormsOfRecords DEF OwnerInv, LatchedSteps
        <5>2. invoked'[i] = 1 /\ \A j \in Ids \ {i} : invoked'[j] = invoked[j]
          BY <3>0, <4>4, <5>1 DEF TypeOK
        <5>3. CallStates[i] = "latched"
          BY <3>0, <5>1, CallStateOfForms DEF CallStates
        <5>4. CallState(i \in dirs, 1, record[i].outcome) = "sent"
          BY <5>1, CallStateOfForms
        <5>5. \A j \in Ids : CallState(j \in dirs', invoked'[j], record'[j].outcome)
                  = IF j = i THEN "sent"
                    ELSE CallState(j \in dirs, invoked[j], record[j].outcome)
          BY <4>4, <5>2, <5>4
        <5>6. CallStates' = [CallStates EXCEPT ![i] = "sent"]
          BY <5>5 DEF CallStates
        <5> QED BY <3>0, <5>3, <5>6 DEF Audited!Send, Audited!Next
      <4>5. CASE pc[x] = "record" /\ record' = [record EXCEPT ![i] = Sidecar(result[x])]
                 /\ UNCHANGED <<dirs, invoked>>
        <5>1. invoked[i] = 1 /\ record[i].outcome = "attempting"
          BY <3>0, <4>5, FormsOfRecords DEF OwnerInv, LatchedSteps
        <5>2. record'[i].outcome \notin {"absent", "attempting"}
          <6>1. record'[i] = Sidecar(result[x])
            BY <3>0, <4>5 DEF TypeOK
          <6>2. result[x].outcome \notin {"absent", "attempting"}
            BY <3>0, <4>5 DEF OwnerInv, Results, Outcomes
          <6> QED BY <6>1, <6>2, FormsOfRecords
        <5>3. CallStates[i] = "sent"
          BY <3>0, <5>1, CallStateOfForms DEF CallStates
        <5>4. CallState(i \in dirs, 1, record'[i].outcome) = "settled"
          BY <5>2, CallStateOfForms
        <5>5. \A j \in Ids : CallState(j \in dirs', invoked'[j], record'[j].outcome)
                  = IF j = i THEN "settled"
                    ELSE CallState(j \in dirs, invoked[j], record[j].outcome)
          <6>1. \A j \in Ids \ {i} : record'[j] = record[j]
            BY <3>0, <4>5 DEF TypeOK
          <6> QED BY <4>5, <5>1, <5>4, <6>1
        <5>6. CallStates' = [CallStates EXCEPT ![i] = "settled"]
          BY <5>5 DEF CallStates
        <5> QED BY <3>0, <5>3, <5>6 DEF Audited!Settle, Audited!Next
      <4> QED BY <4>1, <4>2, <4>3, <4>4, <4>5
    <3> QED BY <3>1, <3>2
  <2> QED BY <2>1, <2>2, <2>3 DEF Next
<1> QED BY <1>1, <1>2, InteractiveInvariant, PTL DEF Spec, ImplementsOneShotCall, Audited!Spec
=============================================================================
