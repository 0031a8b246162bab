------------------------------ MODULE Campaign ------------------------------
(***************************************************************************)
(* The paid commands of hy3_evaluate on one campaign directory:            *)
(* call and call-v2 (development) and formal-call.  Each process makes at  *)
(* most one request; they share the token ledger of TokenBudget, one       *)
(* directory per attempt and the halt.json files.  A process may be killed *)
(* at any step and a write may fail; MaxFaults bounds how often.           *)
(*                                                                         *)
(* Abstractions.  Texts, fingerprints and the approval gates before the    *)
(* first file are left out: they change nothing.  A request costs what the *)
(* provider says it costs, one of Costs; what it reports is in Usages.     *)
(***************************************************************************)
EXTENDS TokenBudget

CONSTANTS
    Processes,      \* invocations of hy3_evaluate
    Kind,           \* which command makes each attempt
    UpperOf,        \* reserved_upper of each attempt
    Costs,          \* what a request may be billed
    PilotLimit,     \* development calls before call refuses: 3
    ValidationLimit,\* and before call-v2 refuses: 6
    PilotSpent,     \* tokens call-v2 expects the pilot to have used: 36420
    MaxFaults       \* bound: failed writes and killed processes

Kinds == {"call", "call-v2", "formal-call"}

ASSUME CampaignAssumption ==
    /\ Kind \in [Attempts -> Kinds]
    /\ UpperOf \in [Attempts -> Nat \ {0}]
    /\ Costs \subseteq Nat
    /\ PilotLimit \in Nat /\ ValidationLimit \in Nat
    /\ PilotSpent \in Nat /\ MaxFaults \in Nat

VARIABLES
    dirs,           \* attempts whose directory was created
    files,          \* what is saved in them: request, raw response, record
    halts,          \* which campaigns have a halt.json
    pc,             \* the next step of each process
    attempt,        \* the attempt it works on
    result,         \* what client.invoke() returned to it
    sends,          \* history: how often each attempt was handed to the client
    cost,           \* history: what that was billed
    faults          \* history: failed writes and killed processes so far

evidence == <<dirs, files, halts>>
bill == <<sends, cost>>
vars == <<ledger, evidence, pc, attempt, result, bill, faults>>

Formal(a) == Kind[a] = "formal-call"
Campaigns == {"development", "formal"}

(* Mutant: every command has a halt.json of its own.                       *)
HaltOfCommand(a) == Kind[a]

HaltOf(a) == IF Formal(a) THEN "formal" ELSE "development"
Artifacts == {"request", "raw", "record"}

NoUsage == [prompt |-> Missing, completion |-> Missing, total |-> Missing]

(* Reports of a request that cost c: none, exact, and a total that the two *)
(* parts do not add up to.                                                 *)
Usages(c) ==
    {NoUsage,
     [prompt |-> c, completion |-> 0, total |-> c],
     [prompt |-> c, completion |-> 1, total |-> c]}

NoResult == [ok |-> FALSE, usage |-> NoUsage]

(* The steps between a Lock and its destructor, by who took it.            *)
ReserveSteps == {"reserve_check", "reserve_open", "reserve_write", "reserve_unlock"}
ReconcileSteps == {"done_open", "done_write", "done_unlock"}
LockedSteps == ReserveSteps \cup ReconcileSteps \cup {"unwind"}
BeforeSend == {"prepare", "reserve_lock"} \cup ReserveSteps \cup {"invoke"}
AfterSend == {"await", "reconcile_lock", "account", "save_raw", "save_record", "finish"}
             \cup ReconcileSteps
OwnSteps == BeforeSend \cup AfterSend \cup {"unwind", "mark"}
Ended == {"refused", "failed", "done", "killed"}
Steps == {"unborn", "check_halt", "check_ledger", "make_directory"} \cup OwnSteps \cup Ended

(* p made the directory of a and still works on it.                        *)
Owns(p, a) == pc[p] \in OwnSteps /\ attempt[p] = a
Locked(p) == pc[p] \in LockedSteps
Alive(p) == pc[p] \notin Ended \cup {"unborn"}

TypeOK ==
    /\ LedgerTypeOK
    /\ dirs \subseteq Attempts
    /\ files \in [Attempts -> SUBSET Artifacts]
    /\ halts \subseteq Campaigns
    /\ pc \in [Processes -> Steps]
    /\ attempt \in [Processes -> Attempts]
    /\ result \in [Processes ->
           [ok : BOOLEAN, usage : [prompt : Nat \cup {Missing},
            completion : Nat \cup {Missing}, total : Nat \cup {Missing}]]]
    /\ sends \in [Attempts -> Nat]
    /\ cost \in [Attempts -> Nat]
    /\ faults \in 0..MaxFaults

Init ==
    /\ LedgerInit
    /\ dirs = {}
    /\ files = [a \in Attempts |-> {}]
    /\ halts = {}
    /\ pc = [p \in Processes |-> "unborn"]
    /\ attempt \in [Processes -> Attempts]
    /\ result = [p \in Processes |-> NoResult]
    /\ sends = [a \in Attempts |-> 0]
    /\ cost = [a \in Attempts |-> 0]
    /\ faults = 0

----------------------------------------------------------------------------
(* Steps every command shares                                              *)

Goto(p, from, to) == pc[p] = from /\ pc' = [pc EXCEPT ![p] = to]

Pass(p, from, to) ==
    /\ Goto(p, from, to)
    /\ UNCHANGED <<ledger, evidence, attempt, result, bill, faults>>

Fault == faults < MaxFaults /\ faults' = faults + 1

(* Mutant: only the final check writes formal-call's halt.json.            *)
OnErrorQuiet(p) == "failed"

(* An exception after the directory was made: formal-call first writes its *)
(* halt.json.  One raised under the lock releases it on the way (Unwind).  *)
OnError(p) == IF Formal(attempt[p]) THEN "mark" ELSE "failed"

Throw(p, from) == Pass(p, from, OnError(p))

WriteFails(p, from, to) ==
    /\ Goto(p, from, to)
    /\ Fault
    /\ UNCHANGED <<ledger, evidence, attempt, result, bill>>

Save(p, name) ==
    /\ files' = [files EXCEPT ![attempt[p]] = @ \cup {name}]
    /\ UNCHANGED <<ledger, dirs, halts, attempt, result, bill, faults>>

(* halt.json is written, unless that fails; one that is torn exists, too.  *)
PutHalt(p, from, to, onError) ==
    \/ /\ Goto(p, from, to)
       /\ halts' = halts \cup {HaltOf(attempt[p])}
       /\ UNCHANGED <<ledger, dirs, files, attempt, result, bill, faults>>
    \/ /\ Goto(p, from, onError)
       /\ Fault
       /\ halts' \in {halts, halts \cup {HaltOf(attempt[p])}}
       /\ UNCHANGED <<ledger, dirs, files, attempt, result, bill>>

(* The process is killed; its memory is gone, the directory stays.         *)
Kill(p) ==
    /\ Alive(p)
    /\ pc' = [pc EXCEPT ![p] = "killed"]
    /\ result' = [result EXCEPT ![p] = NoResult]
    /\ Fault
    /\ UNCHANGED <<ledger, evidence, attempt, bill>>

----------------------------------------------------------------------------
(* Before the request: checks, directory, reservation                      *)

Start(p) ==
    Pass(p, "unborn", IF Formal(attempt[p]) THEN "check_ledger" ELSE "check_halt")

(* halt.json stops development commands; formal-call does not look at its  *)
(* own.                                                                    *)
CheckHalt(p) ==
    Pass(p, "check_halt",
         IF "development" \in halts THEN "refused" ELSE "check_ledger")

(* The unlocked look at the ledger, for a development command ...          *)
DevelopmentGate(a) ==
    /\ Kind[a] = "call" => Calls < PilotLimit
    /\ Kind[a] = "call-v2" =>
          Calls >= PilotLimit /\ Spent >= PilotSpent /\ Calls < ValidationLimit

(* ... and for formal-call: whatever of the plan was not tried yet must    *)
(* fit as a whole.                                                         *)
Pending == {a \in Attempts : Formal(a) /\ ~Known(a)}

FormalGate(a) == ~Known(a) /\ BatchFits(Pending, UpperOf)

CheckLedger(p) ==
    LET a == attempt[p]
        passes == Readable /\ IF Formal(a) THEN FormalGate(a) ELSE DevelopmentGate(a)
    IN  Pass(p, "check_ledger", IF passes THEN "make_directory" ELSE "refused")

(* Mutant: a directory that cannot be made is not an error.                *)
MakeDirectoryUnchecked(p) ==
    \/ /\ Goto(p, "make_directory", "prepare")
       /\ dirs' = dirs \cup {attempt[p]}
       /\ UNCHANGED <<ledger, files, halts, attempt, result, bill, faults>>
    \/ WriteFails(p, "make_directory", "prepare")

(* create_directory succeeds for one caller, once.                         *)
MakeDirectory(p) ==
    \/ /\ attempt[p] \notin dirs
       /\ Goto(p, "make_directory", "prepare")
       /\ dirs' = dirs \cup {attempt[p]}
       /\ UNCHANGED <<ledger, files, halts, attempt, result, bill, faults>>
    \/ attempt[p] \in dirs /\ Pass(p, "make_directory", "refused")
    \/ WriteFails(p, "make_directory", "refused")

SaveRequest(p) ==
    \/ Goto(p, "prepare", "reserve_lock") /\ Save(p, "request")
    \/ WriteFails(p, "prepare", OnError(p))

(* Mutant: reserve() goes on when the lock directory exists.               *)
ReserveWithoutLock(p) ==
    /\ Goto(p, "reserve_lock", "reserve_check")
    /\ lock' = TRUE
    /\ UNCHANGED <<reserved, done, evidence, attempt, result, bill, faults>>

ReserveLock(p) ==
    \/ /\ Goto(p, "reserve_lock", "reserve_check")
       /\ TakeLock
       /\ UNCHANGED <<evidence, attempt, result, bill, faults>>
    \/ lock /\ Throw(p, "reserve_lock")

(* Mutants: an attempt without usage is taken to have cost nothing; the    *)
(* upper bound is not compared with what remains.                          *)
ReserveWhileUnresolved(p) ==
    LET a == attempt[p]
        fits == Calls < CallLimit /\ UpperOf[a] + Spent <= TokenLimit /\ ~Known(a)
    IN  Pass(p, "reserve_check", IF Readable /\ fits THEN "reserve_open" ELSE "unwind")

ReserveBeyondLimit(p) ==
    LET a == attempt[p]
        fits == ~Halted /\ Calls < CallLimit /\ ~Known(a)
    IN  Pass(p, "reserve_check", IF Readable /\ fits THEN "reserve_open" ELSE "unwind")

ReserveCheck(p) ==
    LET a == attempt[p]
        fits == Readable /\ MayReserve(a, UpperOf[a])
    IN  Pass(p, "reserve_check", IF fits THEN "reserve_open" ELSE "unwind")

ReserveOpen(p) ==
    \/ /\ Goto(p, "reserve_open", "reserve_write")
       /\ PutReserve(attempt[p], TornReserve)
       /\ UNCHANGED <<evidence, attempt, result, bill, faults>>
    \/ WriteFails(p, "reserve_open", "unwind")

(* Mutant: the stream is not checked after the write.                      *)
ReserveWriteUnchecked(p) ==
    \/ /\ Goto(p, "reserve_write", "reserve_unlock")
       /\ PutReserve(attempt[p], Reserve(UpperOf[attempt[p]]))
       /\ UNCHANGED <<evidence, attempt, result, bill, faults>>
    \/ WriteFails(p, "reserve_write", "reserve_unlock")

ReserveWrite(p) ==
    \/ /\ Goto(p, "reserve_write", "reserve_unlock")
       /\ PutReserve(attempt[p], Reserve(UpperOf[attempt[p]]))
       /\ UNCHANGED <<evidence, attempt, result, bill, faults>>
    \/ WriteFails(p, "reserve_write", "unwind")

Unlock(p, from, to) ==
    /\ Goto(p, from, to)
    /\ ReleaseLock
    /\ UNCHANGED <<evidence, attempt, result, bill, faults>>

ReserveUnlock(p) == Unlock(p, "reserve_unlock", "invoke")

Unwind(p) == Unlock(p, "unwind", OnError(p))

----------------------------------------------------------------------------
(* The request                                                             *)

Invoke(p) ==
    LET a == attempt[p]
    IN  /\ Goto(p, "invoke", "await")
        /\ sends' = [sends EXCEPT ![a] = @ + 1]
        /\ \E c \in Costs : cost' = [cost EXCEPT ![a] = @ + c]
        /\ UNCHANGED <<ledger, evidence, attempt, result, faults>>

(* Mutant: formal-call reconciles before it saves the response.            *)
ReturnsToLedger(p, ok, usage) ==
    /\ Goto(p, "await", "reconcile_lock")
    /\ result' = [result EXCEPT ![p] = [ok |-> ok, usage |-> usage]]
    /\ UNCHANGED <<ledger, evidence, attempt, bill, faults>>

(* formal-call saves the response first, a development command reconciles. *)
Returns(p, ok, usage) ==
    /\ Goto(p, "await", IF Formal(attempt[p]) THEN "save_raw" ELSE "reconcile_lock")
    /\ result' = [result EXCEPT ![p] = [ok |-> ok, usage |-> usage]]
    /\ UNCHANGED <<ledger, evidence, attempt, bill, faults>>

----------------------------------------------------------------------------
(* After the request: reconciliation, evidence, halt.json                  *)

ReconcileLock(p) ==
    \/ /\ Goto(p, "reconcile_lock", "done_open")
       /\ TakeLock
       /\ UNCHANGED <<evidence, attempt, result, bill, faults>>
    \/ lock /\ Throw(p, "reconcile_lock")

DoneOpen(p) ==
    \/ /\ Goto(p, "done_open", "done_write")
       /\ PutDone(attempt[p], TornDone)
       /\ UNCHANGED <<evidence, attempt, result, bill, faults>>
    \/ WriteFails(p, "done_open", "unwind")

DoneWrite(p) ==
    \/ /\ Goto(p, "done_write", "done_unlock")
       /\ PutDone(attempt[p], DoneOf(result[p].usage, UpperOf[attempt[p]]))
       /\ UNCHANGED <<evidence, attempt, result, bill, faults>>
    \/ WriteFails(p, "done_write", "unwind")

DoneUnlock(p) ==
    Unlock(p, "done_unlock", IF Formal(attempt[p]) THEN "save_record" ELSE "account")

(* A development command: a failure, a halted ledger or a missing total    *)
(* creates halt.json, which fails if there is one; so does reading a torn  *)
(* ledger.  The response is not saved yet.                                 *)
Alarming(p) == ~result[p].ok \/ Halted \/ result[p].usage.total = Missing

Account(p) ==
    \/ /\ result[p].ok /\ ~Readable
       /\ Throw(p, "account")
    \/ /\ ~result[p].ok \/ Readable
       /\ \/ ~Alarming(p) /\ Pass(p, "account", "save_raw")
          \/ Alarming(p) /\ "development" \in halts /\ Throw(p, "account")
          \/ /\ Alarming(p) /\ "development" \notin halts
             /\ PutHalt(p, "account", "save_raw", OnError(p))

SaveRaw(p) ==
    \/ /\ Goto(p, "save_raw",
               IF Formal(attempt[p]) THEN "reconcile_lock" ELSE "save_record")
       /\ Save(p, "raw")
    \/ WriteFails(p, "save_raw", OnError(p))

SaveRecord(p) ==
    \/ /\ Goto(p, "save_record", IF Formal(attempt[p]) THEN "finish" ELSE "done")
       /\ Save(p, "record")
    \/ WriteFails(p, "save_record", OnError(p))

(* formal-call ends; a failure or a halted ledger is marked, a ledger it   *)
(* cannot read ends it with an exception.                                  *)
Finish(p) ==
    \/ ~result[p].ok /\ Pass(p, "finish", "mark")
    \/ result[p].ok /\ ~Readable /\ Pass(p, "finish", "failed")
    \/ result[p].ok /\ Readable
       /\ Pass(p, "finish", IF Halted THEN "mark" ELSE "done")

(* The lambda halt: halt.json, unless there is one.                        *)
Mark(p) == PutHalt(p, "mark", "failed", "failed")

----------------------------------------------------------------------------
Request(p) ==
    \/ Start(p) \/ CheckHalt(p) \/ CheckLedger(p) \/ MakeDirectory(p) \/ SaveRequest(p)
    \/ ReserveLock(p) \/ ReserveCheck(p) \/ ReserveOpen(p) \/ ReserveWrite(p)
    \/ ReserveUnlock(p) \/ Unwind(p)

Return(p) ==
    \E ok \in BOOLEAN, usage \in Usages(cost[attempt[p]]) : Returns(p, ok, usage)

Settle(p) ==
    \/ ReconcileLock(p) \/ DoneOpen(p) \/ DoneWrite(p) \/ DoneUnlock(p)
    \/ Account(p) \/ SaveRaw(p) \/ SaveRecord(p) \/ Finish(p) \/ Mark(p)

Step(p) == Request(p) \/ Invoke(p) \/ Return(p) \/ Settle(p)

Next == \E p \in Processes : Step(p) \/ Kill(p)

Spec == Init /\ [][Next]_vars

----------------------------------------------------------------------------
(* Properties                                                              *)

(* The lock directory keeps two processes from being between reserve()'s   *)
(* or reconcile()'s checks and their write at once; while one is there,    *)
(* the directory exists (evaluation.cpp, struct Lock).                     *)
LockIsExclusive ==
    \A p, q \in Processes :
        Locked(p) => lock /\ (Locked(q) => p = q)

(* No attempt is handed to the client twice, whoever retries it, whatever  *)
(* was lost in between: create_directory is the latch, and it is durable.  *)
AtMostOneSend == \A a \in Attempts : sends[a] <= 1

(* "Durable before invoking": a request that left has a complete .reserve  *)
(* file with its upper bound, so that an interrupted attempt is counted as *)
(* unknown and never as zero.                                              *)
SendIsReserved ==
    \A a \in Attempts : sends[a] > 0 => reserved[a] = Reserve(UpperOf[a])

(* An attempt whose cost is not known stops the campaign: no two requests  *)
(* that were sent are ever without an account, in spite of killed          *)
(* processes, failed writes and the unlocked looks at the ledger.          *)
OneUnresolved ==
    \A a, b \in Unresolved : sends[a] > 0 /\ sends[b] > 0 => a = b

(* As long as the provider bills no request more than was reserved for it, *)
(* the campaign stays within its token limit; the calls stay within theirs *)
(* in any case.                                                            *)
WithinLimits ==
    /\ Calls <= CallLimit
    /\ (\A a \in Attempts : cost[a] <= UpperOf[a])
       => MapThenSumSet(LAMBDA a : cost[a], Attempts) <= TokenLimit

(* formal-call never accounts for a response it has not saved: whatever    *)
(* the ledger settles can be audited against raw-response.txt.             *)
SettledIsEvidenced ==
    \A a \in Attempts : Formal(a) /\ done[a].state # "absent" => "raw" \in files[a]

(* Unless a write fails, a formal-call that ends with an error after it    *)
(* made its directory leaves a halt.json or a complete record; lock        *)
(* contention, a refused reservation and an unknown bill included.         *)
FormalFailureIsMarked ==
    \A p \in Processes :
        faults = 0 /\ Formal(attempt[p]) /\ pc[p] = "failed" =>
            "formal" \in halts \/ "record" \in files[attempt[p]]

(* docs/evaluation-v1.md:113, "开发入口另限3次" (the development entry has *)
(* a limit of 3 of its own): the number of development requests.  The code *)
(* compares the unlocked ledger.                                           *)
PilotIsLimited ==
    Cardinality({a \in Attempts : Kind[a] = "call" /\ sends[a] > 0}) <= PilotLimit

----------------------------------------------------------------------------
(* The inductive part                                                      *)

(* Where the only owner of an attempt can be, given its files and sends.   *)
OwnerInv(p) ==
    LET a == attempt[p]
    IN  /\ pc[p] \in OwnSteps => a \in dirs
        /\ pc[p] \in BeforeSend => sends[a] = 0
        /\ pc[p] \in AfterSend => sends[a] = 1
        /\ pc[p] \in {"reserve_unlock", "invoke"} \cup AfterSend =>
              reserved[a] = Reserve(UpperOf[a])
        /\ \/ pc[p] \in BeforeSend \cup {"await", "reconcile_lock", "done_open"}
           \/ pc[p] = "save_raw" /\ Formal(a)
           => done[a] = NoDone
        /\ pc[p] = "done_write" => done[a] = TornDone
        /\ Formal(a) /\ pc[p] \in {"reconcile_lock"} \cup ReconcileSteps =>
              "raw" \in files[a]
        /\ pc[p] = "account" => ~Formal(a)

(* What the files and the sends of an attempt say about each other.        *)
AttemptInv(a) ==
    /\ sends[a] <= 1
    /\ sends[a] > 0 => a \in dirs /\ reserved[a] = Reserve(UpperOf[a])
    /\ sends[a] = 0 => done[a] = NoDone
    /\ Formal(a) /\ done[a].state # "absent" => "raw" \in files[a]

(* The latch: an attempt is worked on by the process that made its         *)
(* directory and by no other.                                              *)
OwnersAreUnique ==
    \A p, q \in Processes :
        pc[p] \in OwnSteps /\ pc[q] \in OwnSteps /\ attempt[p] = attempt[q] => p = q

(* Together with TypeOK inductive; it implies LockIsExclusive,             *)
(* AtMostOneSend, SendIsReserved and SettledIsEvidenced.                   *)
CampaignInv ==
    /\ LockIsExclusive
    /\ OwnersAreUnique
    /\ \A p \in Processes : OwnerInv(p)
    /\ \A a \in Attempts : AttemptInv(a)

(* What the ledger holds against the limit for an attempt: the account,    *)
(* and until there is one the whole reservation.                           *)
Charge(a) == IF Accounted(a) THEN done[a].actual ELSE reserved[a].upper
Charged == MapThenSumSet(LAMBDA a : Charge(a), Attempts)
BilledAsReserved == \A a \in Attempts : cost[a] <= UpperOf[a]

(* An account is the true bill; one that is not there yet will be.         *)
BillInv(a) ==
    /\ reserved[a] \in {NoReserve, TornReserve, Reserve(UpperOf[a])}
    /\ sends[a] = 0 => cost[a] = 0
    /\ Accounted(a) => done[a].actual = cost[a]

(* What a process has seen of the ledger and of its bill still holds: the  *)
(* first under the lock, the second because nobody else sends its attempt. *)
ViewInv(p) ==
    LET a == attempt[p]
    IN  /\ pc[p] \in AfterSend \ {"await"} => result[p].usage \in Usages(cost[a])
        /\ pc[p] = "reserve_open" => Unresolved = {} /\ Calls < CallLimit /\ ~Known(a)
        /\ pc[p] = "reserve_write" => reserved[a] = TornReserve
        /\ pc[p] \in {"reserve_open", "reserve_write"} => Charged + UpperOf[a] <= TokenLimit

(* Together with TypeOK and CampaignInv inductive; it implies              *)
(* OneUnresolved and WithinLimits.                                         *)
BudgetInv ==
    /\ \A a \in Attempts : BillInv(a)
    /\ \A p \in Processes : ViewInv(p)
    /\ \A a, b \in Unresolved : a = b
    /\ Calls <= CallLimit
    /\ BilledAsReserved => Charged <= TokenLimit

----------------------------------------------------------------------------
(* Refinement: an attempt is a billable key of OneShotCall; the directory  *)
(* is the latch and the complete .done file the record.                    *)

CallState(isMade, count, record) ==
    IF count > 0 THEN IF record.state = "saved" THEN "settled" ELSE "sent"
    ELSE IF isMade THEN "latched" ELSE "idle"

CallStates == [a \in Attempts |-> CallState(a \in dirs, sends[a], done[a])]

Paid == INSTANCE OneShotCall WITH Keys <- Attempts, call <- CallStates

(* The campaign implements the one-shot call: directory, then one request, *)
(* then one account that never changes again.                              *)
ImplementsOneShotCall == Paid!Spec
=============================================================================
