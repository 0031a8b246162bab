--------------------------- MODULE CampaignProofs ---------------------------
(***************************************************************************)
(* Proofs about Campaign, for every set of processes and attempts, every   *)
(* limit, reservation and cost, and every bound on faults.                 *)
(***************************************************************************)
EXTENDS Campaign, FiniteSums, TLAPS

(* Types: the one leaf that is not immediate is the account that           *)
(* reconcile() writes, whose total is a number because it adds up.         *)
LEMMA DoneIsTyped ==
    ASSUME NEW upper \in Nat,
           NEW usage \in [prompt : Nat \cup {Missing}, completion : Nat \cup {Missing},
                          total : Nat \cup {Missing}]
    PROVE  DoneOf(usage, upper) \in
              [state : FileStates, actual : Nat \cup {Missing}, violation : BOOLEAN]
BY DEF DoneOf, Done, FileStates, Consistent, Numbers, Exceeds

(* A provider's reports have numbers or nothing in them.                   *)
LEMMA UsagesAreTyped ==
    ASSUME NEW c \in Nat
    PROVE  Usages(c) \subseteq [prompt : Nat \cup {Missing}, completion : Nat \cup {Missing},
                                total : Nat \cup {Missing}]
BY DEF Usages, NoUsage

(* Every step of every process keeps the types.                             *)
LEMMA StepIsTyped ==
    ASSUME TypeOK, NEW p \in Processes, Step(p) \/ Kill(p)
    PROVE  TypeOK'
<1> USE CampaignAssumption, LimitsAssumption
<1> USE DEF Steps, OwnSteps, BeforeSend, AfterSend, ReserveSteps, ReconcileSteps, LockedSteps,
           Ended, Pass, Goto, WriteFails, Throw, Fault, Save, PutHalt, Unlock, Returns, OnError,
           TakeLock, ReleaseLock, PutReserve, PutDone, ledger, evidence, bill
<1> USE DEF TypeOK, LedgerTypeOK, FileStates, NoDone, TornDone, NoReserve, TornReserve,
           Reserve, NoResult, NoUsage, Campaigns, HaltOf
<1>0. attempt[p] \in Attempts
  BY DEF TypeOK
<1> HIDE DEF Fault
<1>a. Fault \/ UNCHANGED faults => faults' \in 0..MaxFaults
  BY DEF Fault
<1>b. ASSUME NEW name \in Artifacts
      PROVE  [files EXCEPT ![attempt[p]] = @ \cup {name}] \in [Attempts -> SUBSET Artifacts]
  <2>1. files[attempt[p]] \cup {name} \in SUBSET Artifacts
    BY <1>0
  <2> QED BY <2>1
<1>1. CASE Start(p)
  BY <1>0, <1>a, <1>1 DEF Start
<1>2. CASE CheckHalt(p)
  BY <1>0, <1>a, <1>2 DEF CheckHalt
<1>3. CASE CheckLedger(p)
  BY <1>0, <1>a, <1>3 DEF CheckLedger
<1>4. CASE MakeDirectory(p)
  BY <1>0, <1>a, <1>4 DEF MakeDirectory
<1>5. CASE SaveRequest(p)
  BY <1>0, <1>a, <1>b, <1>5 DEF SaveRequest, Artifacts
<1>6. CASE ReserveLock(p)
  BY <1>0, <1>a, <1>6 DEF ReserveLock
<1>7. CASE ReserveCheck(p)
  BY <1>0, <1>a, <1>7 DEF ReserveCheck
<1>8. CASE ReserveOpen(p)
  <2>2. TornReserve \in
          [state : FileStates, upper : Nat]
    BY <1>0
  <2>3. [reserved EXCEPT ![attempt[p]] = TornReserve] \in
          [Attempts -> [state : FileStates, upper : Nat]]
    BY <2>2
  <2>4. LedgerTypeOK'
    BY <1>8, <2>3 DEF ReserveOpen
  <2> QED BY <1>0, <1>a, <1>8, <2>4 DEF ReserveOpen
<1>9. CASE ReserveWrite(p)
  <2>2. Reserve(UpperOf[attempt[p]]) \in
          [state : FileStates, upper : Nat]
    BY <1>0
  <2>3. [reserved EXCEPT ![attempt[p]] = Reserve(UpperOf[attempt[p]])] \in
          [Attempts -> [state : FileStates, upper : Nat]]
    BY <2>2
  <2>4. LedgerTypeOK'
    BY <1>9, <2>3 DEF ReserveWrite
  <2> QED BY <1>0, <1>a, <1>9, <2>4 DEF ReserveWrite
<1>10. CASE ReserveUnlock(p)
  BY <1>0, <1>a, <1>10 DEF ReserveUnlock
<1>11. CASE Unwind(p)
  BY <1>0, <1>a, <1>11 DEF Unwind
<1>12. CASE Invoke(p)
  <2>1. PICK c \in Costs : cost' = [cost EXCEPT ![attempt[p]] = @ + c]
    BY <1>12 DEF Invoke
  <2> QED BY <1>0, <1>12, <2>1 DEF Invoke
<1>13. CASE Return(p)
  <2>1. PICK ok \in BOOLEAN, usage \in Usages(cost[attempt[p]]) : Returns(p, ok, usage)
    BY <1>13 DEF Return
  <2>2. usage \in [prompt : Nat \cup {Missing}, completion : Nat \cup {Missing},
                   total : Nat \cup {Missing}]
    BY <1>0, UsagesAreTyped
  <2> QED BY <1>0, <2>1, <2>2
<1>14. CASE ReconcileLock(p)
  BY <1>0, <1>a, <1>14 DEF ReconcileLock
<1>15. CASE DoneOpen(p)
  <2>2. TornDone \in
          [state : FileStates, actual : Nat \cup {Missing}, violation : BOOLEAN]
    BY <1>0
  <2>3. [done EXCEPT ![attempt[p]] = TornDone] \in
          [Attempts -> [state : FileStates, actual : Nat \cup {Missing}, violation : BOOLEAN]]
    BY <2>2
  <2>4. LedgerTypeOK'
    BY ZenonT(30), <1>15, <2>3 DEF DoneOpen
  <2> QED BY <1>0, <1>a, <1>15, <2>4 DEF DoneOpen
<1>16. CASE DoneWrite(p)
  <2>2. DoneOf(result[p].usage, UpperOf[attempt[p]]) \in
          [state : FileStates, actual : Nat \cup {Missing}, violation : BOOLEAN]
    BY <1>0, DoneIsTyped
  <2>3. [done EXCEPT ![attempt[p]] = DoneOf(result[p].usage, UpperOf[attempt[p]])] \in
          [Attempts -> [state : FileStates, actual : Nat \cup {Missing}, violation : BOOLEAN]]
    BY <2>2
  <2>4. LedgerTypeOK'
    BY <1>16, <2>3 DEF DoneWrite
  <2> QED BY <1>0, <1>a, <1>16, <2>4 DEF DoneWrite
<1>17. CASE DoneUnlock(p)
  BY <1>0, <1>a, <1>17 DEF DoneUnlock
<1>18. CASE Account(p)
  BY ZenonT(30), <1>0, <1>a, <1>18 DEF Account
<1>19. CASE SaveRaw(p)
  BY ZenonT(30), <1>0, <1>a, <1>b, <1>19 DEF SaveRaw, Artifacts
<1>20. CASE SaveRecord(p)
  BY ZenonT(30), <1>0, <1>a, <1>b, <1>20 DEF SaveRecord, Artifacts
<1>21. CASE Finish(p)
  BY ZenonT(30), <1>0, <1>a, <1>21 DEF Finish
<1>22. CASE Mark(p)
  BY ZenonT(30), <1>0, <1>a, <1>22 DEF Mark
<1>23. CASE Kill(p)
  BY SMTT(20), <1>0, <1>a, <1>23 DEF Kill
<1> QED BY <1>1, <1>2, <1>3, <1>4, <1>5, <1>6, <1>7, <1>8, <1>9, <1>10, <1>11,
           <1>12, <1>13, <1>14, <1>15, <1>16, <1>17, <1>18, <1>19, <1>20, <1>21,
           <1>22, <1>23
        DEF Step, Request, Settle

(* The lock: who enters the critical section found no lock, who leaves it  *)
(* was alone in it.                                                        *)
LEMMA LockIsKept ==
    ASSUME TypeOK, CampaignInv, NEW p \in Processes, Step(p) \/ Kill(p)
    PROVE  LockIsExclusive'
<1> USE DEF Steps, OwnSteps, BeforeSend, AfterSend, ReserveSteps, ReconcileSteps, LockedSteps,
           Ended, Pass, Goto, WriteFails, Throw, Fault, Save, PutHalt, Unlock, Returns, OnError,
           TakeLock, ReleaseLock, PutReserve, PutDone, ledger, evidence, bill
<1> USE DEF TypeOK, LedgerTypeOK, CampaignInv, LockIsExclusive, Locked
<1>0. attempt[p] \in Attempts
  BY DEF TypeOK
<1>1. CASE Start(p)
  BY SMTT(20), <1>0, <1>1 DEF Start
<1>2. CASE CheckHalt(p)
  BY SMTT(20), <1>0, <1>2 DEF CheckHalt
<1>3. CASE CheckLedger(p)
  BY SMTT(20), <1>0, <1>3 DEF CheckLedger
<1>4. CASE MakeDirectory(p)
  BY SMTT(20), <1>0, <1>4 DEF MakeDirectory
<1>5. CASE SaveRequest(p)
  BY SMTT(20), <1>0, <1>5 DEF SaveRequest
<1>6. CASE ReserveLock(p)
  BY SMTT(20), <1>0, <1>6 DEF ReserveLock
<1>7. CASE ReserveCheck(p)
  BY SMTT(20), <1>0, <1>7 DEF ReserveCheck
<1>8. CASE ReserveOpen(p)
  BY SMTT(20), <1>0, <1>8 DEF ReserveOpen
<1>9. CASE ReserveWrite(p)
  BY SMTT(20), <1>0, <1>9 DEF ReserveWrite
<1>10. CASE ReserveUnlock(p)
  BY SMTT(20), <1>0, <1>10 DEF ReserveUnlock
<1>11. CASE Unwind(p)
  BY SMTT(20), <1>0, <1>11 DEF Unwind
<1>12. CASE Invoke(p)
  BY SMTT(20), <1>0, <1>12 DEF Invoke
<1>13. CASE Return(p)
  BY SMTT(20), <1>0, <1>13 DEF Return
<1>14. CASE ReconcileLock(p)
  BY SMTT(20), <1>0, <1>14 DEF ReconcileLock
<1>15. CASE DoneOpen(p)
  BY SMTT(20), <1>0, <1>15 DEF DoneOpen
<1>16. CASE DoneWrite(p)
  BY SMTT(20), <1>0, <1>16 DEF DoneWrite
<1>17. CASE DoneUnlock(p)
  BY SMTT(20), <1>0, <1>17 DEF DoneUnlock
<1>18. CASE Account(p)
  BY SMTT(20), <1>0, <1>18 DEF Account
<1>19. CASE SaveRaw(p)
  BY SMTT(20), <1>0, <1>19 DEF SaveRaw
<1>20. CASE SaveRecord(p)
  BY SMTT(20), <1>0, <1>20 DEF SaveRecord
<1>21. CASE Finish(p)
  BY SMTT(20), <1>0, <1>21 DEF Finish
<1>22. CASE Mark(p)
  BY SMTT(20), <1>0, <1>22 DEF Mark
<1>23. CASE Kill(p)
  BY SMTT(20), <1>0, <1>23 DEF Kill
<1> QED BY <1>1, <1>2, <1>3, <1>4, <1>5, <1>6, <1>7, <1>8, <1>9, <1>10, <1>11,
           <1>12, <1>13, <1>14, <1>15, <1>16, <1>17, <1>18, <1>19, <1>20, <1>21,
           <1>22, <1>23
        DEF Step, Request, Settle

(* The latch: the one step that makes an owner makes a new directory, and  *)
(* every attempt with an owner has one.                                    *)
LEMMA OwnersAreKept ==
    ASSUME TypeOK, CampaignInv, NEW p \in Processes, Step(p) \/ Kill(p)
    PROVE  OwnersAreUnique'
<1> USE DEF Steps, OwnSteps, BeforeSend, AfterSend, ReserveSteps, ReconcileSteps, LockedSteps,
           Ended, Pass, Goto, WriteFails, Throw, Fault, Save, PutHalt, Unlock, Returns, OnError,
           TakeLock, ReleaseLock, PutReserve, PutDone, ledger, evidence, bill
<1> USE DEF TypeOK, CampaignInv, OwnersAreUnique, OwnerInv
<1>0. attempt[p] \in Attempts
  BY DEF TypeOK
<1>1. CASE Start(p)
  BY <1>0, <1>1 DEF Start
<1>2. CASE CheckHalt(p)
  BY <1>0, <1>2 DEF CheckHalt
<1>3. CASE CheckLedger(p)
  BY <1>0, <1>3 DEF CheckLedger
<1>4. CASE MakeDirectory(p)
  BY <1>0, <1>4 DEF MakeDirectory
<1>5. CASE SaveRequest(p)
  BY <1>0, <1>5 DEF SaveRequest
<1>6. CASE ReserveLock(p)
  BY <1>0, <1>6 DEF ReserveLock
<1>7. CASE ReserveCheck(p)
  BY <1>0, <1>7 DEF ReserveCheck
<1>8. CASE ReserveOpen(p)
  BY <1>0, <1>8 DEF ReserveOpen
<1>9. CASE ReserveWrite(p)
  BY <1>0, <1>9 DEF ReserveWrite
<1>10. CASE ReserveUnlock(p)
  BY <1>0, <1>10 DEF ReserveUnlock
<1>11. CASE Unwind(p)
  BY <1>0, <1>11 DEF Unwind
<1>12. CASE Invoke(p)
  BY <1>0, <1>12 DEF Invoke
<1>13. CASE Return(p)
  BY <1>0, <1>13 DEF Return
<1>14. CASE ReconcileLock(p)
  BY <1>0, <1>14 DEF ReconcileLock
<1>15. CASE DoneOpen(p)
  BY <1>0, <1>15 DEF DoneOpen
<1>16. CASE DoneWrite(p)
  BY <1>0, <1>16 DEF DoneWrite
<1>17. CASE DoneUnlock(p)
  BY <1>0, <1>17 DEF DoneUnlock
<1>18. CASE Account(p)
  BY <1>0, <1>18 DEF Account
<1>19. CASE SaveRaw(p)
  BY <1>0, <1>19 DEF SaveRaw
<1>20. CASE SaveRecord(p)
  BY <1>0, <1>20 DEF SaveRecord
<1>21. CASE Finish(p)
  BY <1>0, <1>21 DEF Finish
<1>22. CASE Mark(p)
  BY <1>0, <1>22 DEF Mark
<1>23. CASE Kill(p)
  BY <1>0, <1>23 DEF Kill
<1> QED BY <1>1, <1>2, <1>3, <1>4, <1>5, <1>6, <1>7, <1>8, <1>9, <1>10, <1>11,
           <1>12, <1>13, <1>14, <1>15, <1>16, <1>17, <1>18, <1>19, <1>20, <1>21,
           <1>22, <1>23
        DEF Step, Request, Settle

(* What an owner has done so far: its own steps keep up with its files,    *)
(* and nobody else touches them.                                           *)
LEMMA OwnerIsKept ==
    ASSUME TypeOK, CampaignInv, NEW p \in Processes, Step(p) \/ Kill(p), NEW q \in Processes
    PROVE  OwnerInv(q)'
<1> USE DEF Steps, OwnSteps, BeforeSend, AfterSend, ReserveSteps, ReconcileSteps, LockedSteps,
           Ended, Pass, Goto, WriteFails, Throw, Fault, Save, PutHalt, Unlock, Returns, OnError,
           TakeLock, ReleaseLock, PutReserve, PutDone, ledger, evidence, bill
<1> USE DEF TypeOK, LedgerTypeOK, CampaignInv, OwnersAreUnique, OwnerInv, AttemptInv
<1>0. attempt[p] \in Attempts
  BY DEF TypeOK
<1>1. CASE Start(p)
  BY <1>0, <1>1 DEF Start
<1>2. CASE CheckHalt(p)
  BY <1>0, <1>2 DEF CheckHalt
<1>3. CASE CheckLedger(p)
  BY <1>0, <1>3 DEF CheckLedger
<1>4. CASE MakeDirectory(p)
  BY <1>0, <1>4 DEF MakeDirectory
<1>5. CASE SaveRequest(p)
  BY <1>0, <1>5 DEF SaveRequest
<1>6. CASE ReserveLock(p)
  BY <1>0, <1>6 DEF ReserveLock
<1>7. CASE ReserveCheck(p)
  BY <1>0, <1>7 DEF ReserveCheck
<1>8. CASE ReserveOpen(p)
  BY <1>0, <1>8 DEF ReserveOpen
<1>9. CASE ReserveWrite(p)
  BY <1>0, <1>9 DEF ReserveWrite
<1>10. CASE ReserveUnlock(p)
  BY <1>0, <1>10 DEF ReserveUnlock
<1>11. CASE Unwind(p)
  BY <1>0, <1>11 DEF Unwind
<1>12. CASE Invoke(p)
  BY <1>0, <1>12 DEF Invoke
<1>13. CASE Return(p)
  BY <1>0, <1>13 DEF Return
<1>14. CASE ReconcileLock(p)
  BY <1>0, <1>14 DEF ReconcileLock
<1>15. CASE DoneOpen(p)
  BY <1>0, <1>15 DEF DoneOpen
<1>16. CASE DoneWrite(p)
  BY <1>0, <1>16 DEF DoneWrite
<1>17. CASE DoneUnlock(p)
  BY <1>0, <1>17 DEF DoneUnlock
<1>18. CASE Account(p)
  BY <1>0, <1>18 DEF Account
<1>19. CASE SaveRaw(p)
  BY <1>0, <1>19 DEF SaveRaw
<1>20. CASE SaveRecord(p)
  BY <1>0, <1>20 DEF SaveRecord
<1>21. CASE Finish(p)
  BY <1>0, <1>21 DEF Finish
<1>22. CASE Mark(p)
  BY <1>0, <1>22 DEF Mark
<1>23. CASE Kill(p)
  BY <1>0, <1>23 DEF Kill
<1> QED BY <1>1, <1>2, <1>3, <1>4, <1>5, <1>6, <1>7, <1>8, <1>9, <1>10, <1>11,
           <1>12, <1>13, <1>14, <1>15, <1>16, <1>17, <1>18, <1>19, <1>20, <1>21,
           <1>22, <1>23
        DEF Step, Request, Settle

(* What files and sends say about each other.                              *)
LEMMA AttemptIsKept ==
    ASSUME TypeOK, CampaignInv, NEW p \in Processes, Step(p) \/ Kill(p), NEW a \in Attempts
    PROVE  AttemptInv(a)'
<1> USE DEF Steps, OwnSteps, BeforeSend, AfterSend, ReserveSteps, ReconcileSteps, LockedSteps,
           Ended, Pass, Goto, WriteFails, Throw, Fault, Save, PutHalt, Unlock, Returns, OnError,
           TakeLock, ReleaseLock, PutReserve, PutDone, ledger, evidence, bill
<1> USE DEF TypeOK, LedgerTypeOK, CampaignInv, OwnerInv, AttemptInv
<1>0. attempt[p] \in Attempts
  BY DEF TypeOK
<1>1. CASE Start(p)
  BY <1>0, <1>1 DEF Start
<1>2. CASE CheckHalt(p)
  BY <1>0, <1>2 DEF CheckHalt
<1>3. CASE CheckLedger(p)
  BY <1>0, <1>3 DEF CheckLedger
<1>4. CASE MakeDirectory(p)
  BY <1>0, <1>4 DEF MakeDirectory
<1>5. CASE SaveRequest(p)
  <2>1. "raw" \in files[a] => "raw" \in files'[a]
    <3>1. CASE UNCHANGED files
      BY <3>1
    <3>2. CASE ~UNCHANGED files
      <4>1. PICK name : files' = [files EXCEPT ![attempt[p]] = @ \cup {name}]
        BY <1>5, <3>2 DEF SaveRequest
      <4> QED BY <1>0, <4>1
    <3> QED BY <3>1, <3>2
  <2>2. UNCHANGED <<reserved, done, dirs, sends>>
    BY <1>5 DEF SaveRequest
  <2> QED BY <2>1, <2>2
<1>6. CASE ReserveLock(p)
  BY <1>0, <1>6 DEF ReserveLock
<1>7. CASE ReserveCheck(p)
  BY <1>0, <1>7 DEF ReserveCheck
<1>8. CASE ReserveOpen(p)
  BY <1>0, <1>8 DEF ReserveOpen
<1>9. CASE ReserveWrite(p)
  BY <1>0, <1>9 DEF ReserveWrite
<1>10. CASE ReserveUnlock(p)
  BY <1>0, <1>10 DEF ReserveUnlock
<1>11. CASE Unwind(p)
  BY <1>0, <1>11 DEF Unwind
<1>12. CASE Invoke(p)
  BY <1>0, <1>12 DEF Invoke
<1>13. CASE Return(p)
  BY <1>0, <1>13 DEF Return
<1>14. CASE ReconcileLock(p)
  BY <1>0, <1>14 DEF ReconcileLock
<1>15. CASE DoneOpen(p)
  BY <1>0, <1>15 DEF DoneOpen
<1>16. CASE DoneWrite(p)
  BY <1>0, <1>16 DEF DoneWrite
<1>17. CASE DoneUnlock(p)
  BY <1>0, <1>17 DEF DoneUnlock
<1>18. CASE Account(p)
  BY <1>0, <1>18 DEF Account
<1>19. CASE SaveRaw(p)
  <2>1. "raw" \in files[a] => "raw" \in files'[a]
    <3>1. CASE UNCHANGED files
      BY <3>1
    <3>2. CASE ~UNCHANGED files
      <4>1. PICK name : files' = [files EXCEPT ![attempt[p]] = @ \cup {name}]
        BY <1>19, <3>2 DEF SaveRaw
      <4> QED BY <1>0, <4>1
    <3> QED BY <3>1, <3>2
  <2>2. UNCHANGED <<reserved, done, dirs, sends>>
    BY <1>19 DEF SaveRaw
  <2> QED BY <2>1, <2>2
<1>20. CASE SaveRecord(p)
  <2>1. "raw" \in files[a] => "raw" \in files'[a]
    <3>1. CASE UNCHANGED files
      BY <3>1
    <3>2. CASE ~UNCHANGED files
      <4>1. PICK name : files' = [files EXCEPT ![attempt[p]] = @ \cup {name}]
        BY <1>20, <3>2 DEF SaveRecord
      <4> QED BY <1>0, <4>1
    <3> QED BY <3>1, <3>2
  <2>2. UNCHANGED <<reserved, done, dirs, sends>>
    BY <1>20 DEF SaveRecord
  <2> QED BY <2>1, <2>2
<1>21. CASE Finish(p)
  BY <1>0, <1>21 DEF Finish
<1>22. CASE Mark(p)
  BY <1>0, <1>22 DEF Mark
<1>23. CASE Kill(p)
  BY <1>0, <1>23 DEF Kill
<1> QED BY <1>1, <1>2, <1>3, <1>4, <1>5, <1>6, <1>7, <1>8, <1>9, <1>10, <1>11,
           <1>12, <1>13, <1>14, <1>15, <1>16, <1>17, <1>18, <1>19, <1>20, <1>21,
           <1>22, <1>23
        DEF Step, Request, Settle

(* TypeOK and CampaignInv are inductive together.                          *)
LEMMA InvIsInductive == TypeOK /\ CampaignInv /\ [Next]_vars => TypeOK' /\ CampaignInv'
<1> SUFFICES ASSUME TypeOK, CampaignInv, [Next]_vars PROVE TypeOK' /\ CampaignInv'
  OBVIOUS
<1>1. CASE UNCHANGED vars
  BY <1>1 DEF vars, ledger, evidence, bill, TypeOK, LedgerTypeOK, CampaignInv, LockIsExclusive,
              Locked, OwnersAreUnique, OwnerInv, AttemptInv
<1>2. ASSUME NEW p \in Processes, Step(p) \/ Kill(p) PROVE TypeOK' /\ CampaignInv'
  BY <1>2, StepIsTyped, LockIsKept, OwnersAreKept, OwnerIsKept, AttemptIsKept DEF CampaignInv
<1> QED BY <1>1, <1>2 DEF Next

(* The types of TypeOK and the inductive invariant hold in every reachable *)
(* state: the lock is exclusive, an attempt has one owner at most, and its *)
(* files and sends agree with how far the owner has come.                  *)
THEOREM CampaignInvariant == Spec => [](TypeOK /\ CampaignInv)
<1>1. Init => TypeOK
  <2> SUFFICES ASSUME Init PROVE TypeOK
    OBVIOUS
  <2>1. LedgerTypeOK
    BY DEF Init, LedgerInit, LedgerTypeOK, NoReserve, NoDone, FileStates
  <2>2. NoResult \in [ok : BOOLEAN, usage : [prompt : Nat \cup {Missing},
            completion : Nat \cup {Missing}, total : Nat \cup {Missing}]]
    BY DEF NoResult, NoUsage
  <2>3. faults \in 0..MaxFaults
    BY CampaignAssumption DEF Init
  <2> QED BY <2>1, <2>2, <2>3 DEF Init, TypeOK, Steps
<1>2. Init => CampaignInv
  BY DEF Init, LedgerInit, CampaignInv, LockIsExclusive, Locked, OwnersAreUnique, OwnerInv,
         AttemptInv, LockedSteps, OwnSteps, BeforeSend, AfterSend, ReserveSteps,
         ReconcileSteps, NoDone
<1> QED BY <1>1, <1>2, InvIsInductive, PTL DEF Spec

(* Every file, program counter and counter of a campaign has its type,     *)
(* the accounts written from what a provider reports included.             *)
THEOREM CampaignTypeCorrect == Spec => []TypeOK
BY CampaignInvariant, PTL

(* Two processes are never inside reserve() or reconcile() at once.        *)
THEOREM LedgerLockIsExclusive == Spec => []LockIsExclusive
<1>1. CampaignInv => LockIsExclusive
  BY DEF CampaignInv
<1> QED BY <1>1, CampaignInvariant, PTL

(* However many commands are started for an attempt, one request leaves.   *)
THEOREM AttemptSentAtMostOnce == Spec => []AtMostOneSend
<1>1. CampaignInv => AtMostOneSend
  BY DEF CampaignInv, AttemptInv, AtMostOneSend
<1> QED BY <1>1, CampaignInvariant, PTL

(* What was sent has its whole reservation on disk, for good.              *)
THEOREM SentIsReserved == Spec => []SendIsReserved
<1>1. CampaignInv => SendIsReserved
  BY DEF CampaignInv, AttemptInv, SendIsReserved
<1> QED BY <1>1, CampaignInvariant, PTL

(* A formal attempt is not accounted for before its response is saved.     *)
THEOREM AccountsAreEvidenced == Spec => []SettledIsEvidenced
<1>1. CampaignInv => SettledIsEvidenced
  BY DEF CampaignInv, AttemptInv, SettledIsEvidenced
<1> QED BY <1>1, CampaignInvariant, PTL

----------------------------------------------------------------------------
(* The halt of formal-call                                                 *)

(* Inductive: until a write fails, a formal-call at its last check has     *)
(* saved its record, and one that has failed did so after that or after    *)
(* its mark.                                                               *)
MarkInv ==
    \A p \in Processes : faults = 0 /\ Formal(attempt[p]) =>
        /\ pc[p] = "failed" => "formal" \in halts \/ "record" \in files[attempt[p]]
        /\ pc[p] = "finish" => "record" \in files[attempt[p]]

(* Files and marks are never removed, and the attempt of a process stays.  *)
LEMMA FilesGrow ==
    ASSUME TypeOK, NEW p \in Processes, Step(p) \/ Kill(p)
    PROVE  /\ UNCHANGED attempt /\ halts \subseteq halts'
           /\ \A a \in Attempts : files[a] \subseteq files'[a]
           /\ \A q \in Processes \ {p} : pc'[q] = pc[q]
           /\ faults' = 0 => faults = 0
<1> USE DEF Pass, Goto, WriteFails, Throw, Fault, Save, PutHalt, Unlock, Returns,
           TakeLock, ReleaseLock, PutReserve, PutDone, ledger, evidence, bill
<1> USE DEF TypeOK
<1>0. attempt[p] \in Attempts /\ faults \in Nat
  BY CampaignAssumption
<1>1. CASE Start(p) \/ CheckHalt(p) \/ CheckLedger(p) \/ ReserveLock(p) \/ ReserveCheck(p)
           \/ ReserveOpen(p) \/ ReserveWrite(p)
  BY <1>0, <1>1 DEF Start, CheckHalt, CheckLedger, ReserveLock, ReserveCheck, ReserveOpen,
                    ReserveWrite
<1>2. CASE ReserveUnlock(p) \/ Unwind(p) \/ Return(p) \/ Invoke(p) \/ MakeDirectory(p)
  BY <1>0, <1>2 DEF ReserveUnlock, Unwind, Return, Invoke, MakeDirectory
<1>3. CASE ReconcileLock(p) \/ DoneOpen(p) \/ DoneWrite(p) \/ DoneUnlock(p) \/ Kill(p)
  BY <1>0, <1>3 DEF ReconcileLock, DoneOpen, DoneWrite, DoneUnlock, Kill
<1>4. CASE Account(p) \/ Finish(p) \/ Mark(p)
  BY <1>0, <1>4 DEF Account, Finish, Mark
<1>5. CASE SaveRequest(p) \/ SaveRaw(p) \/ SaveRecord(p)
  BY <1>0, <1>5 DEF SaveRequest, SaveRaw, SaveRecord
<1> QED BY <1>1, <1>2, <1>3, <1>4, <1>5 DEF Step, Request, Settle

(* The two steps after which a formal-call has failed, and the one that    *)
(* brings it to its last check.                                            *)
LEMMA MarkIsMade ==
    ASSUME TypeOK, CampaignInv, MarkInv, NEW p \in Processes, Step(p) \/ Kill(p),
           Formal(attempt[p]), faults' = 0
    PROVE  /\ pc'[p] = "failed" =>
                  "formal" \in halts' \/ "record" \in files'[attempt[p]]
           /\ pc'[p] = "finish" => "record" \in files'[attempt[p]]
<1> USE DEF Pass, Goto, WriteFails, Throw, Fault, Save, PutHalt, Unlock, Returns, OnError,
           ledger, evidence, bill
<1> USE DEF TypeOK
<1>0. attempt[p] \in Attempts /\ faults \in Nat /\ faults = 0
  BY CampaignAssumption, FilesGrow
<1>1. CASE Start(p) \/ CheckHalt(p) \/ CheckLedger(p) \/ ReserveLock(p) \/ ReserveCheck(p)
           \/ ReserveOpen(p) \/ ReserveWrite(p)
  BY <1>0, <1>1 DEF Start, CheckHalt, CheckLedger, ReserveLock, ReserveCheck, ReserveOpen,
                    ReserveWrite
<1>2. CASE ReserveUnlock(p) \/ Unwind(p) \/ Return(p) \/ Invoke(p) \/ MakeDirectory(p)
  BY <1>0, <1>2 DEF ReserveUnlock, Unwind, Return, Invoke, MakeDirectory
<1>3. CASE ReconcileLock(p) \/ DoneOpen(p) \/ DoneWrite(p) \/ DoneUnlock(p) \/ Kill(p)
  BY <1>0, <1>3 DEF ReconcileLock, DoneOpen, DoneWrite, DoneUnlock, Kill
<1>4. CASE Account(p)
  BY <1>0, <1>4 DEF Account, CampaignInv, OwnerInv
<1>5. CASE Finish(p)
  BY <1>0, <1>5 DEF Finish, MarkInv
<1>6. CASE Mark(p)
  BY <1>0, <1>6 DEF Mark, HaltOf
<1>7. CASE SaveRequest(p) \/ SaveRaw(p) \/ SaveRecord(p)
  BY <1>0, <1>7 DEF SaveRequest, SaveRaw, SaveRecord
<1> QED BY <1>1, <1>2, <1>3, <1>4, <1>5, <1>6, <1>7 DEF Step, Request, Settle

(* A formal-call that fails without a failed write has left its mark or    *)
(* its record, whatever its rivals do to lock and ledger.                  *)
THEOREM FormalFailuresAreMarked == Spec => []FormalFailureIsMarked
<1>1. Init => MarkInv
  BY DEF Init, MarkInv
<1>2. TypeOK /\ CampaignInv /\ MarkInv /\ [Next]_vars => MarkInv'
  <2> SUFFICES ASSUME TypeOK, CampaignInv, MarkInv, [Next]_vars PROVE MarkInv'
    OBVIOUS
  <2>1. CASE UNCHANGED vars
    BY <2>1 DEF vars, ledger, evidence, bill, MarkInv
  <2>2. ASSUME NEW p \in Processes, Step(p) \/ Kill(p) PROVE MarkInv'
    <3> SUFFICES ASSUME NEW q \in Processes, faults' = 0, Formal(attempt'[q])
                 PROVE  /\ pc'[q] = "failed" =>
                              "formal" \in halts' \/ "record" \in files'[attempt'[q]]
                        /\ pc'[q] = "finish" => "record" \in files'[attempt'[q]]
      BY DEF MarkInv, Formal
    <3>1. CASE q = p
      BY <2>2, <3>1, FilesGrow, MarkIsMade
    <3>2. CASE q # p
      <4>1. attempt[q] \in Attempts
        BY DEF TypeOK
      <4> QED BY <2>2, <3>2, <4>1, FilesGrow DEF MarkInv
    <3> QED BY <3>1, <3>2
  <2> QED BY <2>1, <2>2 DEF Next
<1>3. MarkInv => FormalFailureIsMarked
  BY DEF MarkInv, FormalFailureIsMarked
<1> QED BY <1>1, <1>2, <1>3, CampaignInvariant, PTL DEF Spec

----------------------------------------------------------------------------
(* The budget                                                              *)

Charges == [a \in Attempts |-> Charge(a)]
ChargedIsSum == Charged = SumOf(Charges, Attempts)

LEMMA ChargedForm == ChargedIsSum
<1> DEFINE F(g) == [s \in SUBSET Attempts |->
                       IF s = {} THEN 0
                       ELSE Charge(CHOOSE x \in s : TRUE) + g[s \ {CHOOSE x \in s : TRUE}]]
           G == CHOOSE g : g = F(g)
<1>1. Charged = G[Attempts]
  BY DEF Charged, MapThenSumSet, MapThenFoldSet
<1>2. ASSUME NEW g PROVE g = F(g) <=> IsSum(g, Charges, Attempts)
  <2>1. \A s \in SUBSET Attempts : s # {} => (CHOOSE x \in s : TRUE) \in Attempts
    OBVIOUS
  <2>2. \A s \in SUBSET Attempts : s # {} =>
            Charges[CHOOSE x \in s : TRUE] = Charge(CHOOSE x \in s : TRUE)
    BY <2>1 DEF Charges
  <2> QED BY <2>2 DEF IsSum, Some
<1>3. G = F(G)
  <2>1. PICK g : IsSum(g, Charges, Attempts)
    BY SumExists, LimitsAssumption
  <2>2. g = F(g)
    BY <1>2, <2>1
  <2> HIDE DEF F
  <2> QED BY <2>2
<1> QED BY <1>1, <1>2, <1>3, SumIsUnique, LimitsAssumption DEF ChargedIsSum

(* The two sums of summary().                                              *)
Actuals == [a \in Attempts |-> done[a].actual]
Uppers == [a \in Attempts |-> reserved[a].upper]

LEMMA SpentForm == Spent = SumOf(Actuals, Reserved \ Unresolved)
<1> DEFINE S == Reserved \ Unresolved
           F(g) == [s \in SUBSET S |->
                       IF s = {} THEN 0
                       ELSE done[CHOOSE x \in s : TRUE].actual + g[s \ {CHOOSE x \in s : TRUE}]]
           G == CHOOSE g : g = F(g)
<1>0. IsFiniteSet(S) /\ S \subseteq Attempts
  BY FS_Subset, LimitsAssumption DEF Reserved
<1>1. Spent = G[S]
  BY DEF Spent, MapThenSumSet, MapThenFoldSet
<1> HIDE DEF S
<1>2. ASSUME NEW g PROVE g = F(g) <=> IsSum(g, Actuals, S)
  <2>1. \A s \in SUBSET S : s # {} => (CHOOSE x \in s : TRUE) \in Attempts
    BY <1>0
  <2>2. \A s \in SUBSET S : s # {} =>
            Actuals[CHOOSE x \in s : TRUE] = done[CHOOSE x \in s : TRUE].actual
    BY <2>1 DEF Actuals
  <2> QED BY <2>2 DEF IsSum, Some
<1>3. G = F(G)
  <2>1. PICK g : IsSum(g, Actuals, S)
    BY <1>0, SumExists
  <2>2. g = F(g)
    BY <1>2, <2>1
  <2> HIDE DEF F
  <2> QED BY <2>2
<1>4. SumOf(Actuals, S) = G[S]
  BY <1>0, <1>2, <1>3, SumIsUnique
<1> QED BY <1>1, <1>4 DEF S

LEMMA UnknownReservedForm == UnknownReserved = SumOf(Uppers, Unresolved)
<1> DEFINE F(g) == [s \in SUBSET Unresolved |->
                       IF s = {} THEN 0
                       ELSE reserved[CHOOSE x \in s : TRUE].upper + g[s \ {CHOOSE x \in s : TRUE}]]
           G == CHOOSE g : g = F(g)
<1>0. IsFiniteSet(Unresolved) /\ Unresolved \subseteq Attempts
  BY FS_Subset, LimitsAssumption DEF Reserved, Unresolved
<1>1. UnknownReserved = G[Unresolved]
  BY DEF UnknownReserved, MapThenSumSet, MapThenFoldSet
<1>2. ASSUME NEW g PROVE g = F(g) <=> IsSum(g, Uppers, Unresolved)
  <2>1. \A s \in SUBSET Unresolved : s # {} => (CHOOSE x \in s : TRUE) \in Attempts
    BY <1>0
  <2>2. \A s \in SUBSET Unresolved : s # {} =>
            Uppers[CHOOSE x \in s : TRUE] = reserved[CHOOSE x \in s : TRUE].upper
    BY <2>1 DEF Uppers
  <2> QED BY <2>2 DEF IsSum, Some
<1>3. G = F(G)
  <2>1. PICK g : IsSum(g, Uppers, Unresolved)
    BY <1>0, SumExists
  <2>2. g = F(g)
    BY <1>2, <2>1
  <2> HIDE DEF F
  <2> QED BY <2>2
<1> QED BY <1>0, <1>1, <1>2, <1>3, SumIsUnique

LEMMA CostForm == MapThenSumSet(LAMBDA a : cost[a], Attempts) = SumOf(cost, Attempts)
BY DEF MapThenSumSet, MapThenFoldSet, SumOf, IsSum, Some

LEMMA ChargesAreNumbers ==
    ASSUME TypeOK
    PROVE  /\ Charges \in [Attempts -> Nat]
           /\ Charged = SumOf(Charges, Attempts) /\ Charged \in Nat
<1>1. Charges \in [Attempts -> Nat]
  BY DEF TypeOK, LedgerTypeOK, Charges, Charge, Accounted
<1>2. SumOf(Charges, Attempts) \in Nat
  BY <1>1, LimitsAssumption, SumOfNumbers
<1> QED BY <1>1, <1>2, ChargedForm DEF ChargedIsSum

(* What reserve() finds under the lock when it goes on: everything known   *)
(* is accounted for, and the new reservation fits.                         *)
LEMMA ReservationIsCovered ==
    ASSUME TypeOK, CampaignInv, BudgetInv, NEW a \in Attempts, Readable,
           MayReserve(a, UpperOf[a])
    PROVE  /\ Unresolved = {} /\ Calls < CallLimit /\ ~Known(a)
           /\ Charged + UpperOf[a] <= TokenLimit
<1>0. /\ Unresolved \subseteq Attempts /\ IsFiniteSet(Unresolved)
      /\ Reserved \subseteq Attempts /\ IsFiniteSet(Reserved)
  BY FS_Subset, LimitsAssumption DEF Reserved, Unresolved
<1>1. ~Halted /\ Calls < CallLimit /\ UpperOf[a] <= Remaining /\ ~Known(a)
  BY DEF MayReserve
<1>2. Unresolved = {}
  <2> SUFFICES ASSUME NEW b \in Unresolved PROVE FALSE
    OBVIOUS
  <2>1. reserved[b] = Reserve(UpperOf[b]) /\ b \in Attempts
    BY <1>0 DEF Readable, Unresolved, Reserved, BudgetInv, BillInv, NoReserve, TornReserve
  <2>2. Uppers[b] >= 1
    BY <2>1, CampaignAssumption DEF Uppers, Reserve
  <2>3. \A x \in Unresolved : Uppers[x] \in Nat
    BY <1>0 DEF Uppers, TypeOK, LedgerTypeOK
  <2>4. SumOf(Uppers, Unresolved) \in Nat /\ Uppers[b] <= SumOf(Uppers, Unresolved)
    BY <1>0, <2>3, SumOfNumbers, SumIsBound
  <2>5. UnknownReserved > 0
    BY <2>2, <2>3, <2>4, UnknownReservedForm
  <2> QED BY <1>1, <2>5 DEF Halted
<1>3. UnknownReserved = 0
  BY <1>2, UnknownReservedForm, SumOfNone
<1>4. Spent = Charged
  <2>1. \A b \in Reserved : Charges[b] = Actuals[b]
    BY <1>0, <1>2 DEF Unresolved, Charges, Charge, Actuals
  <2>2. \A b \in Attempts \ Reserved : Charges[b] = 0
    <3> SUFFICES ASSUME NEW b \in Attempts \ Reserved PROVE Charge(b) = 0
      BY DEF Charges
    <3>1. reserved[b] = NoReserve
      BY DEF Reserved, BudgetInv, BillInv, TornReserve, Reserve
    <3>2. done[b] = NoDone
      <4>1. AttemptInv(b) /\ sends[b] \in Nat
        BY DEF CampaignInv, TypeOK
      <4>2. reserved[b] # Reserve(UpperOf[b])
        BY <3>1 DEF NoReserve, Reserve
      <4> QED BY <4>1, <4>2 DEF AttemptInv
    <3> QED BY <3>1, <3>2 DEF Charge, Accounted, NoReserve, NoDone
  <2>3. SumOf(Charges, Attempts) = SumOf(Charges, Reserved)
    BY <1>0, <2>2, ChargesAreNumbers, LimitsAssumption, SumOfSupport
  <2>4. SumOf(Charges, Reserved) = SumOf(Actuals, Reserved)
    BY <1>0, <2>1, SumOfEqual
  <2>5. Reserved \ Unresolved = Reserved
    BY <1>2
  <2> QED BY <2>3, <2>4, <2>5, SpentForm, ChargesAreNumbers
<1>5. Charged \in Nat /\ UpperOf[a] \in Nat /\ TokenLimit \in Nat /\ UpperOf[a] > 0
  BY ChargesAreNumbers, CampaignAssumption, LimitsAssumption
<1>6. Charged + UpperOf[a] <= TokenLimit
  BY <1>1, <1>3, <1>4, <1>5 DEF Remaining, Halted
<1> QED BY <1>1, <1>2, <1>6

(* A step leaves the other processes where they are.                       *)
LEMMA OthersStay ==
    ASSUME TypeOK, NEW p \in Processes, Step(p) \/ Kill(p)
    PROVE  /\ UNCHANGED attempt
           /\ \A q \in Processes \ {p} : pc'[q] = pc[q] /\ result'[q] = result[q]
<1> USE DEF Pass, Goto, WriteFails, Throw, Save, PutHalt, Unlock, Returns, TypeOK
<1>1. CASE Start(p) \/ CheckHalt(p) \/ CheckLedger(p) \/ ReserveLock(p) \/ ReserveCheck(p)
           \/ ReserveOpen(p) \/ ReserveWrite(p)
  BY <1>1 DEF Start, CheckHalt, CheckLedger, ReserveLock, ReserveCheck, ReserveOpen,
              ReserveWrite
<1>2. CASE ReserveUnlock(p) \/ Unwind(p) \/ Return(p) \/ Invoke(p) \/ MakeDirectory(p)
  BY <1>2 DEF ReserveUnlock, Unwind, Return, Invoke, MakeDirectory
<1>3. CASE ReconcileLock(p) \/ DoneOpen(p) \/ DoneWrite(p) \/ DoneUnlock(p) \/ Kill(p)
  BY <1>3 DEF ReconcileLock, DoneOpen, DoneWrite, DoneUnlock, Kill
<1>4. CASE Account(p) \/ Finish(p) \/ Mark(p)
  BY <1>4 DEF Account, Finish, Mark
<1>5. CASE SaveRequest(p) \/ SaveRaw(p) \/ SaveRecord(p)
  BY <1>5 DEF SaveRequest, SaveRaw, SaveRecord
<1> QED BY <1>1, <1>2, <1>3, <1>4, <1>5 DEF Step, Request, Settle

(* Five steps change what an attempt costs; of the others, one takes a     *)
(* bill in and one looks at the ledger.                                    *)
Reported == AfterSend \ {"await"}
Books == <<reserved, done, sends, cost>>

LEMMA OtherStepsKeepBooks ==
    ASSUME TypeOK, NEW p \in Processes, Step(p) \/ Kill(p),
           ReserveOpen(p) => WriteFails(p, "reserve_open", "unwind"),
           ReserveWrite(p) => WriteFails(p, "reserve_write", "unwind"),
           DoneOpen(p) => WriteFails(p, "done_open", "unwind"),
           DoneWrite(p) => WriteFails(p, "done_write", "unwind"), ~Invoke(p)
    PROVE  /\ UNCHANGED Books
           /\ pc'[p] \in Reported =>
                 \/ pc[p] \in Reported /\ result'[p] = result[p]
                 \/ result'[p].usage \in Usages(cost[attempt[p]])
           /\ pc'[p] = "reserve_open" => Readable /\ MayReserve(attempt[p], UpperOf[attempt[p]])
           /\ pc'[p] # "reserve_write"
<1> USE DEF Pass, Goto, WriteFails, Throw, Save, PutHalt, Unlock, Returns, OnError,
           TakeLock, ReleaseLock, ledger, evidence, bill, TypeOK, Reported, AfterSend,
           ReconcileSteps, Books
<1>1. CASE Start(p) \/ CheckHalt(p) \/ CheckLedger(p) \/ ReserveLock(p)
  BY <1>1 DEF Start, CheckHalt, CheckLedger, ReserveLock
<1>2. CASE ReserveCheck(p)
  BY <1>2 DEF ReserveCheck
<1>3. CASE ReserveOpen(p) \/ ReserveWrite(p) \/ DoneOpen(p) \/ DoneWrite(p)
  BY <1>3
<1>4. CASE ReserveUnlock(p) \/ Unwind(p) \/ MakeDirectory(p)
  BY <1>4 DEF ReserveUnlock, Unwind, MakeDirectory
<1>5. CASE Return(p)
  BY <1>5 DEF Return
<1>6. CASE ReconcileLock(p) \/ DoneUnlock(p) \/ Kill(p)
  BY <1>6 DEF ReconcileLock, DoneUnlock, Kill
<1>7. CASE Account(p) \/ Finish(p) \/ Mark(p)
  BY <1>7 DEF Account, Finish, Mark
<1>8. CASE SaveRequest(p) \/ SaveRaw(p) \/ SaveRecord(p)
  BY <1>8 DEF SaveRequest, SaveRaw, SaveRecord
<1> QED BY <1>1, <1>2, <1>3, <1>4, <1>5, <1>6, <1>7, <1>8 DEF Step, Request, Settle

(* Nothing that the sums read has changed.                                 *)
LEMMA SameBooks ==
    ASSUME TypeOK, BudgetInv, UNCHANGED Books
    PROVE  /\ \A a \in Attempts : BillInv(a)' /\ Known(a)' = Known(a)
           /\ Unresolved' = Unresolved /\ Calls' = Calls /\ Charged' = Charged
           /\ \A a, b \in Unresolved' : a = b
           /\ Calls' <= CallLimit
           /\ BilledAsReserved' => Charged' <= TokenLimit
<1> USE DEF Books
<1>1. Reserved' = Reserved /\ Unresolved' = Unresolved /\ Calls' = Calls
  BY DEF Reserved, Unresolved, Accounted, Calls
<1>2. Charges' = Charges
  BY DEF Charges, Charge, Accounted
<1>3. Charged' = Charged
  <2>1. ChargedIsSum /\ ChargedIsSum'
    BY ChargedForm, PTL
  <2> QED BY <1>2, <2>1 DEF ChargedIsSum
<1>4. BilledAsReserved' => BilledAsReserved
  BY DEF BilledAsReserved
<1>5. \A a \in Attempts : BillInv(a)' /\ Known(a)' = Known(a)
  BY DEF BudgetInv, BillInv, Known, Accounted
<1> QED BY <1>1, <1>3, <1>4, <1>5 DEF BudgetInv

LEMMA OtherStepsKeepBudget ==
    ASSUME TypeOK, CampaignInv, BudgetInv, NEW p \in Processes, Step(p) \/ Kill(p),
           ReserveOpen(p) => WriteFails(p, "reserve_open", "unwind"),
           ReserveWrite(p) => WriteFails(p, "reserve_write", "unwind"),
           DoneOpen(p) => WriteFails(p, "done_open", "unwind"),
           DoneWrite(p) => WriteFails(p, "done_write", "unwind"), ~Invoke(p)
    PROVE  BudgetInv'
<1>0. UNCHANGED Books
  BY OtherStepsKeepBooks
<1>1. /\ UNCHANGED <<reserved, cost, attempt>> /\ attempt[p] \in Attempts
  BY <1>0, OthersStay DEF Books, TypeOK
<1>2. \A q \in Processes \ {p} : ViewInv(q)'
  <2> TAKE q \in Processes \ {p}
  <2>1. ViewInv(q) /\ pc'[q] = pc[q] /\ result'[q] = result[q] /\ attempt[q] \in Attempts
    BY OthersStay DEF BudgetInv, TypeOK
  <2> QED BY <1>0, <1>1, <2>1, SameBooks DEF ViewInv
<1>3. ViewInv(p)'
  <2>1. pc'[p] \in Reported => result'[p].usage \in Usages(cost'[attempt'[p]])
    <3>1. pc[p] \in Reported => result[p].usage \in Usages(cost[attempt[p]])
      BY DEF BudgetInv, ViewInv, Reported
    <3> QED BY <1>1, <3>1, OtherStepsKeepBooks
  <2>2. ASSUME pc'[p] = "reserve_open"
        PROVE  /\ Unresolved' = {} /\ Calls' < CallLimit /\ ~Known(attempt[p])'
               /\ Charged' + UpperOf[attempt[p]] <= TokenLimit
    BY <1>0, <1>1, <2>2, OtherStepsKeepBooks, ReservationIsCovered, SameBooks
  <2>3. pc'[p] # "reserve_write"
    BY OtherStepsKeepBooks
  <2> QED BY <1>1, <2>1, <2>2, <2>3 DEF ViewInv, Reported
<1> QED BY <1>0, <1>2, <1>3, SameBooks DEF BudgetInv

(* While one process is under the lock, what another sees of the ledger is *)
(* not used any more, or not yet.                                          *)
LEMMA OthersKeepView ==
    ASSUME TypeOK, BudgetInv, NEW p \in Processes, Step(p) \/ Kill(p),
           NEW q \in Processes \ {p}, pc[q] \notin {"reserve_open", "reserve_write"},
           pc[q] \in Reported => cost'[attempt[q]] = cost[attempt[q]]
    PROVE  ViewInv(q)'
<1>1. UNCHANGED attempt /\ pc'[q] = pc[q] /\ result'[q] = result[q]
  BY OthersStay
<1>2. pc[q] \in Reported => result[q].usage \in Usages(cost[attempt[q]])
  BY DEF BudgetInv, ViewInv, Reported
<1> QED BY <1>1, <1>2 DEF ViewInv, Reported

LEMMA OneUnderTheLock ==
    ASSUME CampaignInv, NEW p \in Processes, pc[p] \in LockedSteps,
           NEW q \in Processes \ {p}
    PROVE  pc[q] \notin {"reserve_open", "reserve_write"}
BY DEF CampaignInv, LockIsExclusive, Locked, LockedSteps, ReserveSteps

(* The reservation appears, torn: it charges nothing yet.                  *)
LEMMA ReserveOpenKeepsBudget ==
    ASSUME TypeOK, CampaignInv, BudgetInv, NEW p \in Processes, ReserveOpen(p),
           ~WriteFails(p, "reserve_open", "unwind")
    PROVE  BudgetInv'
<1> DEFINE a == attempt[p]
<1>1. /\ pc[p] = "reserve_open" /\ pc' = [pc EXCEPT ![p] = "reserve_write"]
      /\ reserved' = [reserved EXCEPT ![a] = TornReserve]
      /\ UNCHANGED <<done, sends, cost, attempt, result>>
  BY DEF ReserveOpen, Goto, PutReserve, bill
<1>2. /\ a \in Attempts /\ Unresolved = {} /\ Calls < CallLimit /\ ~Known(a)
      /\ Charged + UpperOf[a] <= TokenLimit /\ pc'[p] = "reserve_write"
  BY <1>1 DEF BudgetInv, ViewInv, TypeOK
<1>3. reserved'[a] = TornReserve /\ \A b \in Attempts \ {a} : reserved'[b] = reserved[b]
  BY <1>1, <1>2 DEF TypeOK, LedgerTypeOK
<1>4. /\ reserved[a] = NoReserve /\ done[a].state = "absent"
  BY <1>2 DEF Known, BudgetInv, BillInv, TornReserve, Reserve
<1>5. Charges' = Charges
  BY <1>1, <1>3, <1>4 DEF Charges, Charge, Accounted, NoReserve, TornReserve
<1>6. Charged' = Charged
  <2>1. ChargedIsSum /\ ChargedIsSum'
    BY ChargedForm, PTL
  <2> QED BY <1>5, <2>1 DEF ChargedIsSum
<1>7. Reserved' = Reserved \cup {a} /\ a \notin Reserved
  BY <1>2, <1>3, <1>4 DEF Reserved, NoReserve, TornReserve
<1>8. Calls' <= CallLimit
  <2>1. IsFiniteSet(Reserved)
    BY FS_Subset, LimitsAssumption DEF Reserved
  <2>2. Cardinality(Reserved \cup {a}) = Cardinality(Reserved) + 1 /\ Cardinality(Reserved) \in Nat
    BY <1>7, <2>1, FS_AddElement, FS_CardinalityType
  <2> QED BY <1>2, <1>7, <2>2, LimitsAssumption DEF Calls
<1>9. Unresolved' \subseteq {a}
  BY <1>1, <1>2, <1>7 DEF Unresolved, Accounted
<1>10. \A b \in Attempts : BillInv(b)'
  BY <1>1, <1>3 DEF BudgetInv, BillInv, Accounted
<1>11. BilledAsReserved' => BilledAsReserved
  BY <1>1 DEF BilledAsReserved
<1>12. ViewInv(p)'
  BY <1>1, <1>2, <1>3, <1>6 DEF ViewInv, AfterSend, ReconcileSteps
<1>13. \A q \in Processes \ {p} : ViewInv(q)'
  BY <1>1, OthersKeepView, OneUnderTheLock DEF Step, Request, LockedSteps, ReserveSteps
<1> QED BY <1>6, <1>8, <1>9, <1>10, <1>11, <1>12, <1>13 DEF BudgetInv

(* The reservation is filled with what was found to fit.                   *)
LEMMA ReserveWriteKeepsBudget ==
    ASSUME TypeOK, CampaignInv, BudgetInv, NEW p \in Processes, ReserveWrite(p),
           ~WriteFails(p, "reserve_write", "unwind")
    PROVE  BudgetInv'
<1> DEFINE a == attempt[p]
<1>1. /\ pc[p] = "reserve_write" /\ pc' = [pc EXCEPT ![p] = "reserve_unlock"]
      /\ reserved' = [reserved EXCEPT ![a] = Reserve(UpperOf[a])]
      /\ UNCHANGED <<done, sends, cost, attempt, result>>
  BY DEF ReserveWrite, Goto, PutReserve, bill
<1>2. /\ a \in Attempts /\ reserved[a] = TornReserve /\ UpperOf[a] \in Nat
      /\ Charged + UpperOf[a] <= TokenLimit /\ pc'[p] = "reserve_unlock"
  BY <1>1, CampaignAssumption DEF BudgetInv, ViewInv, TypeOK
<1>3. /\ reserved'[a] = Reserve(UpperOf[a])
      /\ \A b \in Attempts \ {a} : reserved'[b] = reserved[b]
  BY <1>1, <1>2 DEF TypeOK, LedgerTypeOK
<1>4. done[a] = NoDone
  BY <1>1 DEF CampaignInv, OwnerInv, BeforeSend, ReserveSteps
<1>5. /\ Charges[a] = 0 /\ Charges'[a] = UpperOf[a]
      /\ \A b \in Attempts \ {a} : Charges'[b] = Charges[b]
  BY <1>1, <1>2, <1>3, <1>4
     DEF Charges, Charge, Accounted, NoDone, TornReserve, Reserve
<1>6. Charged' = Charged + UpperOf[a]
  <2>1. ChargedIsSum'
    BY ChargedForm, PTL
  <2>2. /\ Charges \in [Attempts -> Nat] /\ Charged = SumOf(Charges, Attempts)
        /\ Charged \in Nat /\ \A b \in Attempts : Charges'[b] \in Nat
    BY <1>2, <1>5, ChargesAreNumbers
  <2>3. SumOf(Charges', Attempts) + Charges[a] = SumOf(Charges, Attempts) + Charges'[a]
    BY <1>2, <1>5, <2>2, LimitsAssumption, SumOfChange
  <2>4. SumOf(Charges', Attempts) \in Nat
    BY <2>2, LimitsAssumption, SumOfNumbers
  <2> QED BY <1>2, <1>5, <2>1, <2>2, <2>3, <2>4 DEF ChargedIsSum
<1>7. Reserved' = Reserved /\ Unresolved' = Unresolved /\ Calls' = Calls
  <2>1. \A b \in Attempts : reserved'[b].state # "absent" <=> reserved[b].state # "absent"
    <3> TAKE b \in Attempts
    <3>1. CASE b = a
      BY <1>2, <1>3, <3>1 DEF TornReserve, Reserve
    <3>2. CASE b # a
      BY <1>3, <3>2
    <3> QED BY <3>1, <3>2
  <2>2. Reserved' = Reserved
    BY <2>1 DEF Reserved
  <2> QED BY <1>1, <2>2 DEF Unresolved, Accounted, Calls, Reserved
<1>8. \A b \in Attempts : BillInv(b)'
  BY <1>1, <1>3 DEF BudgetInv, BillInv, Accounted
<1>9. ViewInv(p)'
  BY <1>2 DEF ViewInv, AfterSend, ReconcileSteps
<1>10. \A q \in Processes \ {p} : ViewInv(q)'
  BY <1>1, OthersKeepView, OneUnderTheLock DEF Step, Request, LockedSteps, ReserveSteps
<1> QED BY <1>2, <1>6, <1>7, <1>8, <1>9, <1>10 DEF BudgetInv

(* The request is billed once, and only its owner is waiting for the bill. *)
LEMMA InvokeKeepsBudget ==
    ASSUME TypeOK, CampaignInv, BudgetInv, NEW p \in Processes, Invoke(p)
    PROVE  BudgetInv'
<1> DEFINE a == attempt[p]
<1>1. PICK c \in Costs : cost' = [cost EXCEPT ![a] = @ + c]
  BY DEF Invoke
<1>2. /\ pc[p] = "invoke" /\ pc' = [pc EXCEPT ![p] = "await"]
      /\ sends' = [sends EXCEPT ![a] = @ + 1]
      /\ UNCHANGED <<reserved, done, attempt, result>>
  BY DEF Invoke, Goto, ledger
<1>3. /\ a \in Attempts /\ done[a] = NoDone /\ pc'[p] = "await" /\ c \in Nat
      /\ sends[a] \in Nat /\ cost[a] \in Nat
  BY <1>2, CampaignAssumption DEF CampaignInv, OwnerInv, BeforeSend, TypeOK
<1>4. /\ sends'[a] = sends[a] + 1 /\ cost'[a] = cost[a] + c
      /\ \A b \in Attempts \ {a} : sends'[b] = sends[b] /\ cost'[b] = cost[b]
  BY <1>1, <1>2, <1>3 DEF TypeOK
<1>5. Reserved' = Reserved /\ Unresolved' = Unresolved /\ Calls' = Calls /\ Charges' = Charges
  BY <1>2 DEF Reserved, Unresolved, Accounted, Calls, Charges, Charge
<1>6. Charged' = Charged
  <2>1. ChargedIsSum /\ ChargedIsSum'
    BY ChargedForm, PTL
  <2> QED BY <1>5, <2>1 DEF ChargedIsSum
<1>7. \A b \in Attempts : BillInv(b)'
  BY <1>2, <1>3, <1>4 DEF BudgetInv, BillInv, Accounted, NoDone
<1>8. BilledAsReserved' => BilledAsReserved
  <2> SUFFICES ASSUME BilledAsReserved', NEW b \in Attempts PROVE cost[b] <= UpperOf[b]
    BY DEF BilledAsReserved
  <2>1. cost'[b] <= UpperOf[b] /\ UpperOf[b] \in Nat
    BY CampaignAssumption DEF BilledAsReserved
  <2> QED BY <1>3, <1>4, <2>1
<1>9. ViewInv(p)'
  BY <1>3 DEF ViewInv
<1>10. \A q \in Processes \ {p} : ViewInv(q)'
  <2> TAKE q \in Processes \ {p}
  <2>1. pc'[q] = pc[q] /\ attempt[q] \in Attempts
    BY OthersStay DEF Step, TypeOK
  <2>2. ViewInv(q) /\ (pc[q] \in Reported => attempt[q] # a)
    BY <1>2 DEF BudgetInv, CampaignInv, OwnersAreUnique, OwnSteps, BeforeSend, Reported
  <2>3. pc[q] \in Reported => cost'[attempt[q]] = cost[attempt[q]]
    BY <1>4, <2>1, <2>2
  <2>4. Known(attempt[q])' = Known(attempt[q])
    BY <1>2 DEF Known
  <2> QED BY <1>2, <1>5, <1>6, <2>1, <2>2, <2>3, <2>4 DEF ViewInv, Reported
<1> QED BY <1>5, <1>6, <1>7, <1>8, <1>9, <1>10 DEF BudgetInv

(* A torn account accounts for nothing.                                    *)
LEMMA DoneOpenKeepsBudget ==
    ASSUME TypeOK, CampaignInv, BudgetInv, NEW p \in Processes, DoneOpen(p),
           ~WriteFails(p, "done_open", "unwind")
    PROVE  BudgetInv'
<1> DEFINE a == attempt[p]
<1>1. /\ pc[p] = "done_open" /\ pc' = [pc EXCEPT ![p] = "done_write"]
      /\ done' = [done EXCEPT ![a] = TornDone]
      /\ UNCHANGED <<reserved, sends, cost, attempt, result>>
  BY DEF DoneOpen, Goto, PutDone, bill
<1>2. a \in Attempts /\ done[a] = NoDone /\ pc'[p] = "done_write"
  BY <1>1 DEF CampaignInv, OwnerInv, TypeOK
<1>3. done'[a] = TornDone /\ \A b \in Attempts \ {a} : done'[b] = done[b]
  BY <1>1, <1>2 DEF TypeOK, LedgerTypeOK
<1>4. \A b \in Attempts : /\ Accounted(b)' <=> Accounted(b)
                          /\ Accounted(b) => done'[b] = done[b]
  BY <1>2, <1>3 DEF Accounted, NoDone, TornDone
<1>5. Reserved' = Reserved /\ Unresolved' = Unresolved /\ Calls' = Calls
  <2>1. Reserved' = Reserved
    BY <1>1 DEF Reserved
  <2> QED BY <1>4, <2>1 DEF Reserved, Unresolved, Calls
<1>6. Charges' = Charges
  <2>1. \A b \in Attempts : Charge(b)' = Charge(b)
    BY <1>1, <1>4 DEF Charge
  <2> QED BY <2>1 DEF Charges
<1>7. Charged' = Charged
  <2>1. ChargedIsSum /\ ChargedIsSum'
    BY ChargedForm, PTL
  <2> QED BY <1>6, <2>1 DEF ChargedIsSum
<1>8. \A b \in Attempts : BillInv(b)'
  BY <1>1, <1>4 DEF BudgetInv, BillInv
<1>9. BilledAsReserved' => BilledAsReserved
  BY <1>1 DEF BilledAsReserved
<1>10. ViewInv(p)'
  <2>1. result[p].usage \in Usages(cost[a])
    BY <1>1 DEF BudgetInv, ViewInv, AfterSend, ReconcileSteps
  <2> QED BY <1>1, <1>2, <2>1 DEF ViewInv
<1>11. \A q \in Processes \ {p} : ViewInv(q)'
  BY <1>1, OthersKeepView, OneUnderTheLock DEF Step, Settle, LockedSteps, ReconcileSteps
<1> QED BY <1>5, <1>7, <1>8, <1>9, <1>10, <1>11 DEF BudgetInv

(* Of the reports a provider may make, the one that adds up is the bill.   *)
LEMMA AccountIsBill ==
    ASSUME NEW c \in Nat, NEW usage \in Usages(c), NEW upper,
           DoneOf(usage, upper).actual # Missing
    PROVE  DoneOf(usage, upper).actual = c
<1>1. Consistent(usage) /\ DoneOf(usage, upper).actual = usage.total
  BY DEF DoneOf, Done
<1>2. CASE usage = NoUsage
  BY <1>1, <1>2 DEF NoUsage, Consistent, Numbers
<1>3. CASE usage # NoUsage
  BY <1>1, <1>3 DEF Usages
<1> QED BY <1>2, <1>3

(* The account takes the place of the reservation.                         *)
LEMMA DoneWriteKeepsBudget ==
    ASSUME TypeOK, CampaignInv, BudgetInv, NEW p \in Processes, DoneWrite(p),
           ~WriteFails(p, "done_write", "unwind")
    PROVE  BudgetInv'
<1> DEFINE a == attempt[p]
           d == DoneOf(result[p].usage, UpperOf[a])
<1>1. /\ pc[p] = "done_write" /\ pc' = [pc EXCEPT ![p] = "done_unlock"]
      /\ done' = [done EXCEPT ![a] = d]
      /\ UNCHANGED <<reserved, sends, cost, attempt, result>>
  BY DEF DoneWrite, Goto, PutDone, bill
<1>2. /\ a \in Attempts /\ done[a] = TornDone /\ reserved[a] = Reserve(UpperOf[a])
      /\ pc'[p] = "done_unlock" /\ cost[a] \in Nat /\ sends[a] = 1 /\ UpperOf[a] \in Nat
      /\ result[p].usage \in Usages(cost[a])
  BY <1>1, CampaignAssumption DEF CampaignInv, OwnerInv, TypeOK, BudgetInv, ViewInv, AfterSend,
                                  ReconcileSteps
<1> HIDE DEF d
<1>3. done'[a] = d /\ \A b \in Attempts \ {a} : done'[b] = done[b]
  BY <1>1, <1>2 DEF TypeOK, LedgerTypeOK
<1>4. /\ ~Accounted(a) /\ (Accounted(a)' => done'[a].actual = cost[a])
      /\ \A b \in Attempts \ {a} : /\ Accounted(b)' <=> Accounted(b)
                                   /\ Charge(b)' = Charge(b)
  <2>1. d.actual # Missing => d.actual = cost[a]
    BY <1>2, AccountIsBill DEF d
  <2> QED BY <1>1, <1>2, <1>3, <2>1 DEF Accounted, Charge, TornDone
<1>5. Reserved' = Reserved /\ Unresolved' \subseteq Unresolved /\ Calls' = Calls
  <2>1. Reserved' = Reserved
    BY <1>1 DEF Reserved
  <2> QED BY <1>4, <2>1 DEF Reserved, Unresolved, Calls
<1>6. \A b \in Attempts : BillInv(b)'
  <2>1. \A b \in Attempts \ {a} : done'[b] = done[b] /\ (Accounted(b)' <=> Accounted(b))
    BY <1>3, <1>4
  <2> QED BY <1>1, <1>4, <2>1 DEF BudgetInv, BillInv
<1>7. ASSUME BilledAsReserved' PROVE Charged' <= TokenLimit
  <2>1. BilledAsReserved /\ cost[a] <= UpperOf[a]
    BY <1>1, <1>2, <1>7 DEF BilledAsReserved
  <2>2. Charges \in [Attempts -> Nat] /\ Charged = SumOf(Charges, Attempts) /\ Charged \in Nat
    BY ChargesAreNumbers
  <2>3. \A b \in Attempts : b = a => Charge(b)' \in Nat /\ Charge(b)' <= Charge(b)
    BY <1>1, <1>2, <1>4, <2>1 DEF Charge, Reserve
  <2>4. \A b \in Attempts : /\ Charges[b] \in Nat /\ Charges'[b] \in Nat
                            /\ Charges'[b] <= Charges[b]
    <3> TAKE b \in Attempts
    <3>1. Charges[b] = Charge(b) /\ Charges'[b] = Charge(b)' /\ Charges[b] \in Nat
      BY <2>2 DEF Charges
    <3>2. CASE b = a
      BY <2>3, <3>1, <3>2
    <3>3. CASE b # a
      <4>1. Charge(b)' = Charge(b)
        BY <1>4, <3>3
      <4> QED BY <3>1, <4>1
    <3> QED BY <3>2, <3>3
  <2>5. SumOf(Charges', Attempts) <= SumOf(Charges, Attempts)
        /\ SumOf(Charges', Attempts) \in Nat
    BY <2>4, LimitsAssumption, SumIsMonotone, SumOfNumbers
  <2>6. ChargedIsSum'
    BY ChargedForm, PTL
  <2>7. Charged <= TokenLimit
    BY <2>1 DEF BudgetInv
  <2> QED BY <2>2, <2>5, <2>6, <2>7, LimitsAssumption DEF ChargedIsSum
<1>8. ViewInv(p)'
  BY <1>1, <1>2 DEF ViewInv
<1>9. \A q \in Processes \ {p} : ViewInv(q)'
  BY <1>1, OthersKeepView, OneUnderTheLock DEF Step, Settle, LockedSteps, ReconcileSteps
<1> QED BY <1>5, <1>6, <1>7, <1>8, <1>9 DEF BudgetInv

LEMMA BudgetInit == Init => BudgetInv
<1> SUFFICES ASSUME Init PROVE BudgetInv
  OBVIOUS
<1>1. /\ reserved = [a \in Attempts |-> NoReserve] /\ done = [a \in Attempts |-> NoDone]
      /\ cost = [a \in Attempts |-> 0] /\ \A p \in Processes : pc[p] = "unborn"
  BY DEF Init, LedgerInit
<1>2. Reserved = {}
  BY <1>1 DEF Reserved, NoReserve
<1>3. Unresolved = {} /\ Calls = 0
  BY <1>2, FS_EmptySet DEF Unresolved, Calls
<1>4. \A a \in Attempts : BillInv(a)
  BY <1>1 DEF BillInv, Accounted, NoDone
<1>5. \A p \in Processes : ViewInv(p)
  BY <1>1 DEF ViewInv, AfterSend, ReconcileSteps
<1>6. Charged = 0
  <2>1. \A a \in Attempts : Charges[a] = 0
    BY <1>1 DEF Charges, Charge, Accounted, NoDone, NoReserve
  <2>2. SumOf(Charges, Attempts) = SumOf(Charges, {})
    BY <2>1, LimitsAssumption, SumOfSupport
  <2> QED BY <2>2, ChargedForm, SumOfNone DEF ChargedIsSum
<1> QED BY <1>3, <1>4, <1>5, <1>6, LimitsAssumption DEF BudgetInv

LEMMA BudgetStep == TypeOK /\ CampaignInv /\ BudgetInv /\ [Next]_vars => BudgetInv'
<1> SUFFICES ASSUME TypeOK, CampaignInv, BudgetInv, [Next]_vars PROVE BudgetInv'
  OBVIOUS
<1>1. CASE UNCHANGED vars
  <2>1. UNCHANGED Books /\ UNCHANGED <<reserved, pc, attempt, result, cost>>
    BY <1>1 DEF vars, ledger, bill, Books
  <2>2. \A p \in Processes : ViewInv(p)'
    <3> TAKE p \in Processes
    <3>1. ViewInv(p) /\ attempt[p] \in Attempts
      BY DEF BudgetInv, TypeOK
    <3> QED BY <2>1, <3>1, SameBooks DEF ViewInv
  <2> QED BY <2>1, <2>2, SameBooks DEF BudgetInv
<1>2. ASSUME NEW p \in Processes, Step(p) \/ Kill(p) PROVE BudgetInv'
  BY <1>2, OtherStepsKeepBudget, ReserveOpenKeepsBudget, ReserveWriteKeepsBudget,
     InvokeKeepsBudget, DoneOpenKeepsBudget, DoneWriteKeepsBudget
<1> QED BY <1>1, <1>2 DEF Next

LEMMA BudgetHolds == Spec => []BudgetInv
BY BudgetInit, BudgetStep, CampaignInvariant, PTL DEF Spec

(* At no time are two requests that were sent without an account: the next *)
(* reservation waits until the last one is settled, whatever was killed or *)
(* could not be written in between.                                        *)
THEOREM UnresolvedIsUnique == Spec => []OneUnresolved
<1>1. BudgetInv => OneUnresolved
  BY DEF BudgetInv, OneUnresolved
<1> QED BY <1>1, BudgetHolds, PTL

(* The campaign makes no more requests than it may, and uses no more       *)
(* tokens, as long as the provider bills no request above its reservation. *)
THEOREM CampaignStaysWithinLimits == Spec => []WithinLimits
<1>1. TypeOK /\ CampaignInv /\ BudgetInv => WithinLimits
  <2> SUFFICES ASSUME TypeOK, CampaignInv, BudgetInv, BilledAsReserved
               PROVE  SumOf(cost, Attempts) <= TokenLimit
    BY CostForm DEF WithinLimits, BudgetInv, BilledAsReserved
  <2>1. Charges \in [Attempts -> Nat] /\ Charged = SumOf(Charges, Attempts) /\ Charged \in Nat
    BY ChargesAreNumbers
  <2>2. \A a \in Attempts : cost[a] \in Nat /\ cost[a] <= Charges[a]
    <3> TAKE a \in Attempts
    <3>1. /\ BillInv(a) /\ AttemptInv(a) /\ cost[a] \in Nat /\ sends[a] \in Nat
          /\ cost[a] <= UpperOf[a] /\ Charges[a] = Charge(a) /\ Charge(a) \in Nat
      BY <2>1 DEF BudgetInv, CampaignInv, TypeOK, BilledAsReserved, Charges
    <3>2. CASE sends[a] = 0
      BY <3>1, <3>2 DEF BillInv
    <3>3. CASE Accounted(a)
      BY <3>1, <3>3 DEF BillInv, Charge
    <3>4. CASE sends[a] # 0 /\ ~Accounted(a)
      BY <3>1, <3>4 DEF AttemptInv, Charge, Reserve
    <3> QED BY <3>2, <3>3, <3>4
  <2>3. SumOf(cost, Attempts) <= SumOf(Charges, Attempts) /\ SumOf(cost, Attempts) \in Nat
    BY <2>1, <2>2, LimitsAssumption, SumIsMonotone, SumOfNumbers
  <2>4. Charged <= TokenLimit
    BY DEF BudgetInv
  <2> QED BY <2>1, <2>3, <2>4, LimitsAssumption
<1> QED BY <1>1, CampaignInvariant, BudgetHolds, PTL

----------------------------------------------------------------------------
(* Refinement                                                              *)

(* All but four steps leave what a call state is made of alone.            *)
Quiet == UNCHANGED <<dirs, sends, done>>

(* Which steps those are.                                                  *)
LEMMA OtherStepsAreQuiet ==
    ASSUME NEW p \in Processes, Step(p) \/ Kill(p),
           ~MakeDirectory(p), ~Invoke(p), ~DoneOpen(p), ~DoneWrite(p)
    PROVE  Quiet
<1> USE DEF Quiet, Pass, Goto, WriteFails, Throw, Save, PutHalt, Unlock, Returns,
           TakeLock, ReleaseLock, PutReserve, ledger, evidence, bill
<1>1. CASE Start(p) \/ CheckHalt(p) \/ CheckLedger(p) \/ SaveRequest(p) \/ ReserveLock(p)
           \/ ReserveCheck(p) \/ ReserveOpen(p) \/ ReserveWrite(p)
  BY <1>1 DEF Start, CheckHalt, CheckLedger, SaveRequest, ReserveLock, ReserveCheck,
              ReserveOpen, ReserveWrite
<1>2. CASE ReserveUnlock(p) \/ Unwind(p) \/ Return(p) \/ ReconcileLock(p) \/ DoneUnlock(p)
  BY <1>2 DEF ReserveUnlock, Unwind, Return, ReconcileLock, DoneUnlock
<1>3. CASE Account(p) \/ SaveRaw(p) \/ SaveRecord(p) \/ Finish(p) \/ Mark(p) \/ Kill(p)
  BY <1>3 DEF Account, SaveRaw, SaveRecord, Finish, Mark, Kill
<1> QED BY <1>1, <1>2, <1>3 DEF Step, Request, Settle

(* How far a call has come, read off the directory, the bill and the .done *)
(* file.                                                                   *)
LEMMA CallStateOfForms ==
    /\ \A record : CallState(FALSE, 0, record) = "idle" /\ CallState(TRUE, 0, record) = "latched"
    /\ \A isMade, record :
          /\ record.state # "saved" => CallState(isMade, 1, record) = "sent"
          /\ record.state = "saved" => CallState(isMade, 1, record) = "settled"
BY DEF CallState

(* The campaign implements the one-shot call: making the directory latches,*)
(* client.invoke sends, the complete .done file settles, and every other   *)
(* step of every process, a kill included, is a stutter.                   *)
THEOREM CampaignImplementsOneShotCall == Spec => ImplementsOneShotCall
<1>1. Init => Paid!Init
  <2> SUFFICES ASSUME Init PROVE \A a \in Attempts : CallStates[a] = "idle"
    BY DEF Paid!Init, CallStates
  <2>1. ASSUME NEW a \in Attempts PROVE (a \in dirs) = FALSE /\ sends[a] = 0
    BY DEF Init
  <2> QED BY <2>1, CallStateOfForms DEF CallStates
<1>2. TypeOK /\ CampaignInv /\ [Next]_vars => [Paid!Next]_CallStates
  <2> SUFFICES ASSUME TypeOK, CampaignInv, [Next]_vars PROVE [Paid!Next]_CallStates
    OBVIOUS
  <2>1. CASE UNCHANGED vars
    BY <2>1 DEF vars, ledger, evidence, bill, CallStates
  <2>2. ASSUME NEW p \in Processes, Step(p) \/ Kill(p) PROVE [Paid!Next]_CallStates
    <3> DEFINE a == attempt[p]
    <3>0. a \in Attempts /\ OwnerInv(p) /\ AttemptInv(a)
      BY DEF TypeOK, CampaignInv
    <3>1. CallStates' = [b \in Attempts |-> CallState(b \in dirs', sends'[b], done'[b])]
      BY DEF CallStates
    <3>2. CASE Quiet
      BY <3>1, <3>2 DEF Quiet, CallStates
    <3>3. CASE MakeDirectory(p)
      <4>1. CASE ~Quiet
        <5>1. a \notin dirs /\ dirs' = dirs \cup {a} /\ UNCHANGED <<sends, done>>
          BY <3>3, <4>1 DEF MakeDirectory, Pass, WriteFails, Quiet, ledger, evidence, bill
        <5>2. sends[a] = 0
          BY <3>0, <5>1 DEF AttemptInv, TypeOK
        <5>3. CallStates[a] = "idle"
          <6>1. (a \in dirs) = FALSE
            BY <5>1
          <6> QED BY <3>0, <5>2, <6>1, CallStateOfForms DEF CallStates
        <5>4. \A b \in Attempts : CallState(b \in dirs', sends'[b], done'[b])
                  = IF b = a THEN "latched" ELSE CallState(b \in dirs, sends[b], done[b])
          <6>1. (a \in dirs') = TRUE
            BY <5>1
          <6>2. \A b \in Attempts \ {a} : (b \in dirs') = (b \in dirs)
            BY <5>1
          <6> QED BY <5>1, <5>2, <6>1, <6>2, CallStateOfForms
        <5>5. CallStates' = [CallStates EXCEPT ![a] = "latched"]
          BY <3>1, <5>4 DEF CallStates
        <5> QED BY <3>0, <5>3, <5>5 DEF Paid!Latch, Paid!Next
      <4> QED BY <4>1, <3>2
    <3>4. CASE Invoke(p)
      <4>1. /\ a \in dirs /\ sends[a] = 0 /\ done[a] = NoDone
            /\ sends' = [sends EXCEPT ![a] = 1] /\ UNCHANGED <<dirs, done>>
        BY <3>0, <3>4 DEF Invoke, Goto, OwnerInv, OwnSteps, BeforeSend, TypeOK,
                          ledger, evidence
      <4>2. CallStates[a] = "latched"
        BY <3>0, <4>1, CallStateOfForms DEF CallStates
      <4>3. \A b \in Attempts : CallState(b \in dirs', sends'[b], done'[b])
                = IF b = a THEN "sent" ELSE CallState(b \in dirs, sends[b], done[b])
        <5>1. sends'[a] = 1 /\ \A b \in Attempts \ {a} : sends'[b] = sends[b]
          BY <3>0, <4>1 DEF TypeOK
        <5>2. CallState(a \in dirs', 1, done'[a]) = "sent"
          BY <4>1, CallStateOfForms DEF NoDone
        <5> QED BY <4>1, <5>1, <5>2
      <4>4. CallStates' = [CallStates EXCEPT ![a] = "sent"]
        BY <3>1, <4>3 DEF CallStates
      <4> QED BY <3>0, <4>2, <4>4 DEF Paid!Send, Paid!Next
    <3>5. CASE DoneOpen(p)
      <4>1. CASE ~Quiet
        <5>1. /\ sends[a] = 1 /\ done[a] = NoDone
              /\ done' = [done EXCEPT ![a] = TornDone] /\ UNCHANGED <<dirs, sends>>
          BY <3>0, <3>5, <4>1 DEF DoneOpen, PutDone, WriteFails, Goto, Quiet, OwnerInv,
                          AfterSend, ReconcileSteps, ledger, evidence, bill
        <5>2. done'[a] = TornDone /\ \A b \in Attempts \ {a} : done'[b] = done[b]
          BY <3>0, <5>1 DEF TypeOK, LedgerTypeOK
        <5>3. CallState(a \in dirs, 1, NoDone) = "sent" /\ CallState(a \in dirs, 1, TornDone) = "sent"
          BY CallStateOfForms DEF NoDone, TornDone
        <5>4. \A b \in Attempts : CallState(b \in dirs', sends'[b], done'[b])
                  = CallState(b \in dirs, sends[b], done[b])
          BY <5>1, <5>2, <5>3
        <5> QED BY <3>1, <5>4 DEF CallStates
      <4> QED BY <4>1, <3>2
    <3>6. CASE DoneWrite(p)
      <4>1. CASE ~Quiet
        <5> DEFINE record == DoneOf(result[p].usage, UpperOf[a])
        <5>1. /\ sends[a] = 1 /\ done[a] = TornDone
              /\ done' = [done EXCEPT ![a] = record] /\ UNCHANGED <<dirs, sends>>
          BY <3>0, <3>6, <4>1 DEF DoneWrite, PutDone, WriteFails, Goto, Quiet, OwnerInv,
                          AfterSend, ReconcileSteps, ledger, evidence, bill
        <5>2. done'[a] = record /\ \A b \in Attempts \ {a} : done'[b] = done[b]
          BY <3>0, <5>1 DEF TypeOK, LedgerTypeOK
        <5>3. record.state = "saved"
          BY DEF DoneOf, Done
        <5>4. CallState(a \in dirs, 1, TornDone) = "sent" /\ CallState(a \in dirs, 1, record) = "settled"
          BY <5>3, CallStateOfForms DEF TornDone
        <5>5. CallStates[a] = "sent"
          BY <3>0, <5>1, <5>4 DEF CallStates
        <5>6. \A b \in Attempts : CallState(b \in dirs', sends'[b], done'[b])
                  = IF b = a THEN "settled" ELSE CallState(b \in dirs, sends[b], done[b])
          BY <5>1, <5>2, <5>4
        <5>7. CallStates' = [CallStates EXCEPT ![a] = "settled"]
          BY <3>1, <5>6 DEF CallStates
        <5> QED BY <3>0, <5>5, <5>7 DEF Paid!Settle, Paid!Next
      <4> QED BY <4>1, <3>2
    <3> QED BY <2>2, <3>2, <3>3, <3>4, <3>5, <3>6, OtherStepsAreQuiet
  <2> QED BY <2>1, <2>2 DEF Next
<1> QED BY <1>1, <1>2, CampaignInvariant, PTL DEF Spec, ImplementsOneShotCall, Paid!Spec
=============================================================================
