----------------------------- MODULE TokenBudget -----------------------------
(***************************************************************************)
(* The append-only token ledger of a paid campaign (class Budget of        *)
(* evaluation.cpp): one .reserve file per attempt, written before the      *)
(* request leaves, one .done file written after it, and a lock directory.  *)
(* The directory is all there is: every operation reads it afresh, and it  *)
(* survives the processes that use it.                                     *)
(*                                                                         *)
(* A file is created empty and filled by a later step; JSON that is torn   *)
(* makes every summary throw.  TokenLimit and CallLimit stand for the      *)
(* 300000 tokens and 38 calls of the code.                                 *)
(***************************************************************************)
EXTENDS Naturals, FiniteSets, FiniteSetsExt

CONSTANTS
    Attempts,       \* attempt ids
    TokenLimit,     \* tokens the campaign may use
    CallLimit,      \* requests the campaign may make
    Missing         \* a number the provider did not report

ASSUME LimitsAssumption ==
    /\ IsFiniteSet(Attempts)
    /\ TokenLimit \in Nat \ {0}
    /\ CallLimit \in Nat
    /\ Missing \notin Nat

VARIABLES
    reserved,       \* <attempt>.reserve: its state and the upper bound in it
    done,           \* <attempt>.done: its state, actual (or Missing), violation
    lock            \* whether the directory "lock" exists

ledger == <<reserved, done, lock>>

FileStates == {"absent", "torn", "saved"}

NoReserve == [state |-> "absent", upper |-> 0]
TornReserve == [state |-> "torn", upper |-> 0]
Reserve(upper) == [state |-> "saved", upper |-> upper]

NoDone == [state |-> "absent", actual |-> Missing, violation |-> FALSE]
TornDone == [state |-> "torn", actual |-> Missing, violation |-> FALSE]
Done(actual, violation) ==
    [state |-> "saved", actual |-> actual, violation |-> violation]

LedgerTypeOK ==
    /\ reserved \in [Attempts -> [state : FileStates, upper : Nat]]
    /\ done \in [Attempts -> [state : FileStates, actual : Nat \cup {Missing},
                              violation : BOOLEAN]]
    /\ lock \in BOOLEAN

LedgerInit ==
    /\ reserved = [a \in Attempts |-> NoReserve]
    /\ done = [a \in Attempts |-> NoDone]
    /\ lock = FALSE

----------------------------------------------------------------------------
(* summary()                                                               *)

Known(a) == reserved[a].state # "absent" \/ done[a].state # "absent"

(* The attempts a summary counts.                                          *)
Reserved == {a \in Attempts : reserved[a].state # "absent"}

Accounted(a) == done[a].state = "saved" /\ done[a].actual # Missing

Unresolved == {a \in Reserved : ~Accounted(a)}

(* load() parses what it opens: the .done of a reserved attempt, too.      *)
Readable == \A a \in Reserved : reserved[a].state = "saved" /\ done[a].state # "torn"

Calls == Cardinality(Reserved)

Spent == MapThenSumSet(LAMBDA a : done[a].actual, Reserved \ Unresolved)

UnknownReserved == MapThenSumSet(LAMBDA a : reserved[a].upper, Unresolved)

Over == \E a \in Reserved :
            \/ done[a].state = "saved" /\ done[a].violation
            \/ Accounted(a) /\ done[a].actual > reserved[a].upper

Remaining ==
    IF Spent + UnknownReserved <= TokenLimit
    THEN TokenLimit - (Spent + UnknownReserved) ELSE 0

Halted == Over \/ UnknownReserved > 0 \/ Spent + UnknownReserved > TokenLimit

(* reserve() refuses what is new only if all of this holds; the sum of the *)
(* whole batch must fit in requireBatchCapacity().                         *)
MayReserve(a, upper) ==
    /\ ~Halted
    /\ Calls < CallLimit
    /\ upper > 0 /\ upper <= Remaining
    /\ ~Known(a)

BatchFits(batch, upperOf) ==
    /\ ~Halted
    /\ Calls + Cardinality(batch) <= CallLimit
    /\ \A a \in batch : ~Known(a) /\ upperOf[a] > 0
    /\ MapThenSumSet(LAMBDA a : upperOf[a], batch) <= Remaining

----------------------------------------------------------------------------
(* reconcile(): what a report of usage is worth                            *)

Numbers(usage) == {usage.prompt, usage.completion, usage.total}

(* All three numbers, in range, and they add up.                           *)
Consistent(usage) ==
    /\ Missing \notin Numbers(usage)
    /\ usage.prompt <= TokenLimit /\ usage.completion <= TokenLimit
    /\ usage.total = usage.prompt + usage.completion

Exceeds(usage, upper) == \E n \in Numbers(usage) \ {Missing} : n > upper

DoneOf(usage, upper) ==
    Done(IF Consistent(usage) THEN usage.total ELSE Missing, Exceeds(usage, upper))

----------------------------------------------------------------------------
(* The steps on the directory                                              *)

(* create_directory succeeds for one process; the destructor removes it.   *)
TakeLock == ~lock /\ lock' = TRUE /\ UNCHANGED <<reserved, done>>

ReleaseLock == lock' = FALSE /\ UNCHANGED <<reserved, done>>

PutReserve(a, file) ==
    reserved' = [reserved EXCEPT ![a] = file] /\ UNCHANGED <<done, lock>>

PutDone(a, file) ==
    done' = [done EXCEPT ![a] = file] /\ UNCHANGED <<reserved, lock>>
============================================================================
