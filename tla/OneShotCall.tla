---------------------------- MODULE OneShotCall ----------------------------
(***************************************************************************)
(* What every paid entry point of hy3-algotrace promises about a billable  *)
(* key (a trace of a run, an interactive request id, an evaluation         *)
(* attempt), whatever files it uses to keep the promise:                   *)
(*                                                                         *)
(*   - a durable latch is taken before the request leaves the machine;     *)
(*   - the request leaves at most once, and only under the latch;          *)
(*   - the record of the call is written at most once and then never       *)
(*     changes; a key whose caller died stays latched and is not reused.   *)
(*                                                                         *)
(* EvaluationRun implements this specification (see Audited there), and so *)
(* does InteractiveDiagnosis.                                              *)
(***************************************************************************)

CONSTANT Keys       \* what a call is billed for

VARIABLE call       \* call[k]: how far the only call for k has come

States == {"idle", "latched", "sent", "settled"}

Init == call = [k \in Keys |-> "idle"]

(* The latch: a model-calls sidecar, or a one-shot directory.              *)
Latch(k) == call[k] = "idle" /\ call' = [call EXCEPT ![k] = "latched"]

(* The request is on the wire and will be billed.                          *)
Send(k) == call[k] = "latched" /\ call' = [call EXCEPT ![k] = "sent"]

(* The durable record reaches its final form.                              *)
Settle(k) == call[k] = "sent" /\ call' = [call EXCEPT ![k] = "settled"]

Next == \E k \in Keys : Latch(k) \/ Send(k) \/ Settle(k)

Spec == Init /\ [][Next]_call

TypeOK == call \in [Keys -> States]
=============================================================================
