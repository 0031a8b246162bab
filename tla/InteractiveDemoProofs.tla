----------------------- MODULE InteractiveDemoProofs -----------------------
(***************************************************************************)
(* Proof that the pages are truthful, for every number of pages,           *)
(* submissions and servers, and every bound on faults.                     *)
(***************************************************************************)
EXTENDS InteractiveDemo, InteractiveDiagnosisProofs

(* Behind its pages the demo is a behaviour of InteractiveDiagnosis.       *)
LEMMA StepsOfTheServers == DemoInit => Init
BY DEF DemoInit

LEMMA DemoSteps == [DemoNext]_demoVars => [Next]_vars
<1> SUFFICES ASSUME [DemoNext]_demoVars PROVE [Next]_vars
  OBVIOUS
<1>1. CASE UNCHANGED demoVars
  BY <1>1 DEF demoVars
<1>2. ASSUME NEW x \in Exchanges, PageStep(x) PROVE UNCHANGED vars
  BY <1>2 DEF PageStep, Submit, Headers, Body, BodyFails, FetchFails, Abort, ShowError, Show
<1>3. ASSUME NEW x \in Exchanges, Arrive(x) \/ ServerStep(x) PROVE Next
  BY <1>3 DEF Arrive, ServerStep, Next
<1>4. ASSUME NEW p \in Pages, Clear(p) PROVE UNCHANGED vars
  BY <1>4 DEF Clear
<1>5. ASSUME NEW s \in Servers, Restart(s) PROVE Next
  BY <1>5 DEF Next
<1> QED BY <1>1, <1>2, <1>3, <1>4, <1>5 DEF DemoNext

LEMMA DemoIsInteractive == DemoSpec => Spec
BY StepsOfTheServers, DemoSteps, PTL DEF DemoSpec, Spec

(* "busy" and "validation_error" are only said of what was turned away.    *)
LEMMA KindsOfErrors ==
    ASSUME NEW x \in Exchanges
    PROVE  /\ KindOf(x) \in ErrorKinds
           /\ KindOf(x) \in {"busy", "validation_error"} => Refused(x)
BY DEF KindOf, ErrorKinds, Refused

(* A page shows something: only the page whose handler waited changes.     *)
LEMMA ShowIsSafe ==
    ASSUME DemoInv, NEW x \in Exchanges, Waiting(x),
           NEW shown \in {"result"} \cup ErrorKinds, NEW json,
           Show(x, shown, json),
           shown = "result" => json = x /\ reply[x].status = 200 /\ pc[x] = "done",
           shown # "result" => json = None,
           shown \in {"busy", "validation_error"} => pc[x] = "done" /\ Refused(x)
    PROVE  DemoInv'
<1> DEFINE p == page[x]
<1>0. /\ p \in Pages /\ submitted[p] = x /\ x # None /\ UNCHANGED vars
      /\ handler' = [handler EXCEPT ![x] = "over"]
      /\ view' = [view EXCEPT ![p] = shown]
      /\ lastJson' = [lastJson EXCEPT ![p] = json]
      /\ calling' = [calling EXCEPT ![p] = FALSE]
      /\ submitted' = submitted /\ page' = page
  BY DemoAssumption DEF Show, DemoInv, DemoTypeOK, HandlerInv
<1>1. DemoTypeOK'
  BY <1>0 DEF DemoInv, DemoTypeOK, Handlers
<1>2. FreshIds'
  BY <1>0 DEF DemoInv, FreshIds, vars
<1>3. ASSUME NEW y \in Exchanges PROVE UnbilledInv(y)' /\ HandlerInv(y)'
  <2>1. UnbilledInv(y)'
    BY <1>0 DEF DemoInv, UnbilledInv, Refused, vars
  <2>2. CASE y = x
    BY <1>0, <2>1, <2>2 DEF HandlerInv, Waiting, DemoInv, DemoTypeOK
  <2>3. CASE y # x
    <3>1. handler'[y] = handler[y] /\ page'[y] = page[y] /\ pc'[y] = pc[y]
      BY <1>0, <2>3 DEF DemoInv, DemoTypeOK, vars
    <3>2. Waiting(y) => page[y] # p
      BY <1>0, <2>3 DEF DemoInv, HandlerInv
    <3>3. page[y] \in Pages
      BY DEF DemoInv, DemoTypeOK
    <3> QED BY <1>0, <2>1, <3>1, <3>2, <3>3 DEF DemoInv, DemoTypeOK, HandlerInv, Waiting
  <2> QED BY <2>1, <2>2, <2>3
<1>4. ASSUME NEW q \in Pages PROVE ViewInv(q)'
  <2>1. CASE q = p
    BY <1>0, <2>1 DEF ViewInv, DemoInv, DemoTypeOK, Refused, vars
  <2>2. CASE q # p
    BY <1>0, <2>2 DEF ViewInv, DemoInv, DemoTypeOK, Refused, vars
  <2> QED BY <2>1, <2>2
<1> QED BY <1>1, <1>2, <1>3, <1>4 DEF DemoInv

(* What the pages do.                                                      *)
LEMMA SubmitIsSafe ==
    ASSUME DemoInv, NEW x \in Exchanges, Submit(x)
    PROVE  DemoInv'
<1> DEFINE p == page[x]
<1>0. /\ p \in Pages /\ ~calling[p] /\ handler[x] = "unborn" /\ UNCHANGED vars
      /\ handler' = [handler EXCEPT ![x] = "fetching"]
      /\ submitted' = [submitted EXCEPT ![p] = x]
      /\ lastJson' = [lastJson EXCEPT ![p] = None]
      /\ calling' = [calling EXCEPT ![p] = TRUE]
      /\ view' = [view EXCEPT ![p] = "loading"]
      /\ page' = page
  BY DEF Submit, DemoInv, DemoTypeOK
<1>1. DemoTypeOK'
  BY <1>0 DEF DemoInv, DemoTypeOK, Handlers
<1>2. FreshIds'
  BY <1>0 DEF DemoInv, FreshIds, vars
<1>3. ASSUME NEW y \in Exchanges PROVE UnbilledInv(y)' /\ HandlerInv(y)'
  <2>1. UnbilledInv(y)'
    BY <1>0 DEF DemoInv, UnbilledInv, Refused, vars
  <2>2. CASE y = x
    BY <1>0, <2>1, <2>2 DEF HandlerInv, Waiting, DemoInv, DemoTypeOK
  <2>3. CASE y # x
    <3>1. handler'[y] = handler[y] /\ page'[y] = page[y] /\ pc'[y] = pc[y]
      BY <1>0, <2>3 DEF DemoInv, DemoTypeOK, vars
    <3>2. Waiting(y) => page[y] # p
      BY <1>0, <2>3 DEF DemoInv, HandlerInv
    <3>3. page[y] \in Pages
      BY DEF DemoInv, DemoTypeOK
    <3> QED BY <1>0, <2>1, <3>1, <3>2, <3>3 DEF DemoInv, DemoTypeOK, HandlerInv, Waiting
  <2> QED BY <2>1, <2>2, <2>3
<1>4. ASSUME NEW q \in Pages PROVE ViewInv(q)'
  <2>1. CASE q = p
    BY <1>0, <2>1 DEF ViewInv, DemoInv, DemoTypeOK, Refused, vars
  <2>2. CASE q # p
    BY <1>0, <2>2 DEF ViewInv, DemoInv, DemoTypeOK, Refused, vars
  <2> QED BY <2>1, <2>2
<1> QED BY <1>1, <1>2, <1>3, <1>4 DEF DemoInv

LEMMA PageStepIsSafe ==
    ASSUME DemoInv, NEW x \in Exchanges, PageStep(x)
    PROVE  DemoInv'
<1>1. CASE Submit(x)
  BY <1>1, SubmitIsSafe
<1>2. CASE Headers(x)
  <2>1. DemoTypeOK' /\ FreshIds'
    BY <1>2 DEF Headers, DemoInv, DemoTypeOK, Handlers, FreshIds, vars
  <2>2. ASSUME NEW y \in Exchanges PROVE UnbilledInv(y)' /\ HandlerInv(y)'
    BY <1>2 DEF Headers, DemoInv, DemoTypeOK, UnbilledInv, HandlerInv, Waiting, Refused, vars
  <2>3. ASSUME NEW q \in Pages PROVE ViewInv(q)'
    BY <1>2 DEF Headers, DemoInv, ViewInv, Refused, vars
  <2> QED BY <2>1, <2>2, <2>3 DEF DemoInv
<1>3. CASE Body(x)
  <2>1. Waiting(x) /\ pc[x] = "done"
    BY <1>3 DEF Body, Waiting, DemoInv, HandlerInv
  <2>2. CASE reply[x].status = 200
    <3>1. Show(x, "result", x)
      BY <1>3, <2>2 DEF Body
    <3> QED BY <2>1, <2>2, <3>1, ShowIsSafe
  <2>3. CASE reply[x].status # 200
    <3>1. Show(x, KindOf(x), None)
      BY <1>3, <2>3 DEF Body, ShowError
    <3>2. KindOf(x) # "result"
      BY KindsOfErrors DEF ErrorKinds
    <3> QED BY <2>1, <3>1, <3>2, KindsOfErrors, ShowIsSafe
  <2> QED BY <2>2, <2>3
<1>4. CASE BodyFails(x) \/ FetchFails(x) \/ Abort(x)
  <2>1. PICK kind \in {"invalid_model_response", "transport_error", "timeout"} :
            Show(x, kind, None)
    BY <1>4 DEF BodyFails, FetchFails, Abort, ShowError
  <2>2. Waiting(x)
    BY <1>4 DEF BodyFails, FetchFails, Abort, Waiting
  <2>3. kind \in ErrorKinds
    BY DEF ErrorKinds
  <2> QED BY <2>1, <2>2, <2>3, ShowIsSafe
<1> QED BY <1>1, <1>2, <1>3, <1>4 DEF PageStep

LEMMA ClearIsSafe ==
    ASSUME DemoInv, NEW p \in Pages, Clear(p)
    PROVE  DemoInv'
<1>1. DemoTypeOK' /\ FreshIds'
  BY DEF Clear, DemoInv, DemoTypeOK, FreshIds, vars
<1>2. ASSUME NEW y \in Exchanges PROVE UnbilledInv(y)' /\ HandlerInv(y)'
  <2>1. page[y] \in Pages /\ (Waiting(y) => page[y] # p)
    BY DEF Clear, DemoInv, DemoTypeOK, HandlerInv
  <2> QED BY <2>1 DEF Clear, DemoInv, DemoTypeOK, UnbilledInv, HandlerInv, Waiting, Refused, vars
<1>3. ASSUME NEW q \in Pages PROVE ViewInv(q)'
  BY DEF Clear, DemoInv, DemoTypeOK, ViewInv, Refused, vars
<1> QED BY <1>1, <1>2, <1>3 DEF DemoInv

(* What the servers do.  An exchange that is turned away was not called    *)
(* for; one that was let in is not turned away any more.                   *)
LEMMA TurnedAwayEarly ==
    ASSUME TypeOK, NEW x \in Exchanges, Receive(x) \/ Step(x)
    PROVE  /\ pc[x] # "done"
           /\ pc'[x] \in {"unborn", "flag", "make_directory"} \/ (pc'[x] = "done" /\ Refused(x)')
                 => pc[x] \in {"unborn", "flag"} /\ invoked' = invoked
<1> USE DEF TypeOK, Goto
<1>1. CASE Receive(x)
  BY <1>1 DEF Receive
<1>2. CASE TestAndSetFlag(x)
  BY <1>2, FlagForms
<1>3. CASE ClearFlag(x)
  <2>1. reply'[x].status = StatusFor(result[x]) /\ result'[x] = result[x] /\ pc[x] = "clear"
    BY <1>3 DEF ClearFlag, Answer
  <2>2. StatusFor(result[x]) # 400
    BY RepliesAreTyped
  <2>3. StatusFor(result[x]) = 429 => result[x].code # "none"
    BY DEF StatusFor
  <2>4. ~Refused(x)' /\ pc'[x] = "done"
    BY <1>3, <2>1, <2>2, <2>3 DEF Refused, ClearFlag
  <2> QED BY <2>1, <2>4
<1>4. CASE MakeDirectory(x) \/ WritePrompt(x) \/ PublishRecord(x)
  BY <1>4 DEF MakeDirectory, WritePrompt, PublishRecord, AbandonBeforeCall
<1>5. CASE Invoke(x) \/ Return(x)
  BY <1>5 DEF Invoke, Return, CallFails, CallSucceeds
<1>6. CASE WriteRaw(x) \/ WriteDiagnosis(x) \/ FinalizeRecord(x)
  BY <1>6 DEF WriteRaw, WriteDiagnosis, FinalizeRecord
<1> QED BY <1>1, <1>2, <1>3, <1>4, <1>5, <1>6 DEF Step

LEMMA ServerStepIsSafe ==
    ASSUME TypeOK, DemoInv, NEW x \in Exchanges, Receive(x) \/ Step(x), UNCHANGED pageVars
    PROVE  DemoInv'
<1>0. /\ pc[x] # "done" /\ id' = id /\ \A y \in Exchanges : id[y] \in Ids
      /\ \A y \in Exchanges \ {x} :
            pc'[y] = pc[y] /\ result'[y] = result[y] /\ reply'[y] = reply[y]
  BY TurnedAwayEarly, StepFrame DEF TypeOK
<1>1. DemoTypeOK' /\ FreshIds'
  BY <1>0 DEF DemoInv, DemoTypeOK, FreshIds, pageVars
<1>2. ASSUME NEW y \in Exchanges PROVE UnbilledInv(y)'
  <2>1. CASE y = x
    BY <1>0, <2>1, TurnedAwayEarly DEF DemoInv, UnbilledInv
  <2>2. CASE y # x
    <3>1. id[y] # id[x]
      BY <2>2 DEF DemoInv, FreshIds
    <3>2. invoked'[id[y]] = invoked[id[y]]
      BY <1>0, <3>1, StepFrame DEF Same
    <3> QED BY <1>0, <2>2, <3>2 DEF DemoInv, UnbilledInv, Refused
  <2> QED BY <2>1, <2>2
<1>3. ASSUME NEW y \in Exchanges PROVE HandlerInv(y)'
  BY <1>0 DEF DemoInv, HandlerInv, Waiting, pageVars
<1>4. ASSUME NEW p \in Pages PROVE ViewInv(p)'
  <2> DEFINE y == submitted[p]
  <2>1. y \in Exchanges \cup {None} /\ view' = view /\ lastJson' = lastJson /\ submitted' = submitted
    BY DEF DemoInv, DemoTypeOK, pageVars
  <2>2. CASE y # None /\ pc[y] = "done"
    <3>1. pc'[y] = pc[y] /\ result'[y] = result[y] /\ reply'[y] = reply[y]
      BY <1>0, <2>1, <2>2
    <3> QED BY <2>1, <2>2, <3>1 DEF DemoInv, ViewInv, Refused
  <2>3. CASE ~(y # None /\ pc[y] = "done")
    BY <2>1, <2>3 DEF DemoInv, ViewInv
  <2> QED BY <2>2, <2>3
<1> QED BY <1>1, <1>2, <1>3, <1>4 DEF DemoInv

LEMMA ServerRestartIsSafe ==
    ASSUME TypeOK, DemoInv, NEW s \in Servers, Restart(s), UNCHANGED pageVars
    PROVE  DemoInv'
<1>0. /\ UNCHANGED <<id, result, reply, invoked>>
      /\ \A y \in Exchanges : /\ pc'[y] \in {pc[y], "killed"}
                              /\ pc[y] = "done" => pc'[y] = "done"
  BY DEF Restart, Ended
<1>1. DemoTypeOK' /\ FreshIds'
  BY <1>0 DEF DemoInv, DemoTypeOK, FreshIds, pageVars
<1>2. ASSUME NEW y \in Exchanges PROVE UnbilledInv(y)' /\ HandlerInv(y)'
  BY <1>0 DEF DemoInv, UnbilledInv, HandlerInv, Waiting, Refused, pageVars
<1>3. ASSUME NEW p \in Pages PROVE ViewInv(p)'
  <2>1. submitted[p] \in Exchanges \cup {None}
    BY DEF DemoInv, DemoTypeOK
  <2> QED BY <1>0, <2>1 DEF DemoInv, ViewInv, Refused, pageVars
<1> QED BY <1>1, <1>2, <1>3 DEF DemoInv

(* Together                                                                *)
LEMMA DemoInvariant == DemoSpec => [](TypeOK /\ InteractiveInv /\ DemoInv)
<1>1. DemoInit => DemoInv
  <2> SUFFICES ASSUME DemoInit PROVE DemoInv
    OBVIOUS
  <2>1. DemoTypeOK /\ FreshIds
    BY DEF DemoInit, DemoTypeOK, Handlers
  <2>2. \A x \in Exchanges : UnbilledInv(x) /\ HandlerInv(x)
    BY DEF DemoInit, Init, UnbilledInv, HandlerInv, Waiting, TypeOK
  <2>3. \A p \in Pages : ViewInv(p)
    BY DEF DemoInit, ViewInv
  <2> QED BY <2>1, <2>2, <2>3 DEF DemoInv
<1>2. TypeOK /\ DemoInv /\ [DemoNext]_demoVars => DemoInv'
  <2> SUFFICES ASSUME TypeOK, DemoInv, [DemoNext]_demoVars PROVE DemoInv'
    OBVIOUS
  <2>1. CASE UNCHANGED demoVars
    BY <2>1 DEF demoVars, vars, pageVars, DemoInv, DemoTypeOK, FreshIds, UnbilledInv, HandlerInv,
                Waiting, ViewInv, Refused
  <2>2. ASSUME NEW x \in Exchanges, PageStep(x) PROVE DemoInv'
    BY <2>2, PageStepIsSafe
  <2>3. ASSUME NEW x \in Exchanges, Arrive(x) \/ ServerStep(x) PROVE DemoInv'
    BY <2>3, ServerStepIsSafe DEF Arrive, ServerStep
  <2>4. ASSUME NEW p \in Pages, Clear(p) PROVE DemoInv'
    BY <2>4, ClearIsSafe
  <2>5. ASSUME NEW s \in Servers, Restart(s), UNCHANGED pageVars PROVE DemoInv'
    BY <2>5, ServerRestartIsSafe
  <2> QED BY <2>1, <2>2, <2>3, <2>4, <2>5 DEF DemoNext
<1> QED BY <1>1, <1>2, DemoIsInteractive, InteractiveInvariant, PTL DEF DemoSpec

(* What a page shows is true of the submission it shows it for             *)
(* (PageIsTruthful).                                                       *)
THEOREM PagesAreTruthful == DemoSpec => []PageIsTruthful
<1>1. TypeOK /\ InteractiveInv /\ DemoInv => PageIsTruthful
  <2> SUFFICES ASSUME TypeOK, InteractiveInv, DemoInv, NEW p \in Pages
               PROVE  LET x == submitted[p]
                          i == id[x]
                      IN  /\ view[p] = "result" <=> lastJson[p] # None
                          /\ view[p] = "result" =>
                                /\ x # None /\ lastJson[p] = x
                                /\ diagnosis[i] = reply[x].diagnosis
                                /\ record[i].outcome = "diagnosed"
                          /\ view[p] \in {"busy", "validation_error"} =>
                                x # None /\ pc[x] = "done" /\ invoked[i] = 0
    BY DEF PageIsTruthful
  <2> DEFINE x == submitted[p]
  <2>1. ViewInv(p) /\ x \in Exchanges \cup {None}
    BY DEF DemoInv, DemoTypeOK
  <2>2. x # None => UnbilledInv(x) /\ (reply[x].status = 200 => Backed(id[x], reply[x].diagnosis))
    BY <2>1 DEF DemoInv, InteractiveInv
  <2> QED BY <2>1, <2>2 DEF ViewInv, UnbilledInv, Backed
<1> QED BY <1>1, DemoInvariant, PTL
============================================================================
