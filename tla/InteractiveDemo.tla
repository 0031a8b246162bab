-------------------------- MODULE InteractiveDemo --------------------------
(***************************************************************************)
(* web/app.js in front of the servers: pages in a browser that submit,     *)
(* wait, give up after 120 s and show what they are told.  A submission is *)
(* one exchange of InteractiveDiagnosis with a request_id of its own; it   *)
(* goes on at the server after the page has given it up.                   *)
(*                                                                         *)
(* A page has one copy of its globals, but each submission has a handler   *)
(* of its own that resumes after each await.  Form fields, health and the  *)
(* rendering of a diagnosis are left out; the 120 s may pass at any await. *)
(***************************************************************************)
EXTENDS InteractiveDiagnosis

CONSTANTS
    Pages,          \* open pages
    Origin,         \* the server each page was loaded from
    None            \* JavaScript's null

ASSUME DemoAssumption ==
    /\ Origin \in [Pages -> Servers]
    /\ None \notin Exchanges

VARIABLES
    calling,        \* calling, of each page: the form is disabled
    submitted,      \* submitted: the payload that is shown as its source
    lastJson,       \* lastJson: the body that is shown and copied
    view,           \* the view shown, an error by its kind
    handler,        \* where the submit handler of each exchange is
    page            \* the page that submitted it

pageVars == <<calling, submitted, lastJson, view, handler, page>>
demoVars == <<vars, pageVars>>

ErrorKinds == {"validation_error", "busy", "duplicate_request", "rate_limited", "timeout",
               "invalid_model_response", "artifact_error", "model_error", "transport_error"}
Handlers == {"unborn", "fetching", "reading", "over"}
Waiting(x) == handler[x] \in {"fetching", "reading"}

DemoTypeOK ==
    /\ calling \in [Pages -> BOOLEAN]
    /\ submitted \in [Pages -> Exchanges \cup {None}]
    /\ lastJson \in [Pages -> Exchanges \cup {None}]
    /\ view \in [Pages -> {"empty", "loading", "result"} \cup ErrorKinds]
    /\ handler \in [Exchanges -> Handlers]
    /\ page \in [Exchanges -> Pages]

(* crypto.randomUUID makes every request_id a new one.                     *)
FreshIds == \A x, y \in Exchanges : id[x] = id[y] => x = y

DemoInit ==
    /\ Init
    /\ FreshIds
    /\ calling = [p \in Pages |-> FALSE]
    /\ submitted = [p \in Pages |-> None]
    /\ lastJson = [p \in Pages |-> None]
    /\ view = [p \in Pages |-> "empty"]
    /\ handler = [x \in Exchanges |-> "unborn"]
    /\ page \in [Exchanges -> Pages]
    /\ \A x \in Exchanges : server[x] = Origin[page[x]]

----------------------------------------------------------------------------
(* Mutant: a second click submits again.                                   *)
SubmitAgain(x) ==
    LET p == page[x]
    IN  /\ handler[x] = "unborn"
        /\ handler' = [handler EXCEPT ![x] = "fetching"]
        /\ submitted' = [submitted EXCEPT ![p] = x]
        /\ lastJson' = [lastJson EXCEPT ![p] = None]
        /\ calling' = [calling EXCEPT ![p] = TRUE]
        /\ view' = [view EXCEPT ![p] = "loading"]
        /\ UNCHANGED <<vars, page>>

(* The submit event, up to fetch.  Input that is too long is not sent and  *)
(* changes nothing but a hint.                                             *)
Submit(x) ==
    LET p == page[x]
    IN  /\ ~calling[p]
        /\ handler[x] = "unborn"
        /\ handler' = [handler EXCEPT ![x] = "fetching"]
        /\ submitted' = [submitted EXCEPT ![p] = x]
        /\ lastJson' = [lastJson EXCEPT ![p] = None]
        /\ calling' = [calling EXCEPT ![p] = TRUE]
        /\ view' = [view EXCEPT ![p] = "loading"]
        /\ UNCHANGED <<vars, page>>

(* The POST may arrive late, even after the page gave it up.               *)
Arrive(x) ==
    /\ handler[x] # "unborn"
    /\ Receive(x)
    /\ UNCHANGED pageVars

(* fetch resolves as soon as the headers of the reply are there.           *)
Headers(x) ==
    /\ handler[x] = "fetching"
    /\ pc[x] = "done"
    /\ handler' = [handler EXCEPT ![x] = "reading"]
    /\ UNCHANGED <<vars, calling, submitted, lastJson, view, page>>

(* The handler shows something and finally sets busy to false.             *)
Show(x, shown, json) ==
    LET p == page[x]
    IN  /\ handler' = [handler EXCEPT ![x] = "over"]
        /\ view' = [view EXCEPT ![p] = shown]
        /\ lastJson' = [lastJson EXCEPT ![p] = json]
        /\ calling' = [calling EXCEPT ![p] = FALSE]
        /\ UNCHANGED <<vars, submitted, page>>

ShowError(x, kind) == Show(x, kind, None)

(* error.kind of the reply: the server's own, or errorKind(result).        *)
KindOf(x) ==
    IF reply[x].status = 400 THEN "validation_error"
    ELSE CASE reply[x].status = 429 /\ result[x].code = "none" -> "busy"
           [] result[x].code = "E_REQUEST_EXISTS" -> "duplicate_request"
           [] result[x].code = "E_MODEL_RATE_LIMITED" -> "rate_limited"
           [] result[x].code = "E_MODEL_TIMEOUT" -> "timeout"
           [] result[x].code = "E_RESPONSE_INVALID" -> "invalid_model_response"
           [] result[x].code = "E_ARTIFACT_WRITE" -> "artifact_error"
           [] OTHER -> "model_error"

Body(x) ==
    /\ handler[x] = "reading"
    /\ IF reply[x].status = 200 THEN Show(x, "result", x) ELSE ShowError(x, KindOf(x))

(* The body is cut off or given up: what response.json() throws, an abort  *)
(* too, is caught there and shown as a response of the model.              *)
BodyFails(x) ==
    /\ handler[x] = "reading"
    /\ ShowError(x, "invalid_model_response")

FetchFails(x) ==
    /\ handler[x] = "fetching"
    /\ ShowError(x, "transport_error")

Abort(x) ==
    /\ handler[x] = "fetching"
    /\ ShowError(x, "timeout")

Clear(p) ==
    /\ ~calling[p]
    /\ submitted' = [submitted EXCEPT ![p] = None]
    /\ lastJson' = [lastJson EXCEPT ![p] = None]
    /\ view' = [view EXCEPT ![p] = "empty"]
    /\ UNCHANGED <<vars, calling, handler, page>>

PageStep(x) ==
    \/ Submit(x) \/ Headers(x) \/ Body(x)
    \/ BodyFails(x) \/ FetchFails(x) \/ Abort(x)

ServerStep(x) == Step(x) /\ UNCHANGED pageVars

DemoNext ==
    \/ \E x \in Exchanges : PageStep(x) \/ Arrive(x) \/ ServerStep(x)
    \/ \E p \in Pages : Clear(p)
    \/ \E s \in Servers : Restart(s) /\ UNCHANGED pageVars

DemoSpec == DemoInit /\ [][DemoNext]_demoVars

(* The fairness of InteractiveDiagnosis; nothing makes a page submit.      *)
DemoFairSpec == DemoSpec /\ \A x \in Exchanges : WF_demoVars(ServerStep(x))

----------------------------------------------------------------------------
(* What a page shows is true of the submission whose source it shows       *)
(* beside it, although answers may come late, servers may be killed and    *)
(* older submissions may still be at work: a diagnosis is the one saved on *)
(* disk for this submission, and can be copied; "busy" and                 *)
(* "validation_error" mean that this submission was not and will not be    *)
(* billed, so that submitting again costs one call and not two.            *)
PageIsTruthful ==
    \A p \in Pages :
        LET x == submitted[p]
            i == id[x]
        IN  /\ view[p] = "result" <=> lastJson[p] # None
            /\ view[p] = "result" =>
                  /\ x # None /\ lastJson[p] = x
                  /\ diagnosis[i] = reply[x].diagnosis
                  /\ record[i].outcome = "diagnosed"
            /\ view[p] \in {"busy", "validation_error"} =>
                  x # None /\ pc[x] = "done" /\ invoked[i] = 0

----------------------------------------------------------------------------
(* The inductive part                                                      *)

(* The server turned the exchange away before it began.                    *)
Refused(x) ==
    reply[x].status = 400 \/ (reply[x].status = 429 /\ result[x].code = "none")

(* What has not begun, or was turned away, was not billed.                 *)
UnbilledInv(x) ==
    pc[x] \in {"unborn", "flag", "make_directory"} \/ (pc[x] = "done" /\ Refused(x))
        => invoked[id[x]] = 0

(* A handler that waits owns the globals of its page.                      *)
HandlerInv(x) ==
    /\ Waiting(x) => LET p == page[x]
                     IN  calling[p] /\ submitted[p] = x /\ view[p] = "loading"
    /\ handler[x] = "reading" => pc[x] = "done"

ViewInv(p) ==
    LET x == submitted[p]
    IN  /\ lastJson[p] = IF view[p] = "result" THEN x ELSE None
        /\ view[p] = "result" => x # None /\ reply[x].status = 200 /\ pc[x] = "done"
        /\ view[p] \in {"busy", "validation_error"} =>
              x # None /\ pc[x] = "done" /\ Refused(x)

DemoInv ==
    /\ DemoTypeOK
    /\ FreshIds
    /\ \A x \in Exchanges : UnbilledInv(x) /\ HandlerInv(x)
    /\ \A p \in Pages : ViewInv(p)
============================================================================
