----------------------------- MODULE Hy3Client -----------------------------
(***************************************************************************)
(* Hy3ModelClient::invoke: checks of the configuration, one request, and   *)
(* the classification of what the transport returned.                      *)
(*                                                                         *)
(* The body of a response is an envelope: whether it is JSON, whether it   *)
(* reports token usage and a request id, and whether its first choice has  *)
(* string content.  The content itself is abstract here, and so is memory  *)
(* running out while a response is taken apart.                            *)
(***************************************************************************)
EXTENDS HttpTransport

VARIABLES
    cpc,        \* the next step of invoke()
    envelope,   \* history: the body the provider sent, once perform() returned
    callResult  \* the ModelCallResult

clientVars == <<cpc, envelope, callResult, transportVars>>

(* base: base_url up to trailing slashes, "sibling" for another path of    *)
(* the official host; key: what resolveApiKey finds; tokens: max_tokens.   *)
Configs == [base: {"missing", "http", "official", "sibling", "custom"}, model: BOOLEAN,
            allowCustom: BOOLEAN, key: {"missing", "unsafe", "set"},
            tokens: {"unset", "valid", "invalid"},
            connect: Timeouts, read: Timeouts, total: Timeouts]

Envelopes == [json: BOOLEAN, usage: BOOLEAN, id: BOOLEAN, headerId: BOOLEAN,
              content: BOOLEAN]
NoEnvelope == [json |-> FALSE, usage |-> FALSE, id |-> FALSE, headerId |-> FALSE,
               content |-> FALSE]
(* What a body of n bytes can hold; a header is no part of it.             *)
Bodies(n) == {e \in Envelopes : /\ n = 0 => ~e.json
                                /\ e.usage \/ e.id \/ e.content => e.json}

CallStatuses == {"Succeeded", "ConfigurationError", "AuthenticationError", "RateLimited",
                 "Timeout", "TransportError", "ProviderError", "Cancelled"}
RequestIds == {"none", "body", "header"}

CallResult(s, raw, http, usage, id) ==
    [status |-> s, raw |-> raw, http |-> http, usage |-> usage, id |-> id]
NoResult == CallResult("none", FALSE, 0, FALSE, "none")
Failure(s) == CallResult(s, FALSE, 0, FALSE, "none")

ClientTypeOK ==
    /\ TransportTypeOK
    /\ cpc \in {"idle", "awaiting", "returned"}
    /\ envelope \in Envelopes
    /\ callResult \in [status: CallStatuses \cup {"none"}, raw: BOOLEAN,
                   http: HttpStatuses \cup {0}, usage: BOOLEAN, id: RequestIds]

ClientInit ==
    /\ TransportInit
    /\ cpc = "idle"
    /\ envelope = NoEnvelope
    /\ callResult = NoResult

----------------------------------------------------------------------------
Configured(c) ==
    /\ c.base \notin {"missing", "http"}
    /\ c.model
    /\ c.base = "official" \/ c.allowCustom
    /\ c.key # "missing"
    /\ c.tokens # "invalid"

(* The URL is the configured one, the key goes into a header.              *)
HttpRequestOf(c) ==
    [official |-> c.base \in {"official", "sibling"}, safe |-> c.key = "set",
     connect |-> c.connect, read |-> c.read, total |-> c.total]

RefuseConfig(c) ==
    /\ cpc = "idle"
    /\ ~Configured(c)
    /\ cpc' = "returned"
    /\ callResult' = Failure("ConfigurationError")
    /\ UNCHANGED <<envelope, transportVars>>

Send(c) ==
    /\ cpc = "idle"
    /\ Configured(c)
    /\ cpc' = "awaiting"
    /\ Perform(HttpRequestOf(c))
    /\ UNCHANGED <<envelope, callResult>>

(* The prompt or the model name cannot be put into JSON: catch (...).      *)
AdapterThrows(c) ==
    /\ cpc = "idle"
    /\ Configured(c)
    /\ cpc' = "returned"
    /\ callResult' = Failure("ProviderError")
    /\ UNCHANGED <<envelope, transportVars>>

Transferring ==
    /\ cpc = "awaiting"
    /\ TransportNext
    /\ UNCHANGED <<cpc, envelope, callResult>>

----------------------------------------------------------------------------
StatusForHttp(code) ==
    CASE code = 401 -> "AuthenticationError"
      [] code = 429 -> "RateLimited"
      [] code = 499 -> "Cancelled"
      [] code = 504 -> "Timeout"
      [] OTHER      -> "ProviderError"

(* The id in the body wins over the one in a header.                       *)
RequestId(e) == IF e.id THEN "body" ELSE IF e.headerId THEN "header" ELSE "none"

(* Mutant: usage and id are read only after the envelope was accepted.     *)
ClassifySuccessLate(code, e) ==
    IF e.json /\ e.content THEN CallResult("Succeeded", TRUE, code, e.usage, RequestId(e))
    ELSE CallResult("ProviderError", FALSE, code, FALSE, "none")

(* 2xx.  A body that is not JSON ends before the headers are looked at.    *)
ClassifySuccess(code, e) ==
    IF ~e.json THEN CallResult("ProviderError", FALSE, code, FALSE, "none")
    ELSE CallResult(IF e.content THEN "Succeeded" ELSE "ProviderError",
                e.content, code, e.usage, RequestId(e))

(* setSafeHttpFailure                                                      *)
ClassifyFailure(code, e) ==
    CallResult(StatusForHttp(code), FALSE, code, e.usage, RequestId(e))

Classify(r, e) ==
    CASE r.transport = "Timeout"   -> Failure("Timeout")
      [] r.transport = "Failed"    -> Failure("TransportError")
      [] r.transport = "Cancelled" -> Failure("Cancelled")
      [] r.transport = "Completed" ->
            IF r.code \in 200..299 THEN ClassifySuccess(r.code, e)
            ELSE IF r.code = 0 THEN Failure("TransportError")
            ELSE ClassifyFailure(r.code, e)

ReceiveResponse(e) ==
    /\ cpc = "awaiting"
    /\ response.transport # "none"
    /\ cpc' = "returned"
    /\ envelope' = e
    /\ callResult' = Classify(response, e)
    /\ UNCHANGED transportVars

ClientNext ==
    \/ \E c \in Configs : RefuseConfig(c) \/ Send(c) \/ AdapterThrows(c)
    \/ Transferring
    \/ \E e \in Bodies(response.bytes) : ReceiveResponse(e)

----------------------------------------------------------------------------
(* Properties *)

(* model_client.hpp: the bytes of a response are there only for a success; *)
(* metadata is kept when the response exposes it and never invented.  What *)
(* the provider said of the cost is kept whatever the call ended as,       *)
(* unless the body is not JSON or the transfer did not complete.           *)
ReportedUsageIsKept ==
    cpc = "returned" =>
        /\ callResult.raw => /\ callResult.status = "Succeeded"
                         /\ response.transport = "Completed" /\ envelope.content
        /\ callResult.usage <=> response.transport = "Completed" /\ envelope.usage
        /\ callResult.id = "body" <=> response.transport = "Completed" /\ envelope.id
============================================================================
