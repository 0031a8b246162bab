--------------------------- MODULE HttpTransport ---------------------------
(***************************************************************************)
(* ProductionHttpTransport::perform: one HTTPS POST, through WinHTTP on    *)
(* Windows and libcurl elsewhere, under a size limit and a deadline.       *)
(*                                                                         *)
(* The two libraries are external; what is modelled of them is what this   *)
(* code relies on.  WinHTTP: each blocking operation ends within the       *)
(* timeouts set for it, which are resolve, connect, send and receive.      *)
(* libcurl: the whole transfer ends within CURLOPT_TIMEOUT_MS, and a write *)
(* callback that accepts less than it is given ends it with an error.  To  *)
(* both a timeout of 0 means none.  Time and sizes are small numbers.      *)
(***************************************************************************)
EXTENDS Naturals

CONSTANTS
    MaxResponseBytes,           \* max_response_bytes_
    DefaultConnectTimeoutMs,    \* kDefaultConnectTimeoutMs
    DefaultTotalTimeoutMs,      \* kDefaultTotalTimeoutMs
    Timeouts,                   \* values a request may carry, 0 for unset
    HttpStatuses,               \* status codes a server may answer with
    MaxChunk,                   \* bound: bytes that arrive at once
    MaxWait                     \* bound: how long an untimed operation waits

ASSUME TransportAssumption ==
    /\ MaxResponseBytes \in Nat
    /\ DefaultConnectTimeoutMs \in Nat \ {0}
    /\ DefaultTotalTimeoutMs \in Nat \ {0}
    /\ Timeouts \subseteq Nat
    /\ HttpStatuses \subseteq Nat \ {0}
    /\ MaxChunk \in Nat /\ MaxWait \in Nat

VARIABLES
    platform,   \* the branch of the #ifdef the program was built with
    tpc,        \* the next step of perform()
    request,    \* the HttpRequest, as far as perform() looks at it
    elapsed,    \* milliseconds since perform() began
    received,   \* response.body.size()
    statusLine, \* the HTTP status line, once it was read; 0 before
    response    \* what perform() returned

transportVars == <<platform, tpc, request, elapsed, received, statusLine, response>>

(* official: isOfficialTokenHubUrl; safe: every header is one line of text *)
Requests == [official: BOOLEAN, safe: BOOLEAN,
             connect: Timeouts, read: Timeouts, total: Timeouts]
NoRequest == [official |-> FALSE, safe |-> FALSE,
              connect |-> 0, read |-> 0, total |-> 0]

TransportStatuses == {"none", "Completed", "Timeout", "Failed", "Cancelled"}
Response(s, code, n) == [transport |-> s, code |-> code, bytes |-> n]
NoResponse == Response("none", 0, 0)

TransportPcs == {"idle", "check", "win_setup", "win_send", "win_receive",
                 "win_read", "curl_setup", "curl_connect", "curl_transfer"}

TransportTypeOK ==
    /\ platform \in {"winhttp", "libcurl"}
    /\ tpc \in TransportPcs
    /\ request \in Requests \cup {NoRequest}
    /\ elapsed \in Nat
    /\ received \in Nat
    /\ statusLine \in HttpStatuses \cup {0}
    /\ response \in [transport: TransportStatuses,
                     code: HttpStatuses \cup {0}, bytes: Nat]

TransportInit ==
    /\ platform \in {"winhttp", "libcurl"}
    /\ tpc = "idle"
    /\ request = NoRequest
    /\ elapsed = 0 /\ received = 0 /\ statusLine = 0
    /\ response = NoResponse

----------------------------------------------------------------------------
(* Deadlines *)

(* Mutant: the request's own values, with 0 for none.                      *)
TotalTimeoutAsGiven(r) == r.total

TotalTimeout(r) ==
    IF r.total # 0 THEN r.total
    ELSE IF r.read # 0 THEN r.read ELSE DefaultTotalTimeoutMs

ConnectTimeout(r) == IF r.connect = 0 THEN DefaultConnectTimeoutMs ELSE r.connect

Shorter(a, b) == IF a < b THEN a ELSE b

Remaining ==
    IF elapsed >= TotalTimeout(request) THEN 0 ELSE TotalTimeout(request) - elapsed

WinConnect == Shorter(ConnectTimeout(request), TotalTimeout(request))

(* How long an operation may take under timeout t.                         *)
Wait(t) == 0 .. (IF t = 0 THEN MaxWait ELSE t)

----------------------------------------------------------------------------
(* Steps of perform() *)

EndPost(r) ==
    /\ tpc' = "idle"
    /\ response' = r
    /\ UNCHANGED <<platform, request, received, statusLine>>

Fail == EndPost(Response("Failed", 0, 0))
TimeOut == EndPost(Response("Timeout", 0, 0))

Advance(from, to) ==
    /\ tpc = from
    /\ tpc' = to
    /\ UNCHANGED <<platform, request, response>>

Perform(r) ==
    /\ tpc = "idle"
    /\ tpc' = "check"
    /\ request' = r
    /\ elapsed' = 0 /\ received' = 0 /\ statusLine' = 0
    /\ response' = NoResponse
    /\ UNCHANGED platform

IsValidHttpsPostRequest(r) == r.official /\ r.safe

CheckRequest ==
    LET accepted == IsValidHttpsPostRequest(request) /\ MaxResponseBytes # 0
    IN  /\ tpc = "check"
        /\ \/ /\ accepted
              /\ Advance("check", IF platform = "winhttp" THEN "win_setup" ELSE "curl_setup")
              /\ UNCHANGED <<received, statusLine>>
           \/ ~accepted /\ Fail
        /\ UNCHANGED elapsed

(* Handles, options and headers; any of them may fail.                     *)
Setup ==
    /\ \/ Advance("win_setup", "win_send") /\ UNCHANGED <<received, statusLine>>
       \/ Advance("curl_setup", "curl_connect") /\ UNCHANGED <<received, statusLine>>
       \/ tpc \in {"win_setup", "curl_setup"} /\ Fail
    /\ UNCHANGED elapsed

----------------------------------------------------------------------------
(* performWindows: the remaining time is computed before each operation.   *)

WinExpired ==
    /\ tpc \in {"win_send", "win_receive", "win_read"}
    /\ Remaining = 0
    /\ TimeOut
    /\ UNCHANGED elapsed

(* An operation takes d and fails; with ERROR_WINHTTP_TIMEOUT at its limit. *)
WinFails(d, atLimit) ==
    /\ elapsed' = elapsed + d
    /\ (atLimit /\ TimeOut) \/ Fail

(* Resolving and connecting have timeouts of their own.                    *)
WinSend ==
    /\ tpc = "win_send" /\ Remaining > 0
    /\ \E resolve, connect \in Wait(WinConnect), send \in Wait(Remaining) :
          \/ /\ Advance("win_send", "win_receive")
             /\ elapsed' = elapsed + resolve + connect + send
             /\ UNCHANGED <<received, statusLine>>
          \/ WinFails(resolve + connect + send,
                      WinConnect \in {resolve, connect} \/ send = Remaining)

WinReceive ==
    /\ tpc = "win_receive" /\ Remaining > 0
    /\ \E d \in Wait(Remaining) :
          \/ /\ Advance("win_receive", "win_read")
             /\ statusLine' \in HttpStatuses
             /\ elapsed' = elapsed + d
             /\ UNCHANGED received
          \/ WinFails(d, d = Remaining)

(* Mutant: each chunk is compared with the limit, not the sum.             *)
ChunkFits(n) == n <= MaxResponseBytes

Fits(n) == received <= MaxResponseBytes /\ n <= MaxResponseBytes - received

(* WinHttpQueryDataAvailable, then the bytes that are available.           *)
WinRead ==
    /\ tpc = "win_read" /\ Remaining > 0
    /\ \E d \in Wait(Remaining) :
          \/ /\ EndPost(Response("Completed", statusLine, received))
             /\ elapsed' = elapsed + d
          \/ \E n \in 1..MaxChunk :
                /\ Fits(n)
                /\ Advance("win_read", "win_read")
                /\ received' = received + n
                /\ elapsed' = elapsed + d
                /\ UNCHANGED statusLine
          \/ \E n \in 1..MaxChunk : ~Fits(n) /\ elapsed' = elapsed + d /\ Fail
          \/ WinFails(d, d = Remaining)

----------------------------------------------------------------------------
(* performCurl: one call with callbacks.                                   *)

(* What is left of CURLOPT_TIMEOUT_MS, to libcurl.                         *)
CurlWait == IF TotalTimeout(request) = 0 THEN 0..MaxWait ELSE 0..Remaining

CurlConnect ==
    /\ tpc = "curl_connect"
    /\ \E d \in Wait(ConnectTimeout(request)) \cap CurlWait :
          /\ elapsed' = elapsed + d
          /\ \/ /\ Advance("curl_connect", "curl_transfer")
                /\ statusLine' \in HttpStatuses /\ UNCHANGED received
             \/ Fail
             \/ d = ConnectTimeout(request) /\ TimeOut
             \/ d = Remaining /\ TimeOut

(* curlWrite accepts a chunk or ends the transfer; CURLE_OK ends it too.   *)
CurlTransfer ==
    /\ tpc = "curl_transfer"
    /\ \E d \in CurlWait :
          /\ elapsed' = elapsed + d
          /\ \/ \E n \in 1..MaxChunk :
                   /\ Fits(n)
                   /\ Advance("curl_transfer", "curl_transfer")
                   /\ received' = received + n
                   /\ UNCHANGED statusLine
             \/ \E n \in 1..MaxChunk : ~Fits(n) /\ Fail
             \/ EndPost(Response("Completed", statusLine, received))
             \/ Fail
             \/ d = Remaining /\ TimeOut

TransportNext ==
    \/ CheckRequest \/ Setup
    \/ WinExpired \/ WinSend \/ WinReceive \/ WinRead
    \/ CurlConnect \/ CurlTransfer

----------------------------------------------------------------------------
(* Properties *)

(* A response that is handed on was read in full, has a status line and    *)
(* keeps to the limit that protects the process's memory, however it was   *)
(* cut into chunks; one that does not is never handed on in part.          *)
ResponseWithinLimit ==
    /\ received <= MaxResponseBytes
    /\ response.transport = "Completed" =>
          /\ response.bytes = received /\ response.bytes <= MaxResponseBytes
          /\ response.code \in HttpStatuses

(* perform() ends by its deadline even if the request sets none.  WinHTTP  *)
(* adds at most the two connection timeouts of the send operation, which   *)
(* the remaining time does not count.                                      *)
EndsByDeadline ==
    elapsed <= TotalTimeout(request)
               + (IF platform = "winhttp" THEN 2 * WinConnect ELSE 0)
============================================================================
