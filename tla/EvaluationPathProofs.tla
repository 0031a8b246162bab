------------------------ MODULE EvaluationPathProofs ------------------------
(***************************************************************************)
(* Theorems about EvaluationPath, for every size limit, every timeout,     *)
(* every configuration, every answer and any number of traces.             *)
(***************************************************************************)
EXTENDS EvaluationPath, FiniteSums, TLAPS

(* Where the transport is, what it knows by then and how long it took.     *)
TransportInv ==
    /\ tpc # "idle" => response = NoResponse
    /\ tpc \in {"win_read", "curl_transfer"} => statusLine \in HttpStatuses
    /\ tpc \in {"check", "win_setup", "curl_setup", "win_send", "curl_connect"}
          => elapsed = 0 /\ received = 0
    /\ tpc \in {"win_setup", "win_send", "win_receive", "win_read"} => platform = "winhttp"
    /\ tpc \in {"curl_setup", "curl_connect", "curl_transfer"} => platform = "libcurl"
    /\ ResponseWithinLimit
    /\ EndsByDeadline

(* A client that has not begun has asked for nothing.                      *)
ClientInv ==
    /\ cpc = "idle" => tpc = "idle" /\ response = NoResponse
    /\ ReportedUsageIsKept

PathInv == ClientTypeOK /\ TransportInv /\ ClientInv

----------------------------------------------------------------------------
(* Deadlines are positive, whatever the request leaves unset.              *)
LEMMA Deadlines ==
    ASSUME TransportTypeOK
    PROVE  /\ TotalTimeout(request) \in Nat \ {0}
           /\ WinConnect \in Nat \ {0}
           /\ Remaining \in Nat
           /\ elapsed <= TotalTimeout(request) => elapsed + Remaining = TotalTimeout(request)
<1>1. /\ request.total \in Nat /\ request.read \in Nat /\ request.connect \in Nat
      /\ elapsed \in Nat
  <2>1. CASE request = NoRequest
    BY <2>1 DEF TransportTypeOK, NoRequest
  <2>2. CASE request \in Requests
    <3>1. /\ request.total \in Timeouts /\ request.read \in Timeouts
          /\ request.connect \in Timeouts
      BY <2>2 DEF Requests
    <3>2. QED BY <3>1, TransportAssumption DEF TransportTypeOK
  <2>3. QED BY <2>1, <2>2 DEF TransportTypeOK
<1>2. TotalTimeout(request) \in Nat \ {0}
    BY <1>1, TransportAssumption DEF TotalTimeout
<1>3. ConnectTimeout(request) \in Nat \ {0}
    BY <1>1, TransportAssumption DEF ConnectTimeout
<1>4. WinConnect \in Nat \ {0}
    BY <1>2, <1>3 DEF WinConnect, Shorter
<1>5. /\ Remaining \in Nat
      /\ elapsed <= TotalTimeout(request) => elapsed + Remaining = TotalTimeout(request)
    BY <1>1, <1>2 DEF Remaining
<1>6. QED BY <1>2, <1>4, <1>5

(* The end of perform(), in any way but with a response.                   *)
LEMMA FailurePreserves ==
    ASSUME TransportTypeOK, TransportInv, Fail \/ TimeOut,
           elapsed' \in Nat,
           elapsed' <= TotalTimeout(request)
                       + (IF platform = "winhttp" THEN 2 * WinConnect ELSE 0)
    PROVE  TransportTypeOK' /\ TransportInv'
<1>1. response' = Response("Failed", 0, 0) \/ response' = Response("Timeout", 0, 0)
    BY DEF Fail, TimeOut, EndPost
<1>2. tpc' = "idle" /\ UNCHANGED <<platform, request, received, statusLine>>
    BY DEF Fail, TimeOut, EndPost
<1>3. TransportTypeOK'
    BY <1>1, <1>2 DEF TransportTypeOK, TransportPcs, TransportStatuses, Response
<1>4. ResponseWithinLimit'
    BY <1>1, <1>2 DEF TransportInv, ResponseWithinLimit, Response
<1>5. TotalTimeout(request)' = TotalTimeout(request) /\ WinConnect' = WinConnect
    BY <1>2 DEF TotalTimeout, WinConnect, Shorter, ConnectTimeout
<1>6. EndsByDeadline'
    BY <1>2, <1>5 DEF EndsByDeadline
<1>7. QED BY <1>2, <1>3, <1>4, <1>6 DEF TransportInv

(* A complete response.                                                    *)
LEMMA CompletionPreserves ==
    ASSUME TransportTypeOK, TransportInv,
           tpc \in {"win_read", "curl_transfer"},
           EndPost(Response("Completed", statusLine, received)),
           elapsed' \in Nat,
           elapsed' <= TotalTimeout(request)
                       + (IF platform = "winhttp" THEN 2 * WinConnect ELSE 0)
    PROVE  TransportTypeOK' /\ TransportInv'
<1>1. response' = Response("Completed", statusLine, received)
    BY DEF EndPost
<1>2. tpc' = "idle" /\ UNCHANGED <<platform, request, received, statusLine>>
    BY DEF EndPost
<1>3. TransportTypeOK'
    BY <1>1, <1>2 DEF TransportTypeOK, TransportPcs, TransportStatuses, Response
<1>4. ResponseWithinLimit'
    BY <1>1, <1>2 DEF TransportInv, ResponseWithinLimit, Response
<1>5. TotalTimeout(request)' = TotalTimeout(request) /\ WinConnect' = WinConnect
    BY <1>2 DEF TotalTimeout, WinConnect, Shorter, ConnectTimeout
<1>6. EndsByDeadline'
    BY <1>2, <1>5 DEF EndsByDeadline
<1>7. QED BY <1>2, <1>3, <1>4, <1>6 DEF TransportInv

(* A step that goes on, without a response yet.                            *)
LEMMA ProgressPreserves ==
    ASSUME TransportTypeOK, TransportInv,
           NEW from \in TransportPcs \ {"idle"}, NEW to \in TransportPcs \ {"idle"},
           Advance(from, to),
           elapsed' \in Nat, received' \in Nat, statusLine' \in HttpStatuses \cup {0},
           to \in {"win_read", "curl_transfer"} => statusLine' \in HttpStatuses,
           to \in {"check", "win_setup", "curl_setup", "win_send", "curl_connect"}
              => elapsed' = 0 /\ received' = 0,
           to \in {"win_setup", "win_send", "win_receive", "win_read"} => platform = "winhttp",
           to \in {"curl_setup", "curl_connect", "curl_transfer"} => platform = "libcurl",
           received' <= MaxResponseBytes,
           elapsed' <= TotalTimeout(request)
                       + (IF platform = "winhttp" THEN 2 * WinConnect ELSE 0)
    PROVE  TransportTypeOK' /\ TransportInv'
<1>1. tpc = from /\ tpc' = to /\ UNCHANGED <<platform, request, response>>
    BY DEF Advance
<1>2. response' = NoResponse
    BY <1>1 DEF TransportInv
<1>3. TransportTypeOK'
    BY <1>1 DEF TransportTypeOK
<1>4. ResponseWithinLimit'
    BY <1>2 DEF ResponseWithinLimit, NoResponse, Response
<1>5. TotalTimeout(request)' = TotalTimeout(request) /\ WinConnect' = WinConnect
    BY <1>1 DEF TotalTimeout, WinConnect, Shorter, ConnectTimeout
<1>6. EndsByDeadline'
    BY <1>1, <1>5 DEF EndsByDeadline
<1>7. QED BY <1>1, <1>2, <1>3, <1>4, <1>6 DEF TransportInv

(* An operation under a timeout that is set waits no longer than that.     *)
LEMMA Waits ==
    ASSUME NEW t \in Nat \ {0}
    PROVE  \A d \in Wait(t) : d \in Nat /\ d <= t
BY DEF Wait

(* Every step of perform() keeps the invariant of the transport.           *)
LEMMA TransportStep ==
    ASSUME TransportTypeOK, TransportInv, TransportNext
    PROVE  TransportTypeOK' /\ TransportInv'
<1> DEFINE T == TotalTimeout(request)
           C == WinConnect
           R == Remaining
<1>d. /\ T \in Nat \ {0} /\ C \in Nat \ {0} /\ R \in Nat
      /\ elapsed <= T => elapsed + R = T
    BY Deadlines
<1>t. elapsed \in Nat /\ received \in Nat /\ statusLine \in HttpStatuses \cup {0}
    BY DEF TransportTypeOK
<1>m. MaxResponseBytes \in Nat /\ MaxChunk \in Nat
    BY TransportAssumption
<1>e. elapsed <= T + (IF platform = "winhttp" THEN 2 * C ELSE 0) /\ received <= MaxResponseBytes
    BY DEF TransportInv, EndsByDeadline, ResponseWithinLimit
<1>r. R > 0 => elapsed < T
    BY <1>d, <1>t DEF Remaining
<1>1. ASSUME CheckRequest PROVE TransportTypeOK' /\ TransportInv'
  <2>1. tpc = "check" /\ elapsed' = elapsed
    BY <1>1 DEF CheckRequest
  <2>2. CASE Fail
    BY <1>d, <1>t, <1>e, <2>1, <2>2, FailurePreserves
  <2>3. CASE Advance("check", IF platform = "winhttp" THEN "win_setup" ELSE "curl_setup")
             /\ UNCHANGED <<received, statusLine>>
    <3>1. elapsed = 0 /\ received = 0
      BY <2>1 DEF TransportInv
    <3>2. platform \in {"winhttp", "libcurl"}
      BY DEF TransportTypeOK
    <3>3. CASE platform = "winhttp"
      <4>1. Advance("check", "win_setup")
        BY <2>3, <3>3
      <4>2. "check" \in TransportPcs \ {"idle"} /\ "win_setup" \in TransportPcs \ {"idle"}
        BY DEF TransportPcs
      <4>3. QED BY <1>d, <1>t, <1>e, <2>1, <2>3, <3>1, <3>3, <4>1, <4>2, ProgressPreserves
    <3>4. CASE platform = "libcurl"
      <4>1. Advance("check", "curl_setup")
        BY <2>3, <3>4
      <4>2. "check" \in TransportPcs \ {"idle"} /\ "curl_setup" \in TransportPcs \ {"idle"}
        BY DEF TransportPcs
      <4>3. QED BY <1>d, <1>t, <1>e, <2>1, <2>3, <3>1, <3>4, <4>1, <4>2, ProgressPreserves
    <3>5. QED BY <3>2, <3>3, <3>4
  <2>4. QED BY <1>1, <2>2, <2>3 DEF CheckRequest
<1>2. ASSUME Setup PROVE TransportTypeOK' /\ TransportInv'
  <2>1. elapsed' = elapsed
    BY <1>2 DEF Setup
  <2>2. CASE Fail
    BY <1>d, <1>t, <1>e, <2>1, <2>2, FailurePreserves
  <2>3. CASE Advance("win_setup", "win_send") /\ UNCHANGED <<received, statusLine>>
    <3>1. elapsed = 0 /\ received = 0 /\ platform = "winhttp"
      BY <2>3 DEF Advance, TransportInv
    <3>2. "win_setup" \in TransportPcs \ {"idle"} /\ "win_send" \in TransportPcs \ {"idle"}
      BY DEF TransportPcs
    <3>3. QED BY <1>d, <1>t, <1>e, <2>1, <2>3, <3>1, <3>2, ProgressPreserves
  <2>4. CASE Advance("curl_setup", "curl_connect") /\ UNCHANGED <<received, statusLine>>
    <3>1. elapsed = 0 /\ received = 0 /\ platform = "libcurl"
      BY <2>4 DEF Advance, TransportInv
    <3>2. "curl_setup" \in TransportPcs \ {"idle"} /\ "curl_connect" \in TransportPcs \ {"idle"}
      BY DEF TransportPcs
    <3>3. QED BY <1>d, <1>t, <1>e, <2>1, <2>4, <3>1, <3>2, ProgressPreserves
  <2>5. QED BY <1>2, <2>2, <2>3, <2>4 DEF Setup
<1>3. ASSUME WinExpired PROVE TransportTypeOK' /\ TransportInv'
    BY <1>3, <1>d, <1>t, <1>e, FailurePreserves DEF WinExpired
<1>4. ASSUME WinSend PROVE TransportTypeOK' /\ TransportInv'
  <2>1. tpc = "win_send" /\ platform = "winhttp" /\ elapsed = 0 /\ received = 0 /\ R > 0
    BY <1>4 DEF WinSend, TransportInv
  <2>2. PICK resolve, connect \in Wait(C), send \in Wait(R) :
          \/ /\ Advance("win_send", "win_receive")
             /\ elapsed' = elapsed + resolve + connect + send
             /\ UNCHANGED <<received, statusLine>>
          \/ WinFails(resolve + connect + send, C \in {resolve, connect} \/ send = R)
    BY <1>4 DEF WinSend
  <2>3. /\ resolve \in Nat /\ connect \in Nat /\ send \in Nat
        /\ resolve <= C /\ connect <= C /\ send <= R
    <3>1. R \in Nat \ {0}
      BY <1>d, <2>1
    <3>2. QED BY <1>d, <2>2, <3>1, Waits
  <2>4. elapsed + (resolve + connect + send) <= T + 2 * C
    BY <1>d, <1>t, <2>1, <2>3
  <2>5. CASE Advance("win_send", "win_receive")
             /\ elapsed' = elapsed + resolve + connect + send
             /\ UNCHANGED <<received, statusLine>>
    <3>1. "win_send" \in TransportPcs \ {"idle"} /\ "win_receive" \in TransportPcs \ {"idle"}
      BY DEF TransportPcs
    <3>2. elapsed' \in Nat /\ elapsed' <= T + 2 * C
      BY <1>d, <1>t, <2>3, <2>4, <2>5
    <3>3. QED BY <1>t, <1>e, <2>1, <2>5, <3>1, <3>2, ProgressPreserves
  <2>6. CASE WinFails(resolve + connect + send, C \in {resolve, connect} \/ send = R)
    <3>1. elapsed' \in Nat /\ elapsed' <= T + 2 * C /\ (Fail \/ TimeOut)
      BY <1>d, <1>t, <2>3, <2>4, <2>6 DEF WinFails
    <3>2. QED BY <2>1, <3>1, FailurePreserves
  <2>7. QED BY <2>2, <2>5, <2>6
<1>5. ASSUME WinReceive PROVE TransportTypeOK' /\ TransportInv'
  <2>1. tpc = "win_receive" /\ platform = "winhttp" /\ R > 0
    BY <1>5 DEF WinReceive, TransportInv
  <2>2. PICK d \in Wait(R) :
          \/ /\ Advance("win_receive", "win_read")
             /\ statusLine' \in HttpStatuses
             /\ elapsed' = elapsed + d
             /\ UNCHANGED received
          \/ WinFails(d, d = R)
    BY <1>5 DEF WinReceive
  <2>3. d \in Nat /\ d <= R
    <3>1. R \in Nat \ {0}
      BY <1>d, <2>1
    <3>2. QED BY <2>2, <3>1, Waits
  <2>4. elapsed + d \in Nat /\ elapsed + d <= T + 2 * C
    BY <1>d, <1>t, <1>r, <2>1, <2>3
  <2>5. CASE /\ Advance("win_receive", "win_read")
             /\ statusLine' \in HttpStatuses
             /\ elapsed' = elapsed + d
             /\ UNCHANGED received
    <3>1. "win_receive" \in TransportPcs \ {"idle"} /\ "win_read" \in TransportPcs \ {"idle"}
      BY DEF TransportPcs
    <3>2. QED BY <1>t, <1>e, <2>1, <2>4, <2>5, <3>1, ProgressPreserves
  <2>6. CASE WinFails(d, d = R)
    <3>1. elapsed' = elapsed + d /\ (Fail \/ TimeOut)
      BY <2>6 DEF WinFails
    <3>2. QED BY <2>1, <2>4, <3>1, FailurePreserves
  <2>7. QED BY <2>2, <2>5, <2>6
<1>6. ASSUME WinRead PROVE TransportTypeOK' /\ TransportInv'
  <2>1. tpc = "win_read" /\ platform = "winhttp" /\ R > 0 /\ statusLine \in HttpStatuses
    BY <1>6 DEF WinRead, TransportInv
  <2>2. PICK d \in Wait(R) :
          \/ /\ EndPost(Response("Completed", statusLine, received))
             /\ elapsed' = elapsed + d
          \/ \E n \in 1..MaxChunk :
                /\ Fits(n)
                /\ Advance("win_read", "win_read")
                /\ received' = received + n
                /\ elapsed' = elapsed + d
                /\ UNCHANGED statusLine
          \/ \E n \in 1..MaxChunk : ~Fits(n) /\ elapsed' = elapsed + d /\ Fail
          \/ WinFails(d, d = R)
    BY <1>6 DEF WinRead
  <2>3. d \in Nat /\ d <= R
    <3>1. R \in Nat \ {0}
      BY <1>d, <2>1
    <3>2. QED BY <2>2, <3>1, Waits
  <2>4. elapsed + d \in Nat /\ elapsed + d <= T + 2 * C
    BY <1>d, <1>t, <1>r, <2>1, <2>3
  <2>5. CASE EndPost(Response("Completed", statusLine, received)) /\ elapsed' = elapsed + d
    BY <2>1, <2>4, <2>5, CompletionPreserves
  <2>6. CASE \E n \in 1..MaxChunk :
                /\ Fits(n)
                /\ Advance("win_read", "win_read")
                /\ received' = received + n
                /\ elapsed' = elapsed + d
                /\ UNCHANGED statusLine
    <3>1. PICK n \in 1..MaxChunk :
                /\ Fits(n)
                /\ Advance("win_read", "win_read")
                /\ received' = received + n
                /\ elapsed' = elapsed + d
                /\ UNCHANGED statusLine
      BY <2>6
    <3>2. received' \in Nat /\ received' <= MaxResponseBytes
      BY <1>t, <1>m, <3>1 DEF Fits
    <3>3. "win_read" \in TransportPcs \ {"idle"}
      BY DEF TransportPcs
    <3>4. QED BY <1>t, <2>1, <2>4, <3>1, <3>2, <3>3, ProgressPreserves
  <2>7. CASE (\E n \in 1..MaxChunk : ~Fits(n) /\ elapsed' = elapsed + d /\ Fail)
             \/ WinFails(d, d = R)
    <3>1. elapsed' = elapsed + d /\ (Fail \/ TimeOut)
      BY <2>7 DEF WinFails
    <3>2. QED BY <2>1, <2>4, <3>1, FailurePreserves
  <2>8. QED BY <2>2, <2>5, <2>6, <2>7
<1>7. ASSUME CurlConnect PROVE TransportTypeOK' /\ TransportInv'
  <2>1. tpc = "curl_connect" /\ platform = "libcurl" /\ elapsed = 0 /\ received = 0
    BY <1>7 DEF CurlConnect, TransportInv
  <2>2. PICK d \in CurlWait :
          /\ elapsed' = elapsed + d
          /\ \/ /\ Advance("curl_connect", "curl_transfer")
                /\ statusLine' \in HttpStatuses /\ UNCHANGED received
             \/ Fail
             \/ TimeOut
    BY <1>7 DEF CurlConnect
  <2>3. elapsed' \in Nat /\ elapsed' <= T
    BY <1>d, <1>t, <2>1, <2>2 DEF CurlWait
  <2>4. CASE /\ Advance("curl_connect", "curl_transfer")
             /\ statusLine' \in HttpStatuses /\ UNCHANGED received
    <3>1. "curl_connect" \in TransportPcs \ {"idle"} /\ "curl_transfer" \in TransportPcs \ {"idle"}
      BY DEF TransportPcs
    <3>2. QED BY <1>d, <1>t, <1>e, <2>1, <2>3, <2>4, <3>1, ProgressPreserves
  <2>5. CASE Fail \/ TimeOut
    BY <1>d, <2>1, <2>3, <2>5, FailurePreserves
  <2>6. QED BY <2>2, <2>4, <2>5
<1>8. ASSUME CurlTransfer PROVE TransportTypeOK' /\ TransportInv'
  <2>1. tpc = "curl_transfer" /\ platform = "libcurl" /\ statusLine \in HttpStatuses
    BY <1>8 DEF CurlTransfer, TransportInv
  <2>2. PICK d \in CurlWait :
          /\ elapsed' = elapsed + d
          /\ \/ \E n \in 1..MaxChunk :
                   /\ Fits(n)
                   /\ Advance("curl_transfer", "curl_transfer")
                   /\ received' = received + n
                   /\ UNCHANGED statusLine
             \/ EndPost(Response("Completed", statusLine, received))
             \/ Fail
             \/ TimeOut
    BY <1>8 DEF CurlTransfer
  <2>3. elapsed' \in Nat /\ elapsed' <= T
    BY <1>d, <1>t, <1>e, <2>1, <2>2 DEF CurlWait
  <2>4. CASE \E n \in 1..MaxChunk :
                   /\ Fits(n)
                   /\ Advance("curl_transfer", "curl_transfer")
                   /\ received' = received + n
                   /\ UNCHANGED statusLine
    <3>1. PICK n \in 1..MaxChunk :
                   /\ Fits(n)
                   /\ Advance("curl_transfer", "curl_transfer")
                   /\ received' = received + n
                   /\ UNCHANGED statusLine
      BY <2>4
    <3>2. received' \in Nat /\ received' <= MaxResponseBytes
      BY <1>t, <1>m, <3>1 DEF Fits
    <3>3. "curl_transfer" \in TransportPcs \ {"idle"}
      BY DEF TransportPcs
    <3>4. QED BY <1>d, <1>t, <2>1, <2>3, <3>1, <3>2, <3>3, ProgressPreserves
  <2>5. CASE EndPost(Response("Completed", statusLine, received))
    BY <1>d, <2>1, <2>3, <2>5, CompletionPreserves
  <2>6. CASE Fail \/ TimeOut
    BY <1>d, <2>1, <2>3, <2>6, FailurePreserves
  <2>7. QED BY <2>2, <2>4, <2>5, <2>6
<1>9. QED BY <1>1, <1>2, <1>3, <1>4, <1>5, <1>6, <1>7, <1>8 DEF TransportNext

----------------------------------------------------------------------------
(* What perform() is handed is a request, whatever the configuration.      *)
LEMMA PerformPreserves ==
    ASSUME TransportTypeOK, TransportInv, NEW c \in Configs, Perform(HttpRequestOf(c))
    PROVE  TransportTypeOK' /\ TransportInv'
<1>1. HttpRequestOf(c) \in Requests
    BY DEF HttpRequestOf, Configs, Requests
<1>2. /\ tpc' = "check" /\ request' = HttpRequestOf(c) /\ platform' = platform
      /\ elapsed' = 0 /\ received' = 0 /\ statusLine' = 0 /\ response' = NoResponse
    BY DEF Perform
<1>3. TransportTypeOK'
    BY <1>1, <1>2
    DEF TransportTypeOK, TransportPcs, TransportStatuses, NoResponse, Response
<1>4. ResponseWithinLimit'
    BY <1>2, TransportAssumption DEF ResponseWithinLimit, NoResponse, Response
<1>5. (TotalTimeout(request) \in Nat \ {0} /\ WinConnect \in Nat \ {0})'
  <2>1. request'.connect \in Nat /\ request'.read \in Nat /\ request'.total \in Nat
    BY <1>1, <1>2, TransportAssumption DEF Requests
  <2>2. (TotalTimeout(request) \in Nat \ {0})'
    BY <2>1, TransportAssumption DEF TotalTimeout
  <2>3. (ConnectTimeout(request) \in Nat \ {0})'
    BY <2>1, TransportAssumption DEF ConnectTimeout
  <2>4. QED BY <2>2, <2>3 DEF WinConnect, Shorter
<1>6. EndsByDeadline'
    BY <1>2, <1>5 DEF EndsByDeadline
<1>7. QED BY <1>2, <1>3, <1>4, <1>6 DEF TransportInv

(* What the client makes of a response exposes what the response has.      *)
LEMMA ClassifyExposes ==
    ASSUME NEW r \in [transport: TransportStatuses \ {"none"},
                      code: HttpStatuses \cup {0}, bytes: Nat],
           NEW e \in Bodies(r.bytes),
           r.transport = "Completed" => r.code \in HttpStatuses
    PROVE  LET x == Classify(r, e)
           IN  /\ x \in [status: CallStatuses, raw: BOOLEAN, http: HttpStatuses \cup {0},
                          usage: BOOLEAN, id: RequestIds]
               /\ x.raw => x.status = "Succeeded" /\ r.transport = "Completed" /\ e.content
               /\ x.usage <=> r.transport = "Completed" /\ e.usage
               /\ x.id = "body" <=> r.transport = "Completed" /\ e.id
<1>1. /\ e \in Envelopes
      /\ e.usage \/ e.id \/ e.content => e.json
      /\ e.json \in BOOLEAN /\ e.usage \in BOOLEAN /\ e.id \in BOOLEAN
      /\ e.headerId \in BOOLEAN /\ e.content \in BOOLEAN
    BY DEF Bodies, Envelopes
<1>2. RequestId(e) \in RequestIds /\ (RequestId(e) = "body" <=> e.id)
    BY <1>1 DEF RequestId, RequestIds
<1>3. CASE r.transport = "Completed"
  <2>1. r.code \in HttpStatuses /\ r.code \in Nat /\ r.code # 0
    BY <1>3, TransportAssumption
  <2>2. CASE r.code \in 200..299
    <3>1. Classify(r, e) = ClassifySuccess(r.code, e)
      BY <1>3, <2>2 DEF Classify
    <3>2. CASE e.json
      <4>1. Classify(r, e) =
              CallResult(IF e.content THEN "Succeeded" ELSE "ProviderError",
                     e.content, r.code, e.usage, RequestId(e))
        BY <3>1, <3>2 DEF ClassifySuccess
      <4>2. CASE e.content
        BY <1>1, <1>2, <1>3, <2>1, <4>1, <4>2 DEF CallResult, CallStatuses
      <4>3. CASE ~e.content
        BY <1>1, <1>2, <1>3, <2>1, <4>1, <4>3 DEF CallResult, CallStatuses
      <4>4. QED BY <4>2, <4>3
    <3>3. CASE ~e.json
      <4>1. Classify(r, e) = CallResult("ProviderError", FALSE, r.code, FALSE, "none")
        BY <3>1, <3>3 DEF ClassifySuccess
      <4>2. QED BY <1>1, <1>3, <2>1, <3>3, <4>1 DEF CallResult, CallStatuses, RequestIds
    <3>4. QED BY <3>2, <3>3
  <2>3. CASE r.code \notin 200..299
    <3>1. Classify(r, e) = CallResult(StatusForHttp(r.code), FALSE, r.code, e.usage, RequestId(e))
      BY <1>3, <2>1, <2>3 DEF Classify, ClassifyFailure
    <3>2. StatusForHttp(r.code) \in CallStatuses
      BY <2>1 DEF StatusForHttp, CallStatuses
    <3>3. QED BY <1>1, <1>2, <1>3, <2>1, <3>1, <3>2 DEF CallResult
  <2>4. QED BY <2>2, <2>3
<1>4. CASE r.transport # "Completed"
  <2>1. PICK s \in CallStatuses : Classify(r, e) = Failure(s)
    <3>1. r.transport \in {"Timeout", "Failed", "Cancelled"}
      BY <1>4 DEF TransportStatuses
    <3>2. QED BY <3>1 DEF Classify, CallStatuses
  <2>2. QED BY <1>4, <2>1 DEF Failure, CallResult, RequestIds
<1>5. QED BY <1>3, <1>4

(* Every step of invoke() keeps the invariant.                             *)
LEMMA ClientStep ==
    ASSUME PathInv, ClientNext
    PROVE  PathInv'
<1>t. /\ TransportTypeOK /\ TransportInv /\ ClientInv
      /\ cpc \in {"idle", "awaiting", "returned"} /\ envelope \in Envelopes
      /\ callResult \in [status: CallStatuses \cup {"none"}, raw: BOOLEAN,
                     http: HttpStatuses \cup {0}, usage: BOOLEAN, id: RequestIds]
    BY DEF PathInv, ClientTypeOK
<1>f. \A s \in CallStatuses : Failure(s) \in
         [status: CallStatuses \cup {"none"}, raw: BOOLEAN,
          http: HttpStatuses \cup {0}, usage: BOOLEAN, id: RequestIds]
    BY DEF Failure, CallResult, RequestIds
(* The transport is left alone and the call ends before it began.          *)
<1>1. ASSUME cpc = "idle", cpc' = "returned", NEW s \in CallStatuses, callResult' = Failure(s),
             UNCHANGED <<envelope, transportVars>>
      PROVE  PathInv'
  <2>1. response' = NoResponse
    BY <1>1, <1>t DEF ClientInv, transportVars
  <2>2. TransportTypeOK' /\ TransportInv'
    BY <1>1, <1>t
    DEF transportVars, TransportTypeOK, TransportInv, ResponseWithinLimit, EndsByDeadline,
        TotalTimeout, WinConnect, Shorter, ConnectTimeout
  <2>3. ClientTypeOK'
    BY <1>1, <1>t, <1>f, <2>2 DEF ClientTypeOK
  <2>4. ReportedUsageIsKept'
    BY <1>1, <2>1 DEF ReportedUsageIsKept, Failure, CallResult, NoResponse, Response
  <2>5. QED BY <1>1, <2>2, <2>3, <2>4 DEF PathInv, ClientInv
<1>2. ASSUME NEW c \in Configs, RefuseConfig(c) PROVE PathInv'
  <2>1. "ConfigurationError" \in CallStatuses
    BY DEF CallStatuses
  <2>2. QED BY <1>1, <1>2, <2>1 DEF RefuseConfig
<1>3. ASSUME NEW c \in Configs, AdapterThrows(c) PROVE PathInv'
  <2>1. "ProviderError" \in CallStatuses
    BY DEF CallStatuses
  <2>2. QED BY <1>1, <1>3, <2>1 DEF AdapterThrows
<1>4. ASSUME NEW c \in Configs, Send(c) PROVE PathInv'
  <2>1. TransportTypeOK' /\ TransportInv'
    BY <1>4, <1>t, PerformPreserves DEF Send
  <2>2. cpc' = "awaiting" /\ UNCHANGED <<envelope, callResult>>
    BY <1>4 DEF Send
  <2>3. QED BY <1>t, <2>1, <2>2 DEF PathInv, ClientTypeOK, ClientInv, ReportedUsageIsKept
<1>5. ASSUME Transferring PROVE PathInv'
  <2>1. TransportTypeOK' /\ TransportInv'
    BY <1>5, <1>t, TransportStep DEF Transferring
  <2>2. cpc' = "awaiting" /\ UNCHANGED <<envelope, callResult>>
    BY <1>5 DEF Transferring
  <2>3. QED BY <1>t, <2>1, <2>2 DEF PathInv, ClientTypeOK, ClientInv, ReportedUsageIsKept
<1>6. ASSUME NEW e \in Bodies(response.bytes), ReceiveResponse(e) PROVE PathInv'
  <2>1. /\ cpc' = "returned" /\ envelope' = e /\ callResult' = Classify(response, e)
        /\ response.transport # "none" /\ UNCHANGED transportVars
    BY <1>6 DEF ReceiveResponse
  <2>2. response \in [transport: TransportStatuses \ {"none"},
                      code: HttpStatuses \cup {0}, bytes: Nat]
    BY <1>t, <2>1 DEF TransportTypeOK
  <2>3. response.transport = "Completed" => response.code \in HttpStatuses
    BY <1>t DEF TransportInv, ResponseWithinLimit
  <2>4. LET x == Classify(response, e)
        IN  /\ x \in [status: CallStatuses, raw: BOOLEAN, http: HttpStatuses \cup {0},
                       usage: BOOLEAN, id: RequestIds]
            /\ x.raw => /\ x.status = "Succeeded" /\ response.transport = "Completed"
                        /\ e.content
            /\ x.usage <=> response.transport = "Completed" /\ e.usage
            /\ x.id = "body" <=> response.transport = "Completed" /\ e.id
    BY <2>2, <2>3, ClassifyExposes
  <2>5. TransportTypeOK' /\ TransportInv'
    BY <1>t, <2>1
    DEF transportVars, TransportTypeOK, TransportInv, ResponseWithinLimit, EndsByDeadline,
        TotalTimeout, WinConnect, Shorter, ConnectTimeout
  <2>6. e \in Envelopes
    BY DEF Bodies
  <2>7. ClientTypeOK'
    BY <2>1, <2>4, <2>5, <2>6 DEF ClientTypeOK
  <2>8. ReportedUsageIsKept'
    BY <2>1, <2>4 DEF ReportedUsageIsKept, transportVars
  <2>9. QED BY <2>1, <2>5, <2>7, <2>8 DEF PathInv, ClientInv
<1>7. QED BY <1>2, <1>3, <1>4, <1>5, <1>6 DEF ClientNext

(* The client of a new trace.                                              *)
Fresh ==
    /\ platform \in {"winhttp", "libcurl"} /\ tpc = "idle" /\ request = NoRequest
    /\ elapsed = 0 /\ received = 0 /\ statusLine = 0 /\ response = NoResponse
    /\ cpc = "idle" /\ envelope = NoEnvelope /\ callResult = NoResult

LEMMA FreshClient == Fresh => PathInv
<1> SUFFICES ASSUME Fresh PROVE PathInv
    OBVIOUS
<1> USE DEF Fresh
<1>1. TransportTypeOK
    BY DEF TransportTypeOK, TransportPcs, TransportStatuses, NoResponse, Response
<1>2. ClientTypeOK
    BY <1>1 DEF ClientTypeOK, Envelopes, NoEnvelope, NoResult, CallResult, RequestIds
<1>3. ResponseWithinLimit
    BY TransportAssumption DEF ResponseWithinLimit, NoResponse, Response
<1>4. EndsByDeadline
    BY <1>1, Deadlines DEF EndsByDeadline
<1>5. QED BY <1>2, <1>3, <1>4 DEF PathInv, TransportInv, ClientInv, ReportedUsageIsKept

----------------------------------------------------------------------------
(* The invariant holds initially and in every step of the run.             *)
THEOREM PathInvariant == PathSpec => []PathInv
<1>1. PathInit => PathInv
    BY FreshClient DEF Fresh, PathInit, ClientInit, TransportInit
<1>2. PathInv /\ [PathNext]_pathVars => PathInv'
  <2> SUFFICES ASSUME PathInv, [PathNext]_pathVars PROVE PathInv'
    OBVIOUS
  <2>1. CASE Calling
    BY <2>1, ClientStep DEF Calling
  <2>2. CASE NextTrace
    <3>1. platform' \in {"winhttp", "libcurl"}
      BY <2>2 DEF NextTrace, PathInv, ClientTypeOK, TransportTypeOK
    <3>2. Fresh'
      BY <2>2, <3>1 DEF Fresh, NextTrace, NoRequest, NoResponse, Response, NoEnvelope,
                        NoResult, CallResult
    <3>3. Fresh' => PathInv'
      BY FreshClient, PTL
    <3>4. QED BY <3>2, <3>3
  <2>3. CASE UNCHANGED clientVars
    BY <2>3
    DEF clientVars, transportVars, PathInv, ClientTypeOK, TransportTypeOK, TransportInv,
        ClientInv, ReportedUsageIsKept, ResponseWithinLimit, EndsByDeadline,
        TotalTimeout, WinConnect, Shorter, ConnectTimeout
  <2>4. QED BY <2>1, <2>2, <2>3
    DEF PathNext, pathVars, GiveUp, Mark, Import, OpenDataset, Report
<1>3. QED BY <1>1, <1>2, PTL DEF PathSpec

(* A response that is handed on keeps to the size limit, for every limit.  *)
THEOREM ResponsesAreLimited == PathSpec => []ResponseWithinLimit
<1>1. PathInv => ResponseWithinLimit
    BY DEF PathInv, TransportInv
<1>2. QED BY <1>1, PathInvariant, PTL

(* A request has a deadline and keeps it, for every setting of timeouts.   *)
THEOREM RequestsEnd == PathSpec => []EndsByDeadline
<1>1. PathInv => EndsByDeadline
    BY DEF PathInv, TransportInv
<1>2. QED BY <1>1, PathInvariant, PTL

(* The usage a provider reports is kept, for every answer.                 *)
THEOREM UsageIsKept == PathSpec => []ReportedUsageIsKept
<1>1. PathInv => ReportedUsageIsKept
    BY DEF PathInv, ClientInv
<1>2. QED BY <1>1, PathInvariant, PTL

----------------------------------------------------------------------------
(* The classifier lets a document pass only if it keeps the contract.      *)
LEMMA ParsedKeepsContract ==
    ASSUME NEW d \in Document, NEW c \in BOOLEAN, ClassifyResponse(d, c) = "parsed"
    PROVE  /\ d.status \in DiagnosisStatuses
           /\ d.status = "incorrect" <=> d.findings # {}
           /\ d.status = "incorrect" <=> d.primary # Null
           /\ d.primary # Null => \E f \in d.findings : f.category = d.primary
           /\ \A f \in d.findings : f.stage = ImplementationStage =>
                  f.category = MismatchCategory /\ c
<1>1. d.form \in {"blank", "text", "value", "object"}
    BY DEF Document
<1>2. d.form = "object"
    BY <1>1 DEF ClassifyResponse
<1>3. SchemaOk(d) /\ SemanticsOk(d, c)
    BY <1>2 DEF ClassifyResponse
<1>4. StatusSemanticsOk(d) /\ \A f \in d.findings : FindingSemanticsOk(f, c)
    BY <1>3 DEF SemanticsOk
<1>5. d.status \in DiagnosisStatuses
    BY <1>3 DEF SchemaOk
<1>6. QED BY <1>4, <1>5 DEF StatusSemanticsOk, FindingSemanticsOk, CategorySet

WrappersInv ==
    /\ wrapper = [t \in TraceSet |-> wrapper[t]]
    /\ PredictionsKeepContract

(* An import writes the wrapper of one of the documents.                   *)
LEMMA ImportsADocument ==
    ASSUME Import
    PROVE  /\ Asking /\ NextTrace
           /\ \E d \in Documents :
                 wrapper' = [wrapper EXCEPT ![Current] =
                               WrapperFor(ClassifyResponse(d, Current \in HasCandidate), d)]
<1>1. ImportedWrappers[(Current \in HasCandidate)] =
        {WrapperFor(ClassifyResponse(d, Current \in HasCandidate), d) : d \in Documents}
  BY DEF ImportedWrappers
<1>2. PICK w \in ImportedWrappers[(Current \in HasCandidate)] :
        wrapper' = [wrapper EXCEPT ![Current] = w]
  BY DEF Import
<1> QED BY <1>1, <1>2 DEF Import

(* Whatever the model answers, a prediction keeps the contract.            *)
THEOREM PredictionsAreSound == PathSpec => []PredictionsKeepContract
<1>1. PathInit => WrappersInv
    BY DEF PathInit, WrappersInv, PredictionsKeepContract, PredictionKeepsContract, NoWrapper,
           Wrapper
<1>2. WrappersInv /\ [PathNext]_pathVars => WrappersInv'
  <2> SUFFICES ASSUME WrappersInv, [PathNext]_pathVars PROVE WrappersInv'
    OBVIOUS
  <2>1. CASE UNCHANGED wrapper
    BY <2>1 DEF WrappersInv, PredictionsKeepContract, PredictionKeepsContract
  <2>2. ASSUME NEW w, wrapper' = [wrapper EXCEPT ![Current] = w],
               IF w.parse_status # "parsed" THEN w.prediction = NoDiagnosis
               ELSE LET p == w.prediction
                    IN  /\ p.status \in DiagnosisStatuses
                        /\ p.status = "incorrect" <=> p.findings # {}
                        /\ p.status = "incorrect" <=> p.primary # Null
                        /\ p.primary # Null => \E f \in p.findings : f.category = p.primary
                        /\ \A f \in p.findings : f.stage = ImplementationStage =>
                              f.category = MismatchCategory /\ Current \in HasCandidate
        PROVE  WrappersInv'
    <3>1. wrapper' = [t \in TraceSet |-> wrapper'[t]]
      BY <2>2 DEF WrappersInv
    <3>2. ASSUME NEW t \in TraceSet PROVE PredictionKeepsContract(t, t \in HasCandidate)'
      <4>1. CASE t = Current
        <5>1. wrapper'[t] = w
          BY <2>2, <4>1 DEF WrappersInv
        <5>2. QED BY <2>2, <4>1, <5>1 DEF PredictionKeepsContract
      <4>2. CASE t # Current
        <5>1. wrapper'[t] = wrapper[t]
          BY <2>2, <4>2 DEF WrappersInv
        <5>2. PredictionKeepsContract(t, t \in HasCandidate)
          BY DEF WrappersInv, PredictionsKeepContract
        <5>3. QED BY <5>1, <5>2 DEF PredictionKeepsContract
      <4>3. QED BY <4>1, <4>2
    <3>3. QED BY <3>1, <3>2 DEF WrappersInv, PredictionsKeepContract
  <2>3. ASSUME Mark PROVE WrappersInv'
    <3>1. WrapperFor("model_call_not_attempted", NoDiagnosis)
            = Wrapper("model_call_not_attempted", NoDiagnosis)
      BY DEF WrapperFor
    <3>2. QED BY <2>2, <2>3, <3>1 DEF Mark, Wrapper
  <2>4. ASSUME Import PROVE WrappersInv'
    <3>0. PICK d \in Documents :
            wrapper' = [wrapper EXCEPT ![Current] =
                          WrapperFor(ClassifyResponse(d, Current \in HasCandidate), d)]
      BY <2>4, ImportsADocument
    <3> DEFINE s == ClassifyResponse(d, Current \in HasCandidate)
    <3>1. d \in Document
      BY PathAssumption
    <3>2. wrapper' = [wrapper EXCEPT ![Current] = WrapperFor(s, d)]
      BY <3>0
    <3>3. CASE s = "parsed"
      <4>1. WrapperFor(s, d) = Wrapper("parsed", Diagnosis(d.status, d.primary, d.findings))
        BY <3>3 DEF WrapperFor
      <4>2. /\ d.status \in DiagnosisStatuses
            /\ d.status = "incorrect" <=> d.findings # {}
            /\ d.status = "incorrect" <=> d.primary # Null
            /\ d.primary # Null => \E f \in d.findings : f.category = d.primary
            /\ \A f \in d.findings : f.stage = ImplementationStage =>
                  f.category = MismatchCategory /\ Current \in HasCandidate
        <5>1. (Current \in HasCandidate) \in BOOLEAN
          OBVIOUS
        <5>2. QED BY <3>1, <3>3, <5>1, ParsedKeepsContract
      <4>3. QED BY <2>2, <3>2, <4>1, <4>2 DEF Wrapper, Diagnosis
    <3>4. CASE s # "parsed"
      <4>1. WrapperFor(s, d) = Wrapper(s, NoDiagnosis)
        BY <3>4 DEF WrapperFor
      <4>2. QED BY <2>2, <3>2, <3>4, <4>1 DEF Wrapper
    <3>5. QED BY <3>3, <3>4
  <2>5. QED BY <2>1, <2>3, <2>4
    DEF PathNext, pathVars, metricsVars, Calling, GiveUp, OpenDataset, Report, CountTrace
<1>3. WrappersInv => PredictionsKeepContract
    BY DEF WrappersInv
<1>4. QED BY <1>1, <1>2, <1>3, PTL DEF PathSpec
----------------------------------------------------------------------------
(* The counts by name                                                      *)
IsBag(B) ==
    /\ IsFiniteSet(DOMAIN B)
    /\ B = [c \in DOMAIN B |-> B[c]]
    /\ \A c \in DOMAIN B : B[c] \in Nat

LEMMA CellsForm ==
    ASSUME NEW B, IsBag(B), NEW S
    PROVE  Cells(B, S) = SumOf(B, DOMAIN B \cap S)
<1> DEFINE D == DOMAIN B \cap S
           F(g) == [s \in SUBSET D |->
                       IF s = {} THEN 0
                       ELSE B[CHOOSE x \in s : TRUE] + g[s \ {CHOOSE x \in s : TRUE}]]
           G == CHOOSE g : g = F(g)
<1>1. Cells(B, S) = G[D]
  BY DEF Cells, MapThenSumSet, MapThenFoldSet
<1>2. ASSUME NEW g PROVE g = F(g) <=> IsSum(g, B, D)
  BY DEF IsSum, Some
<1>3. IsFiniteSet(D)
  BY FS_Intersection DEF IsBag
<1> HIDE DEF D
<1>4. G = F(G)
  <2>1. PICK g : IsSum(g, B, D)
    BY <1>3, SumExists
  <2>2. g = F(g)
    BY <1>2, <2>1
  <2> HIDE DEF F
  <2> QED BY <2>2
<1>5. SumOf(B, D) = G[D]
  BY <1>2, <1>3, <1>4, SumIsUnique
<1> QED BY <1>1, <1>5 DEF D

(* One more of a name is one more in the sum over any names it is among.   *)
AddsCell(B, x, S) ==
    /\ IsBag(Plus(B, x)) /\ DOMAIN Plus(B, x) = DOMAIN B \cup {x}
    /\ Cells(B, S) \in Nat
    /\ Cells(Plus(B, x), S) = Cells(B, S) + One(x \in S)

LEMMA CellsAdd ==
    ASSUME NEW B, IsBag(B), NEW x, NEW S
    PROVE  AddsCell(B, x, S)
<1> DEFINE C == Plus(B, x)
           f == [c \in DOMAIN B \cup {x} |-> IF c \in DOMAIN B THEN B[c] ELSE 0]
           D == (DOMAIN B \cup {x}) \cap S
           E == DOMAIN B \cap S
<1>1. C = [c \in DOMAIN B \cup {x} |->
              IF c = x THEN f[x] + 1 ELSE f[c]]
  <2>1. \A c \in DOMAIN B : B[c] \in Nat
    BY DEF IsBag
  <2> QED BY <2>1 DEF Plus, (+), SetToBag
<1>2. \A c \in DOMAIN B \cup {x} : f[c] \in Nat
  BY DEF IsBag
<1>3. IsFiniteSet(DOMAIN B \cup {x}) /\ DOMAIN C = DOMAIN B \cup {x}
  BY <1>1, FS_AddElement DEF IsBag
<1>4. IsBag(C)
  BY <1>1, <1>2, <1>3 DEF IsBag
<1>5. IsFiniteSet(D) /\ IsFiniteSet(E)
  BY <1>3, FS_Intersection DEF IsBag
<1>6. Cells(B, S) = SumOf(B, E) /\ Cells(C, S) = SumOf(C, D)
  BY <1>3, <1>4, CellsForm
<1>7. SumOf(f, D) = SumOf(f, E) /\ SumOf(f, E) = SumOf(B, E) /\ SumOf(B, E) \in Nat
  <2>1. E \in SUBSET D /\ \A c \in D \ E : f[c] = 0
    OBVIOUS
  <2>2. \A c \in D : f[c] \in Nat
    BY <1>2
  <2>3. \A c \in E : f[c] = B[c] /\ B[c] \in Nat
    BY DEF IsBag
  <2> HIDE DEF D, E, f
  <2> QED BY <1>5, <2>1, <2>2, <2>3, SumOfSupport, SumOfEqual, SumOfNumbers
<1>8. SumOf(C, D) = SumOf(f, D) + (IF x \in S THEN 1 ELSE 0)
  <2>1. CASE x \in S
    <3>1. /\ x \in D /\ \A c \in D : f[c] \in Nat /\ C[c] \in Nat
          /\ \A c \in D \ {x} : f[c] = C[c]
          /\ C[x] = f[x] + 1
      <4>1. x \in D /\ \A c \in D : c \in DOMAIN B \cup {x} /\ f[c] \in Nat
        BY <1>2, <2>1
      <4> HIDE DEF C, f, D
      <4> QED BY <1>1, <4>1
    <3>2. SumOf(f, D) \in Nat
      BY <1>7
    <3> HIDE DEF C, D, f
    <3>3. SumOf(C, D) + f[x] = SumOf(f, D) + C[x]
      BY <1>5, <3>1, SumOfChange
    <3>4. SumOf(C, D) \in Nat /\ f[x] \in Nat
      BY <1>5, <3>1, SumOfNumbers
    <3> QED BY <2>1, <3>1, <3>2, <3>3, <3>4
  <2>2. CASE x \notin S
    <3>1. \A c \in D : f[c] = C[c]
      BY <1>1, <2>2
    <3>2. SumOf(f, D) \in Nat
      BY <1>7
    <3> HIDE DEF C, D, f
    <3>3. SumOf(C, D) = SumOf(f, D)
      BY <1>5, <3>1, SumOfEqual
    <3> QED BY <2>2, <3>2, <3>3
  <2> QED BY <2>1, <2>2
<1> QED BY <1>3, <1>4, <1>6, <1>7, <1>8 DEF AddsCell, One

(* One more cell in all.                                                   *)
LEMMA AllCellsAdd ==
    ASSUME NEW B, IsBag(B), NEW x
    PROVE  AllCells(Plus(B, x)) = AllCells(B) + 1
<1> DEFINE S == DOMAIN B \cup {x}
<1>1. /\ IsBag(Plus(B, x)) /\ DOMAIN Plus(B, x) = S
      /\ Cells(Plus(B, x), S) = Cells(B, S) + 1
  <2>1. AddsCell(B, x, S)
    BY CellsAdd
  <2> QED BY <2>1 DEF AddsCell, One
<1>2. Cells(B, S) = Cells(B, DOMAIN B)
  <2>1. DOMAIN B \cap S = DOMAIN B \cap DOMAIN B
    OBVIOUS
  <2> QED BY <2>1, CellsForm
<1> QED BY <1>1, <1>2 DEF AllCells

----------------------------------------------------------------------------
(* Items of traces                                                         *)

Tagged(t, A) == {<<t, x>> : x \in A}

LEMMA TaggedSize ==
    ASSUME NEW t, NEW A, IsFiniteSet(A)
    PROVE  IsFiniteSet(Tagged(t, A)) /\ Cardinality(Tagged(t, A)) = Cardinality(A)
<1> DEFINE f == [x \in A |-> <<t, x>>]
<1>1. f \in [A -> Tagged(t, A)]
  BY DEF Tagged
<1>2. \A x, y \in A : f[x] = f[y] => x = y
  OBVIOUS
<1>3. \A z \in Tagged(t, A) : \E x \in A : f[x] = z
  BY DEF Tagged
<1>4. f \in Bijection(A, Tagged(t, A))
  <2> HIDE DEF f
  <2>1. f \in Injection(A, Tagged(t, A))
    BY <1>1, <1>2 DEF Injection, IsInjective
  <2>2. f \in Surjection(A, Tagged(t, A))
    BY <1>1, <1>3 DEF Surjection
  <2> QED BY <2>1, <2>2 DEF Bijection
<1> QED BY <1>4, FS_Bijection DEF ExistsBijection

(* What two sets share and do not share, when the items of a new trace are *)
(* put into each of them.                                                  *)
UnionSizes(t, X, Y, A, B) ==
    LET P == X \cup Tagged(t, A)    G == Y \cup Tagged(t, B)
    IN  /\ IsFiniteSet(P) /\ IsFiniteSet(G)
        /\ Cardinality(P \cap G) = Cardinality(X \cap Y) + Cardinality(A \cap B)
        /\ Cardinality(P \ G) = Cardinality(X \ Y) + Cardinality(A \ B)
        /\ Cardinality(G \ P) = Cardinality(Y \ X) + Cardinality(B \ A)

LEMMA TaggedUnion ==
    ASSUME NEW t, NEW X, NEW Y, NEW A, NEW B,
           IsFiniteSet(X), IsFiniteSet(Y), IsFiniteSet(A), IsFiniteSet(B),
           \A x : <<t, x>> \notin X \cup Y
    PROVE  UnionSizes(t, X, Y, A, B)
<1> DEFINE P == X \cup Tagged(t, A)
           G == Y \cup Tagged(t, B)
<1>1. IsFiniteSet(P) /\ IsFiniteSet(G)
  BY TaggedSize, FS_Union
<1>2. ASSUME NEW U, NEW V, IsFiniteSet(U), IsFiniteSet(V), \A x : <<t, x>> \notin U
      PROVE  Cardinality(U \cup Tagged(t, V)) = Cardinality(U) + Cardinality(V)
  <2>1. U \cap Tagged(t, V) = {}
    BY <1>2 DEF Tagged
  <2>2. IsFiniteSet(Tagged(t, V)) /\ Cardinality(Tagged(t, V)) = Cardinality(V)
    BY <1>2, TaggedSize
  <2>3. Cardinality(U) \in Nat /\ Cardinality(V) \in Nat /\ Cardinality({}) = 0
    BY <1>2, FS_CardinalityType, FS_EmptySet
  <2>4. Cardinality(U \cup Tagged(t, V)) =
            Cardinality(U) + Cardinality(Tagged(t, V)) - Cardinality(U \cap Tagged(t, V))
    BY <1>2, <2>2, FS_Union
  <2>5. Cardinality(U \cap Tagged(t, V)) = 0
    BY <2>1, <2>3
  <2> QED BY <2>2, <2>3, <2>4, <2>5
<1>3. P \cap G = (X \cap Y) \cup Tagged(t, A \cap B)
  BY DEF Tagged
<1>4. P \ G = (X \ Y) \cup Tagged(t, A \ B)
  BY DEF Tagged
<1>5. G \ P = (Y \ X) \cup Tagged(t, B \ A)
  BY DEF Tagged
<1>6. /\ IsFiniteSet(X \cap Y) /\ IsFiniteSet(X \ Y) /\ IsFiniteSet(Y \ X)
      /\ IsFiniteSet(A \cap B) /\ IsFiniteSet(A \ B) /\ IsFiniteSet(B \ A)
  BY FS_Intersection, FS_Difference
<1> QED BY <1>1, <1>2, <1>3, <1>4, <1>5, <1>6 DEF UnionSizes

LEMMA Quotient ==
    ASSUME NEW a \in Nat, NEW d \in Nat \ {0}
    PROVE  /\ a \div d \in Int
           /\ d * (a \div d) <= a
           /\ a < d * ((a \div d) + 1)
<1>1. a \div d \in Int
  OBVIOUS
<1>2. d * (a \div d) <= a
  OBVIOUS
<1>3. a < d * ((a \div d) + 1)
  OBVIOUS
<1> QED BY <1>1, <1>2, <1>3

(* The F1 of one trace is one at most, and only where nothing differs.     *)
LEMMA F1Bound ==
    ASSUME NEW P, NEW G, IsFiniteSet(P), IsFiniteSet(G)
    PROVE  F1(P, G) \in Nat /\ F1(P, G) <= Scale /\ (F1(P, G) = Scale <=> P = G)
<1> DEFINE p == Cardinality(P)
           g == Cardinality(G)
           n == Cardinality(P \cap G)
<1>1. p \in Nat /\ g \in Nat /\ n \in Nat /\ n <= p /\ n <= g
  BY FS_CardinalityType, FS_Intersection
<1>2. n = p /\ n = g <=> P = G
  <2>1. n = p => P \cap G = P
    BY FS_Subset
  <2>2. n = g => P \cap G = G
    BY FS_Subset
  <2> QED BY <2>1, <2>2
<1>3. CASE P = {} /\ G = {}
  BY <1>3 DEF F1, Scale
<1>4. CASE ~(P = {} /\ G = {})
  <2>1. p + g \in Nat \ {0}
    BY <1>1, <1>4, FS_EmptySet
  <2>2. F1(P, G) = (24 * n) \div (p + g)
    BY <1>4 DEF F1, Scale
  <2> HIDE DEF n, p, g
  <2> DEFINE q == (24 * n) \div (p + g)
  <2>3. q \in Nat /\ q * (p + g) <= 24 * n /\ 24 * n < (q + 1) * (p + g)
    <3>1. 24 * n \in Nat
      BY <1>1
    <3>2. /\ q \in Int /\ (p + g) * q <= 24 * n
          /\ 24 * n < (p + g) * (q + 1)
      BY <2>1, <3>1, Quotient
    <3> HIDE DEF q
    <3>3. q >= 0
      BY <2>1, <3>1, <3>2
    <3> QED BY <1>1, <3>2, <3>3
  <2>4. 2 * n <= p + g /\ (2 * n = p + g <=> n = p /\ n = g)
    BY <1>1
  <2>5. q <= 12
    <3>1. q * (p + g) <= 12 * (p + g)
      BY <1>1, <2>3, <2>4
    <3> HIDE DEF q
    <3> QED BY <2>1, <2>3, <3>1
  <2>6. q = 12 <=> 2 * n = p + g
    <3> HIDE DEF q
    <3> QED BY <1>1, <2>1, <2>3, <2>4
  <2> QED BY <1>2, <2>2, <2>3, <2>4, <2>5, <2>6 DEF Scale
<1> QED BY <1>3, <1>4

----------------------------------------------------------------------------
(* The report                                                              *)

Numbers == {"parsed", "statusCorrect", "primaryCorrect", "incorrectGold", "tp", "fp", "fn",
            "pairTp", "pairFp", "pairFn", "macro", "undetermined"}
Fields == Numbers \cup {"runComplete", "statusCounts", "statusConf", "primaryConf"}

MetricsTypeOK ==
    /\ metrics = [c \in Fields |-> metrics[c]]
    /\ \A c \in Numbers : metrics[c] \in Nat
    /\ metrics.runComplete \in BOOLEAN

(* A wrapper of the run; what it predicts is in the taxonomy.              *)
WrapperOk(w) ==
    \/ w = NoWrapper
    \/ /\ w.parse_status \in ParseStatuses
       /\ w.parse_status = "parsed" =>
             /\ w.prediction.status \in DiagnosisStatuses
             /\ w.prediction.primary \in Categories \cup {Null}
             /\ PairSet(w.prediction.findings) \subseteq Stages \X Categories

(* buildReport takes no gold diagnosis of a trace without wrapper: what it *)
(* has counted is told with the gold items of the others, and compared     *)
(* with the definitions at the end.                                        *)
CountedCategories(t) == IF t \in Present THEN GoldCategories(t) ELSE {}
CountedPairs(t) == IF t \in Present THEN GoldPairs(t) ELSE {}
CountedIncorrect == {t \in Present : gold[t].status = "incorrect"}

PredictedItems == Items(PredictedCategories, Done)
GoldItems == Items(CountedCategories, Done)
PredictedPairItems == Items(PredictedPairs, Done)
GoldPairItems == Items(CountedPairs, Done)

Exact == {t \in Parsed : PredictedCategories(t) = CountedCategories(t)}

ItemsMatch ==
    /\ metrics.tp = Cardinality(PredictedItems \cap GoldItems)
    /\ metrics.fp = Cardinality(PredictedItems \ GoldItems)
    /\ metrics.fn = Cardinality(GoldItems \ PredictedItems)
    /\ metrics.pairTp = Cardinality(PredictedPairItems \cap GoldPairItems)
    /\ metrics.pairFp = Cardinality(PredictedPairItems \ GoldPairItems)
    /\ metrics.pairFn = Cardinality(GoldPairItems \ PredictedPairItems)

TracesMatch ==
    /\ metrics.macro <= Scale * Cardinality(Parsed)
    /\ metrics.macro = Scale * counted <=> Exact = Done
    /\ metrics.runComplete <=> Present = Done
    /\ metrics.incorrectGold = Cardinality(CountedIncorrect)

CellsMatch ==
    /\ AllCells(metrics.statusCounts) = counted
    /\ Cells(metrics.statusCounts, {"parsed"}) = metrics.parsed
    /\ AllCells(metrics.statusConf) = counted
    /\ Cells(metrics.statusConf, Diagonal(DiagnosisStatuses)) = metrics.statusCorrect
    /\ AllCells(metrics.primaryConf) = metrics.incorrectGold
    /\ Cells(metrics.primaryConf, Diagonal(Categories)) = metrics.primaryCorrect

CountsSoFar == ItemsMatch /\ TracesMatch /\ CellsMatch

(* The pass begins when all is known.                                      *)
ReportInv ==
    /\ asked \in 0..Len(TraceIds) /\ counted \in 0..Len(TraceIds)
    /\ Asking => counted = 0
    /\ counted = 0 => metrics = NoCounts
    /\ wrapper = [t \in TraceSet |-> wrapper[t]]
    /\ \A t \in TraceSet : WrapperOk(wrapper[t]) /\ gold[t] \in GoldDiagnoses \cup {NoDiagnosis}
    /\ MetricsTypeOK
    /\ IsBag(metrics.statusCounts) /\ IsBag(metrics.statusConf) /\ IsBag(metrics.primaryConf)
    /\ IsFiniteSet(PredictedItems) /\ IsFiniteSet(GoldItems)
    /\ IsFiniteSet(PredictedPairItems) /\ IsFiniteSet(GoldPairItems)
    /\ IsFiniteSet(Done) /\ Cardinality(Done) = counted
    /\ CountsSoFar

(* Categories and pairs of a diagnosis within the taxonomy.                *)
LEMMA TaxonomyIsFinite ==
    ASSUME NEW F, PairSet(F) \subseteq Stages \X Categories
    PROVE  /\ CategorySet(F) \subseteq Categories
           /\ IsFiniteSet(CategorySet(F)) /\ IsFiniteSet(PairSet(F))
<1>1. CategorySet(F) \subseteq Categories
  <2> SUFFICES ASSUME NEW f \in F PROVE f.category \in Categories
    BY DEF CategorySet
  <2>1. <<f.stage, f.category>> \in Stages \X Categories
    BY DEF PairSet
  <2> QED BY <2>1
<1>2. IsFiniteSet(Stages \X Categories)
  BY TaxonomyAssumption, FS_Product
<1> QED BY <1>1, <1>2, TaxonomyAssumption, FS_Subset

LEMMA GoldIsFinite ==
    ASSUME NEW g \in GoldDiagnoses \cup {NoDiagnosis}
    PROVE  /\ IsFiniteSet(CategorySet(GoldFindings(g))) /\ IsFiniteSet(PairSet(GoldFindings(g)))
           /\ CategorySet(GoldFindings(g)) \subseteq Categories
           /\ PairSet(GoldFindings(g)) \subseteq Stages \X Categories
<1>1. PairSet(GoldFindings(g)) \subseteq Stages \X Categories
  BY PathAssumption DEF GoldFindings, NoDiagnosis, Diagnosis, PairSet
<1> QED BY <1>1, TaxonomyIsFinite

----------------------------------------------------------------------------
(* What a step adds to the counters for the trace t, and to the sets that  *)
(* the metrics are defined by.                                             *)
Adds(t) ==
    LET w == wrapper[t]
        present == w # NoWrapper
        incorrect == present /\ gold[t].status = "incorrect"
        parsed == w.parse_status = "parsed"
        P == PredictedCategories(t)'    G == CountedCategories(t)'
        SP == PredictedPairs(t)'        SG == CountedPairs(t)'
    IN  /\ metrics'.tp = metrics.tp + Cardinality(P \cap G)
        /\ metrics'.fp = metrics.fp + Cardinality(P \ G)
        /\ metrics'.fn = metrics.fn + Cardinality(G \ P)
        /\ metrics'.pairTp = metrics.pairTp + Cardinality(SP \cap SG)
        /\ metrics'.pairFp = metrics.pairFp + Cardinality(SP \ SG)
        /\ metrics'.pairFn = metrics.pairFn + Cardinality(SG \ SP)
        /\ \E m \in 0..Scale : /\ metrics'.macro = metrics.macro + m
                               /\ m > 0 => parsed
                               /\ m = Scale <=> parsed /\ P = G
        /\ metrics'.runComplete <=> metrics.runComplete /\ present
        /\ metrics'.incorrectGold = metrics.incorrectGold + One(incorrect)
        /\ metrics'.parsed = metrics.parsed + One(parsed)
        /\ metrics'.statusCounts = Plus(metrics.statusCounts, w.parse_status)
        /\ \E cell : /\ metrics'.statusConf = Plus(metrics.statusConf, cell)
                     /\ metrics'.statusCorrect =
                           metrics.statusCorrect + One(cell \in Diagonal(DiagnosisStatuses))
        /\ IF incorrect
           THEN \E cell : /\ metrics'.primaryConf = Plus(metrics.primaryConf, cell)
                          /\ metrics'.primaryCorrect =
                                metrics.primaryCorrect + One(cell \in Diagonal(Categories))
           ELSE /\ metrics'.primaryConf = metrics.primaryConf
                /\ metrics'.primaryCorrect = metrics.primaryCorrect

(* The trace that a step counts.                                           *)
Counts(t) ==
    /\ t \in TraceSet /\ t = TraceIds[counted + 1] /\ t \notin Done
    /\ Done' = Done \cup {t} /\ counted' = counted + 1 /\ counted < Len(TraceIds)
    /\ UNCHANGED <<wrapper, gold>>

LEMMA CountsOne ==
    ASSUME ReportInv, CountTrace
    PROVE  \E t : Counts(t)
<1> DEFINE t == TraceIds[counted + 1]
<1>1. /\ counted \in Nat /\ counted + 1 \in 1..Len(TraceIds) /\ counted' = counted + 1
      /\ Len(TraceIds) \in Nat /\ counted < Len(TraceIds)
  BY TraceIdsAssumption DEF ReportInv, CountTrace
<1>2. t \notin Done
  BY <1>1, TraceIdsAssumption DEF Done
<1>3. \A i : i \in 1..(counted + 1) <=> i \in 1..counted \/ i = counted + 1
  BY <1>1
<1>4. Done' = Done \cup {t}
  BY <1>1, <1>3 DEF Done
<1>5. UNCHANGED <<wrapper, gold>>
  BY DEF CountTrace
<1>6. t \in TraceSet
  BY <1>1 DEF TraceSet
<1> HIDE DEF t
<1>7. Counts(t)
  BY <1>1, <1>2, <1>4, <1>5, <1>6 DEF Counts, t
<1> QED BY <1>7

(* What is said of the traces before does not change.                      *)
LEMMA ViewsGrow ==
    ASSUME NEW t, Counts(t)
    PROVE  /\ Present' = Present \cup {u \in {t} : wrapper[u] # NoWrapper}
           /\ Parsed' = Parsed \cup {u \in {t} : wrapper[u].parse_status = "parsed"}
           /\ CountedIncorrect' = CountedIncorrect \cup {u \in {t} : /\ wrapper[u] # NoWrapper
                                                       /\ gold[u].status = "incorrect"}
           /\ \A u \in Done : /\ PredictedCategories(u)' = PredictedCategories(u)
                              /\ CountedCategories(u)' = CountedCategories(u)
                              /\ PredictedPairs(u)' = PredictedPairs(u)
                              /\ CountedPairs(u)' = CountedPairs(u)
<1>1. Present' = Present \cup {u \in {t} : wrapper[u] # NoWrapper}
  BY DEF Counts, Present
<1>2. Parsed' = Parsed \cup {u \in {t} : wrapper[u].parse_status = "parsed"}
  BY DEF Counts, Parsed
<1>3. \A u : u \in CountedIncorrect' <=> u \in Present' /\ gold[u].status = "incorrect"
  BY DEF CountedIncorrect, Counts
<1>4. \A u : u \in CountedIncorrect <=> u \in Present /\ gold[u].status = "incorrect"
  BY DEF CountedIncorrect
<1>5. CountedIncorrect' = CountedIncorrect \cup {u \in {t} : /\ wrapper[u] # NoWrapper
                                               /\ gold[u].status = "incorrect"}
  BY <1>1, <1>3, <1>4
<1>6. ASSUME NEW u \in Done
      PROVE  /\ u \in Present' <=> u \in Present
             /\ u \in Parsed' <=> u \in Parsed
  BY <1>1, <1>2 DEF Counts
<1> QED BY <1>1, <1>2, <1>5, <1>6
        DEF PredictedCategories, CountedCategories, PredictedPairs, CountedPairs, Counts,
            GoldCategories, GoldPairs

(* The sets of the trace, by its wrapper.                                  *)
LEMMA ViewsOfOne ==
    ASSUME ReportInv, NEW t, Counts(t)
    PROVE  /\ PredictedCategories(t)' =
                 (IF wrapper[t].parse_status = "parsed"
                  THEN CategorySet(wrapper[t].prediction.findings) ELSE {"__parse_failed__"})
           /\ PredictedPairs(t)' =
                 (IF wrapper[t].parse_status = "parsed"
                  THEN PairSet(wrapper[t].prediction.findings)
                  ELSE {<<"__parse_failed__", "__parse_failed__">>})
           /\ CountedCategories(t)' =
                 (IF wrapper[t] # NoWrapper THEN CategorySet(GoldFindings(gold[t])) ELSE {})
           /\ CountedPairs(t)' =
                 (IF wrapper[t] # NoWrapper THEN PairSet(GoldFindings(gold[t])) ELSE {})
<1>1. t \in Parsed' <=> wrapper[t].parse_status = "parsed"
  BY DEF Parsed, Counts
<1>2. t \in Present' <=> wrapper[t] # NoWrapper
  BY DEF Present, Counts
<1>3. wrapper' = wrapper /\ gold' = gold
  BY DEF Counts
<1> QED BY <1>1, <1>2, <1>3
        DEF PredictedCategories, CountedCategories, PredictedPairs, CountedPairs,
            GoldCategories, GoldPairs

LEMMA ViewsAreFinite ==
    ASSUME ReportInv, NEW t, Counts(t)
    PROVE  /\ IsFiniteSet(PredictedCategories(t)') /\ IsFiniteSet(PredictedPairs(t)')
           /\ IsFiniteSet(CountedCategories(t)') /\ IsFiniteSet(CountedPairs(t)')
<1>1. WrapperOk(wrapper[t]) /\ gold[t] \in GoldDiagnoses \cup {NoDiagnosis}
  BY DEF ReportInv, Counts
<1>2. wrapper[t].parse_status = "parsed" =>
          PairSet(wrapper[t].prediction.findings) \subseteq Stages \X Categories
  BY <1>1 DEF WrapperOk, NoWrapper, Wrapper
<1>3. /\ IsFiniteSet({"__parse_failed__"}) /\ IsFiniteSet({})
      /\ IsFiniteSet({<<"__parse_failed__", "__parse_failed__">>})
  BY FS_Singleton, FS_EmptySet
<1>4. /\ IsFiniteSet(CategorySet(GoldFindings(gold[t])))
      /\ IsFiniteSet(PairSet(GoldFindings(gold[t])))
  BY <1>1, GoldIsFinite
<1>5. wrapper[t].parse_status = "parsed" =>
          /\ IsFiniteSet(CategorySet(wrapper[t].prediction.findings))
          /\ IsFiniteSet(PairSet(wrapper[t].prediction.findings))
  BY <1>2, TaxonomyIsFinite
<1>6. IsFiniteSet(PredictedCategories(t)') /\ IsFiniteSet(PredictedPairs(t)')
  BY <1>3, <1>5, ViewsOfOne
<1>7. IsFiniteSet(CountedCategories(t)') /\ IsFiniteSet(CountedPairs(t)')
  BY <1>3, <1>4, ViewsOfOne
<1> QED BY <1>6, <1>7

(* A prediction of nothing but the sentinel names no gold item.            *)
LEMMA SentinelMisses ==
    ASSUME NEW G, IsFiniteSet(G), NEW x, x \notin G
    PROVE  /\ Cardinality({x} \cap G) = 0 /\ Cardinality({x} \ G) = 1
           /\ Cardinality(G \ {x}) = Cardinality(G) /\ Cardinality(G) \in Nat
<1>1. {x} \cap G = {} /\ {x} \ G = {x} /\ G \ {x} = G
  OBVIOUS
<1> QED BY <1>1, FS_EmptySet, FS_Singleton, FS_CardinalityType

LEMMA NumbersAreTyped ==
    ASSUME metrics' = [c \in Fields |-> metrics'[c]], metrics'.runComplete \in BOOLEAN,
           metrics'.parsed \in Nat, metrics'.statusCorrect \in Nat,
           metrics'.primaryCorrect \in Nat, metrics'.incorrectGold \in Nat,
           metrics'.tp \in Nat, metrics'.fp \in Nat, metrics'.fn \in Nat,
           metrics'.pairTp \in Nat, metrics'.pairFp \in Nat, metrics'.pairFn \in Nat,
           metrics'.macro \in Nat, metrics'.undetermined \in Nat
    PROVE  MetricsTypeOK'
BY DEF MetricsTypeOK, Numbers

LEMMA NumbersTyped ==
    ASSUME MetricsTypeOK
    PROVE  /\ metrics.parsed \in Nat /\ metrics.statusCorrect \in Nat
           /\ metrics.primaryCorrect \in Nat /\ metrics.incorrectGold \in Nat
           /\ metrics.tp \in Nat /\ metrics.fp \in Nat /\ metrics.fn \in Nat
           /\ metrics.pairTp \in Nat /\ metrics.pairFp \in Nat /\ metrics.pairFn \in Nat
           /\ metrics.macro \in Nat /\ metrics.undetermined \in Nat
BY DEF MetricsTypeOK, Numbers

(* One trace whose wrapper is missing.                                     *)
LEMMA MissingAdds ==
    ASSUME ReportInv, NEW t, Counts(t), wrapper[t] = NoWrapper, metrics' = CountMissing(metrics)
    PROVE  Adds(t) /\ MetricsTypeOK'
<1>0. MetricsTypeOK
  BY DEF ReportInv
<1>1. /\ metrics'.fp = metrics.fp + 1 /\ metrics'.pairFp = metrics.pairFp + 1
      /\ metrics'.tp = metrics.tp /\ metrics'.fn = metrics.fn
      /\ metrics'.pairTp = metrics.pairTp /\ metrics'.pairFn = metrics.pairFn
      /\ metrics'.macro = metrics.macro /\ metrics'.runComplete = FALSE
      /\ metrics'.incorrectGold = metrics.incorrectGold /\ metrics'.parsed = metrics.parsed
      /\ metrics'.statusCorrect = metrics.statusCorrect
      /\ metrics'.primaryCorrect = metrics.primaryCorrect
      /\ metrics'.undetermined = metrics.undetermined
  BY <1>0 DEF MetricsTypeOK, CountMissing, Fields, Numbers
<1>2. /\ metrics'.statusCounts = Plus(metrics.statusCounts, "wrapper_missing")
      /\ metrics'.statusConf = Plus(metrics.statusConf, <<"<missing>", "<missing>">>)
      /\ metrics'.primaryConf = metrics.primaryConf
  BY <1>0 DEF MetricsTypeOK, CountMissing, Fields, Numbers
<1>3. metrics' = [c \in Fields |-> metrics'[c]]
  BY <1>0 DEF MetricsTypeOK, CountMissing
<1>4. MetricsTypeOK'
  <2>1. metrics'.fp \in Nat /\ metrics'.pairFp \in Nat
    BY <1>0, <1>1, NumbersTyped
  <2>2. metrics'.runComplete \in BOOLEAN
    BY <1>0 DEF MetricsTypeOK, CountMissing, Fields, Numbers
  <2>3. /\ metrics'.parsed \in Nat /\ metrics'.statusCorrect \in Nat
        /\ metrics'.primaryCorrect \in Nat /\ metrics'.incorrectGold \in Nat
        /\ metrics'.tp \in Nat /\ metrics'.fn \in Nat /\ metrics'.pairTp \in Nat
        /\ metrics'.pairFn \in Nat /\ metrics'.macro \in Nat /\ metrics'.undetermined \in Nat
    BY <1>0, <1>1, NumbersTyped
  <2> QED BY <1>3, <2>1, <2>2, <2>3, NumbersAreTyped
<1>5. wrapper[t].parse_status = "wrapper_missing"
  BY DEF NoWrapper, Wrapper
<1>6. /\ PredictedCategories(t)' = {"__parse_failed__"} /\ CountedCategories(t)' = {}
      /\ PredictedPairs(t)' = {<<"__parse_failed__", "__parse_failed__">>} /\ CountedPairs(t)' = {}
  BY <1>5, ViewsOfOne
<1>7. \A x : /\ Cardinality({x} \cap {}) = 0 /\ Cardinality({x} \ {}) = 1
             /\ Cardinality({} \ {x}) = 0
  BY FS_EmptySet, SentinelMisses
<1>8. <<"<missing>", "<missing>">> \notin Diagonal(DiagnosisStatuses)
  BY DEF Diagonal, DiagnosisStatuses
<1> DEFINE P == PredictedCategories(t)'    G == CountedCategories(t)'
           SP == PredictedPairs(t)'        SG == CountedPairs(t)'
<1>9. /\ Cardinality(P \cap G) = 0 /\ Cardinality(P \ G) = 1 /\ Cardinality(G \ P) = 0
      /\ Cardinality(SP \cap SG) = 0 /\ Cardinality(SP \ SG) = 1 /\ Cardinality(SG \ SP) = 0
  BY <1>6, <1>7
<1> HIDE DEF P, G, SP, SG
<1>13. /\ metrics'.tp = metrics.tp + Cardinality(P \cap G)
      /\ metrics'.fp = metrics.fp + Cardinality(P \ G)
      /\ metrics'.fn = metrics.fn + Cardinality(G \ P)
      /\ metrics'.pairTp = metrics.pairTp + Cardinality(SP \cap SG)
      /\ metrics'.pairFp = metrics.pairFp + Cardinality(SP \ SG)
      /\ metrics'.pairFn = metrics.pairFn + Cardinality(SG \ SP)
  BY <1>0, <1>1, <1>9, NumbersTyped
<1>10. \E m \in 0..Scale : /\ metrics'.macro = metrics.macro + m
                           /\ m > 0 => FALSE
                           /\ m = Scale <=> FALSE /\ P = G
  BY <1>0, <1>1, NumbersTyped DEF Scale
<1>11. \E cell : /\ metrics'.statusConf = Plus(metrics.statusConf, cell)
                 /\ metrics'.statusCorrect =
                       metrics.statusCorrect + One(cell \in Diagonal(DiagnosisStatuses))
  BY <1>0, <1>1, <1>2, <1>8, NumbersTyped DEF One
<1>12. Adds(t)
  BY <1>0, <1>1, <1>2, <1>5, <1>13, <1>10, <1>11, NumbersTyped
     DEF Adds, One, P, G, SP, SG
<1> QED BY <1>4, <1>12

(* What both kinds of wrapper count alike, field by field.                 *)
LEMMA PresentCounts ==
    ASSUME MetricsTypeOK, NEW w, NEW g, NEW m, m = CountPresent(metrics, w, g)
    PROVE  /\ m = [c \in Fields |-> m[c]]
           /\ m.statusCounts = Plus(metrics.statusCounts, w.parse_status)
           /\ m.incorrectGold = metrics.incorrectGold + One(g.status = "incorrect")
           /\ \A c \in Fields \ {"statusCounts", "incorrectGold"} : m[c] = metrics[c]
<1>1. m = [c \in Fields |-> m[c]]
  BY DEF MetricsTypeOK, CountPresent
<1>2. /\ m.statusCounts = Plus(metrics.statusCounts, w.parse_status)
      /\ m.incorrectGold = metrics.incorrectGold + One(g.status = "incorrect")
  BY DEF MetricsTypeOK, CountPresent, Fields, Numbers
<1>3. \A c \in Fields \ {"statusCounts", "incorrectGold"} : m[c] = metrics[c]
  BY DEF MetricsTypeOK, CountPresent
<1> QED BY <1>1, <1>2, <1>3

(* What a parse failure changes of the counters m, field by field.         *)
LEMMA FailedCounts ==
    ASSUME NEW m, m = [c \in Fields |-> m[c]], NEW g, NEW n, n = CountParseFailed(m, g)
    PROVE  /\ n = [c \in Fields |-> n[c]]
           /\ n.fp = m.fp + 1 /\ n.pairFp = m.pairFp + 1
           /\ n.fn = m.fn + Cardinality(CategorySet(GoldFindings(g)))
           /\ n.pairFn = m.pairFn + Cardinality(PairSet(GoldFindings(g)))
           /\ n.statusConf = Plus(m.statusConf, <<GoldRow(g), "<parse_failed>">>)
           /\ n.primaryConf = AddPrimary(m.primaryConf, g, "<parse_failed>")
           /\ \A c \in Fields \ {"fp", "pairFp", "fn", "pairFn", "statusConf", "primaryConf"} :
                 n[c] = m[c]
<1>1. n = [c \in Fields |-> n[c]]
  BY DEF CountParseFailed
<1>2. /\ n.fp = m.fp + 1 /\ n.pairFp = m.pairFp + 1
      /\ n.fn = m.fn + Cardinality(CategorySet(GoldFindings(g)))
      /\ n.pairFn = m.pairFn + Cardinality(PairSet(GoldFindings(g)))
  BY DEF CountParseFailed, Fields, Numbers
<1>3. /\ n.statusConf = Plus(m.statusConf, <<GoldRow(g), "<parse_failed>">>)
      /\ n.primaryConf = AddPrimary(m.primaryConf, g, "<parse_failed>")
  BY DEF CountParseFailed, Fields, Numbers
<1>4. \A c \in Fields \ {"fp", "pairFp", "fn", "pairFn", "statusConf", "primaryConf"} :
          n[c] = m[c]
  BY DEF CountParseFailed
<1> QED BY <1>1, <1>2, <1>3, <1>4

(* One trace whose answer was not parsed.                                  *)
LEMMA FailedAdds ==
    ASSUME ReportInv, NEW t, Counts(t), wrapper[t] # NoWrapper,
           wrapper[t].parse_status # "parsed",
           metrics' = CountParseFailed(CountPresent(metrics, wrapper[t], gold[t]), gold[t])
    PROVE  Adds(t) /\ MetricsTypeOK'
<1>0. MetricsTypeOK
  BY DEF ReportInv
<1> DEFINE g == gold[t]
           m == CountPresent(metrics, wrapper[t], g)
           C == CategorySet(GoldFindings(g))
           D == PairSet(GoldFindings(g))
<1>1. /\ m = [c \in Fields |-> m[c]]
      /\ m.statusCounts = Plus(metrics.statusCounts, wrapper[t].parse_status)
      /\ m.incorrectGold = metrics.incorrectGold + One(g.status = "incorrect")
      /\ \A c \in Fields \ {"statusCounts", "incorrectGold"} : m[c] = metrics[c]
  BY <1>0, PresentCounts
<1>2. /\ metrics' = [c \in Fields |-> metrics'[c]]
      /\ metrics'.fp = m.fp + 1 /\ metrics'.pairFp = m.pairFp + 1
      /\ metrics'.fn = m.fn + Cardinality(C) /\ metrics'.pairFn = m.pairFn + Cardinality(D)
      /\ metrics'.statusConf = Plus(m.statusConf, <<GoldRow(g), "<parse_failed>">>)
      /\ metrics'.primaryConf = AddPrimary(m.primaryConf, g, "<parse_failed>")
      /\ \A c \in Fields \ {"fp", "pairFp", "fn", "pairFn", "statusConf", "primaryConf"} :
            metrics'[c] = m[c]
  <2>1. metrics' = CountParseFailed(m, g)
    OBVIOUS
  <2> HIDE DEF m
  <2> QED BY <1>1, <2>1, FailedCounts
<1> HIDE DEF m
<1>3. /\ metrics'.fp = metrics.fp + 1 /\ metrics'.pairFp = metrics.pairFp + 1
      /\ metrics'.fn = metrics.fn + Cardinality(C)
      /\ metrics'.pairFn = metrics.pairFn + Cardinality(D)
      /\ metrics'.incorrectGold = metrics.incorrectGold + One(g.status = "incorrect")
      /\ metrics'.tp = metrics.tp /\ metrics'.pairTp = metrics.pairTp
      /\ metrics'.macro = metrics.macro /\ metrics'.parsed = metrics.parsed
      /\ metrics'.statusCorrect = metrics.statusCorrect
      /\ metrics'.primaryCorrect = metrics.primaryCorrect
      /\ metrics'.undetermined = metrics.undetermined
  BY <1>1, <1>2 DEF Fields, Numbers
<1>4. /\ metrics'.statusCounts = Plus(metrics.statusCounts, wrapper[t].parse_status)
      /\ metrics'.statusConf = Plus(metrics.statusConf, <<GoldRow(g), "<parse_failed>">>)
      /\ metrics'.primaryConf = AddPrimary(metrics.primaryConf, g, "<parse_failed>")
      /\ metrics'.runComplete = metrics.runComplete
  BY <1>1, <1>2 DEF Fields, Numbers
<1>5. metrics' = [c \in Fields |-> metrics'[c]]
  BY <1>2
<1>6. /\ IsFiniteSet(C) /\ IsFiniteSet(D)
      /\ "__parse_failed__" \notin C /\ <<"__parse_failed__", "__parse_failed__">> \notin D
  <2>1. gold[t] \in GoldDiagnoses \cup {NoDiagnosis}
    BY DEF ReportInv, Counts
  <2> QED BY <2>1, GoldIsFinite, SentinelAssumption
<1>7. /\ Cardinality(C) \in Nat /\ Cardinality(D) \in Nat
  BY <1>6, FS_CardinalityType
<1>8. metrics'.incorrectGold \in Nat
  BY <1>0, <1>3, NumbersTyped DEF One
<1>9. MetricsTypeOK'
  <2>1. metrics'.runComplete \in BOOLEAN
    BY <1>0, <1>4 DEF MetricsTypeOK
  <2>2. /\ metrics'.fp \in Nat /\ metrics'.pairFp \in Nat
        /\ metrics'.fn \in Nat /\ metrics'.pairFn \in Nat
    BY <1>0, <1>3, <1>7, NumbersTyped
  <2>3. /\ metrics'.parsed \in Nat /\ metrics'.statusCorrect \in Nat
        /\ metrics'.primaryCorrect \in Nat /\ metrics'.tp \in Nat /\ metrics'.pairTp \in Nat
        /\ metrics'.macro \in Nat /\ metrics'.undetermined \in Nat
    BY <1>0, <1>3, NumbersTyped
  <2> QED BY <1>5, <1>8, <2>1, <2>2, <2>3, NumbersAreTyped
<1>10. /\ PredictedCategories(t)' = {"__parse_failed__"} /\ CountedCategories(t)' = C
       /\ PredictedPairs(t)' = {<<"__parse_failed__", "__parse_failed__">>} /\ CountedPairs(t)' = D
  BY ViewsOfOne
<1> DEFINE P == PredictedCategories(t)'    G == CountedCategories(t)'
           SP == PredictedPairs(t)'        SG == CountedPairs(t)'
<1>11. /\ Cardinality(P \cap G) = 0 /\ Cardinality(P \ G) = 1
       /\ Cardinality(G \ P) = Cardinality(C)
       /\ Cardinality(SP \cap SG) = 0 /\ Cardinality(SP \ SG) = 1
       /\ Cardinality(SG \ SP) = Cardinality(D)
  <2> HIDE DEF C, D
  <2>1. \A x : x \notin C => /\ Cardinality({x} \cap C) = 0 /\ Cardinality({x} \ C) = 1
                             /\ Cardinality(C \ {x}) = Cardinality(C)
    BY <1>6, SentinelMisses
  <2>2. \A x : x \notin D => /\ Cardinality({x} \cap D) = 0 /\ Cardinality({x} \ D) = 1
                             /\ Cardinality(D \ {x}) = Cardinality(D)
    BY <1>6, SentinelMisses
  <2> QED BY <1>6, <1>10, <2>1, <2>2
<1> HIDE DEF P, G, SP, SG, C, D
<1>12. /\ metrics'.tp = metrics.tp + Cardinality(P \cap G)
       /\ metrics'.fp = metrics.fp + Cardinality(P \ G)
       /\ metrics'.fn = metrics.fn + Cardinality(G \ P)
       /\ metrics'.pairTp = metrics.pairTp + Cardinality(SP \cap SG)
       /\ metrics'.pairFp = metrics.pairFp + Cardinality(SP \ SG)
       /\ metrics'.pairFn = metrics.pairFn + Cardinality(SG \ SP)
  BY <1>0, <1>3, <1>11, NumbersTyped
<1>13. \E n \in 0..Scale : /\ metrics'.macro = metrics.macro + n
                           /\ n > 0 => FALSE
                           /\ n = Scale <=> FALSE /\ P = G
  BY <1>0, <1>3, NumbersTyped DEF Scale
<1>14. \E cell : /\ metrics'.statusConf = Plus(metrics.statusConf, cell)
                 /\ metrics'.statusCorrect =
                       metrics.statusCorrect + One(cell \in Diagonal(DiagnosisStatuses))
  <2>1. <<GoldRow(g), "<parse_failed>">> \notin Diagonal(DiagnosisStatuses)
    BY DEF Diagonal, DiagnosisStatuses
  <2> QED BY <1>0, <1>3, <1>4, <2>1, NumbersTyped DEF One
<1>15. IF g.status = "incorrect"
       THEN \E cell : /\ metrics'.primaryConf = Plus(metrics.primaryConf, cell)
                      /\ metrics'.primaryCorrect =
                            metrics.primaryCorrect + One(cell \in Diagonal(Categories))
       ELSE /\ metrics'.primaryConf = metrics.primaryConf
            /\ metrics'.primaryCorrect = metrics.primaryCorrect
  <2>1. <<g.primary, "<parse_failed>">> \notin Diagonal(Categories)
    BY SentinelAssumption DEF Diagonal
  <2> QED BY <1>0, <1>3, <1>4, <2>1, NumbersTyped DEF One, AddPrimary
<1>16. metrics'.parsed = metrics.parsed + One(FALSE)
  BY <1>0, <1>3, NumbersTyped DEF One
<1>17. Adds(t)
  BY <1>3, <1>4, <1>12, <1>13, <1>14, <1>15, <1>16 DEF Adds, P, G, SP, SG
<1> QED BY <1>9, <1>17

(* What a prediction changes of the counters m, field by field.            *)
ParsedFields == {"parsed", "statusCorrect", "primaryCorrect", "tp", "fp", "fn", "pairTp",
                 "pairFp", "pairFn", "macro", "undetermined", "statusConf", "primaryConf"}

ParsedChanges(m, p, g, n) ==
    LET P == CategorySet(p.findings)    G == CategorySet(GoldFindings(g))
        SP == PairSet(p.findings)       SG == PairSet(GoldFindings(g))
    IN  /\ n = [c \in Fields |-> n[c]]
        /\ n.parsed = m.parsed + 1
        /\ n.statusCorrect = m.statusCorrect + One(p.status = g.status)
        /\ n.primaryCorrect =
              m.primaryCorrect + One(/\ g.status = "incorrect" /\ p.primary # Null
                                     /\ p.primary = g.primary)
        /\ n.tp = m.tp + Cardinality(P \cap G)
        /\ n.fp = m.fp + Cardinality(P \ G)
        /\ n.fn = m.fn + Cardinality(G \ P)
        /\ n.pairTp = m.pairTp + Cardinality(SP \cap SG)
        /\ n.pairFp = m.pairFp + Cardinality(SP \ SG)
        /\ n.pairFn = m.pairFn + Cardinality(SG \ SP)
        /\ n.macro = m.macro + F1(P, G)
        /\ n.undetermined = m.undetermined + One(p.status = "undetermined")
        /\ n.statusConf = Plus(m.statusConf,
              <<GoldRow(g), IF g # NoDiagnosis THEN p.status ELSE "<parse_failed>">>)
        /\ n.primaryConf = AddPrimary(m.primaryConf, g, p.primary)
        /\ \A c \in Fields \ ParsedFields : n[c] = m[c]

LEMMA ParsedCounts ==
    ASSUME NEW m, m = [c \in Fields |-> m[c]], NEW p, NEW g, NEW n, n = CountParsed(m, p, g)
    PROVE  ParsedChanges(m, p, g, n)
<1> DEFINE P == CategorySet(p.findings)    G == CategorySet(GoldFindings(g))
           SP == PairSet(p.findings)       SG == PairSet(GoldFindings(g))
<1>1. n = [c \in Fields |-> n[c]]
  BY DEF CountParsed
<1>2. /\ n.parsed = m.parsed + 1
      /\ n.statusCorrect = m.statusCorrect + One(p.status = g.status)
      /\ n.primaryCorrect =
            m.primaryCorrect + One(/\ g.status = "incorrect" /\ p.primary # Null
                                   /\ p.primary = g.primary)
      /\ n.undetermined = m.undetermined + One(p.status = "undetermined")
  BY DEF CountParsed, Fields, Numbers
<1>3. /\ n.tp = m.tp + Cardinality(P \cap G)
      /\ n.fp = m.fp + Cardinality(P \ G)
      /\ n.fn = m.fn + Cardinality(G \ P)
  BY DEF CountParsed, Fields, Numbers
<1>4. /\ n.pairTp = m.pairTp + Cardinality(SP \cap SG)
      /\ n.pairFp = m.pairFp + Cardinality(SP \ SG)
      /\ n.pairFn = m.pairFn + Cardinality(SG \ SP)
  BY DEF CountParsed, Fields, Numbers
<1>5. /\ n.macro = m.macro + F1(P, G)
      /\ n.statusConf = Plus(m.statusConf,
            <<GoldRow(g), IF g # NoDiagnosis THEN p.status ELSE "<parse_failed>">>)
      /\ n.primaryConf = AddPrimary(m.primaryConf, g, p.primary)
  BY DEF CountParsed, Fields, Numbers
<1>6. \A c \in Fields \ ParsedFields : n[c] = m[c]
  BY DEF CountParsed, ParsedFields
<1> QED BY <1>1, <1>2, <1>3, <1>4, <1>5, <1>6 DEF ParsedChanges

(* One trace with a prediction.                                            *)
LEMMA ParsedAdds ==
    ASSUME ReportInv, NEW t, Counts(t), wrapper[t].parse_status = "parsed",
           metrics' = CountParsed(CountPresent(metrics, wrapper[t], gold[t]),
                                  wrapper[t].prediction, gold[t])
    PROVE  Adds(t) /\ MetricsTypeOK'
<1>0. MetricsTypeOK
  BY DEF ReportInv
<1> DEFINE g == gold[t]
           p == wrapper[t].prediction
           m == CountPresent(metrics, wrapper[t], g)
           P == CategorySet(p.findings)    G == CategorySet(GoldFindings(g))
           SP == PairSet(p.findings)       SG == PairSet(GoldFindings(g))
           cell == <<GoldRow(g), IF g # NoDiagnosis THEN p.status ELSE "<parse_failed>">>
           right == /\ g.status = "incorrect" /\ p.primary # Null
                    /\ p.primary = g.primary
<1>1. /\ wrapper[t] # NoWrapper /\ gold[t] \in GoldDiagnoses \cup {NoDiagnosis}
      /\ p.status \in DiagnosisStatuses /\ p.primary \in Categories \cup {Null}
      /\ SP \subseteq Stages \X Categories
  BY DEF ReportInv, Counts, WrapperOk, NoWrapper, Wrapper
<1>2. IsFiniteSet(P) /\ IsFiniteSet(G) /\ IsFiniteSet(SP) /\ IsFiniteSet(SG)
  BY <1>1, TaxonomyIsFinite, GoldIsFinite
<1>3. /\ PredictedCategories(t)' = P /\ CountedCategories(t)' = G
      /\ PredictedPairs(t)' = SP /\ CountedPairs(t)' = SG
  BY <1>1, ViewsOfOne
<1>4. /\ m = [c \in Fields |-> m[c]]
      /\ m.statusCounts = Plus(metrics.statusCounts, wrapper[t].parse_status)
      /\ m.incorrectGold = metrics.incorrectGold + One(g.status = "incorrect")
      /\ \A c \in Fields \ {"statusCounts", "incorrectGold"} : m[c] = metrics[c]
  BY <1>0, PresentCounts
<1>5. metrics' = CountParsed(m, p, g)
  OBVIOUS
<1> HIDE DEF m
<1>6. /\ metrics' = [c \in Fields |-> metrics'[c]]
      /\ metrics'.parsed = m.parsed + 1
      /\ metrics'.statusCorrect = m.statusCorrect + One(p.status = g.status)
      /\ metrics'.primaryCorrect = m.primaryCorrect + One(right)
      /\ metrics'.tp = m.tp + Cardinality(P \cap G)
      /\ metrics'.fp = m.fp + Cardinality(P \ G)
      /\ metrics'.fn = m.fn + Cardinality(G \ P)
      /\ metrics'.pairTp = m.pairTp + Cardinality(SP \cap SG)
      /\ metrics'.pairFp = m.pairFp + Cardinality(SP \ SG)
      /\ metrics'.pairFn = m.pairFn + Cardinality(SG \ SP)
      /\ metrics'.macro = m.macro + F1(P, G)
      /\ metrics'.undetermined = m.undetermined + One(p.status = "undetermined")
      /\ metrics'.statusConf = Plus(m.statusConf, cell)
      /\ metrics'.primaryConf = AddPrimary(m.primaryConf, g, p.primary)
      /\ \A c \in Fields \ ParsedFields : metrics'[c] = m[c]
  <2> HIDE DEF p, g
  <2>1. ParsedChanges(m, p, g, metrics')
    BY <1>4, <1>5, ParsedCounts
  <2> QED BY <2>1 DEF ParsedChanges
<1> HIDE DEF P, G, SP, SG, cell, right
<1>7. /\ metrics'.parsed = metrics.parsed + 1
      /\ metrics'.statusCorrect = metrics.statusCorrect + One(p.status = g.status)
      /\ metrics'.primaryCorrect = metrics.primaryCorrect + One(right)
      /\ metrics'.tp = metrics.tp + Cardinality(P \cap G)
      /\ metrics'.fp = metrics.fp + Cardinality(P \ G)
      /\ metrics'.fn = metrics.fn + Cardinality(G \ P)
      /\ metrics'.pairTp = metrics.pairTp + Cardinality(SP \cap SG)
      /\ metrics'.pairFp = metrics.pairFp + Cardinality(SP \ SG)
      /\ metrics'.pairFn = metrics.pairFn + Cardinality(SG \ SP)
  BY <1>4, <1>6 DEF Fields, Numbers
<1>8. /\ metrics'.macro = metrics.macro + F1(P, G)
      /\ metrics'.undetermined = metrics.undetermined + One(p.status = "undetermined")
      /\ metrics'.statusConf = Plus(metrics.statusConf, cell)
      /\ metrics'.primaryConf = AddPrimary(metrics.primaryConf, g, p.primary)
  BY <1>4, <1>6 DEF Fields, Numbers
<1>9. /\ metrics'.incorrectGold = metrics.incorrectGold + One(g.status = "incorrect")
      /\ metrics'.runComplete = metrics.runComplete
      /\ metrics'.statusCounts = Plus(metrics.statusCounts, wrapper[t].parse_status)
  BY <1>4, <1>6 DEF Fields, Numbers, ParsedFields
<1>10. \A b : One(b) \in Nat
  BY DEF One
<1>11. /\ Cardinality(P \cap G) \in Nat /\ Cardinality(P \ G) \in Nat
       /\ Cardinality(G \ P) \in Nat /\ Cardinality(SP \cap SG) \in Nat
       /\ Cardinality(SP \ SG) \in Nat /\ Cardinality(SG \ SP) \in Nat
  BY <1>2, FS_CardinalityType, FS_Intersection, FS_Difference
<1>12. F1(P, G) \in Nat /\ F1(P, G) <= Scale /\ (F1(P, G) = Scale <=> P = G)
  BY <1>2, F1Bound
<1>13. MetricsTypeOK'
  <2>1. metrics'.runComplete \in BOOLEAN
    BY <1>0, <1>9 DEF MetricsTypeOK
  <2>2. /\ metrics'.tp \in Nat /\ metrics'.fp \in Nat /\ metrics'.fn \in Nat
        /\ metrics'.pairTp \in Nat /\ metrics'.pairFp \in Nat /\ metrics'.pairFn \in Nat
    BY <1>0, <1>7, <1>11, NumbersTyped
  <2>3. /\ metrics'.parsed \in Nat /\ metrics'.statusCorrect \in Nat
        /\ metrics'.primaryCorrect \in Nat /\ metrics'.incorrectGold \in Nat
        /\ metrics'.macro \in Nat /\ metrics'.undetermined \in Nat
    BY <1>0, <1>7, <1>8, <1>9, <1>10, <1>12, NumbersTyped
  <2> QED BY <1>6, <2>1, <2>2, <2>3, NumbersAreTyped
<1>14. \E n \in 0..Scale : /\ metrics'.macro = metrics.macro + n
                           /\ n = Scale <=> P = G
  BY <1>8, <1>12 DEF Scale
<1>15. cell \in Diagonal(DiagnosisStatuses) <=> p.status = g.status
  <2>1. CASE g = NoDiagnosis
    <3>1. g.status = "none" /\ cell = <<"<unknown>", "<parse_failed>">>
      BY <2>1 DEF NoDiagnosis, Diagnosis, cell, GoldRow
    <3> QED BY <1>1, <3>1 DEF Diagonal, DiagnosisStatuses
  <2>2. CASE g # NoDiagnosis
    BY <1>1, <2>2 DEF cell, GoldRow, Diagonal
  <2> QED BY <2>1, <2>2
<1>16. g.status = "incorrect" =>
           (<<g.primary, p.primary>> \in Diagonal(Categories) <=> right)
  BY <1>1, NullAssumption DEF Diagonal, right
<1>17. \E c : /\ metrics'.statusConf = Plus(metrics.statusConf, c)
              /\ metrics'.statusCorrect =
                    metrics.statusCorrect + One(c \in Diagonal(DiagnosisStatuses))
  BY <1>7, <1>8, <1>15 DEF One
<1>18. IF g.status = "incorrect"
       THEN \E c : /\ metrics'.primaryConf = Plus(metrics.primaryConf, c)
                   /\ metrics'.primaryCorrect =
                         metrics.primaryCorrect + One(c \in Diagonal(Categories))
       ELSE /\ metrics'.primaryConf = metrics.primaryConf
            /\ metrics'.primaryCorrect = metrics.primaryCorrect
  <2>1. CASE g.status = "incorrect"
    BY <1>7, <1>8, <1>16, <2>1 DEF One, AddPrimary
  <2>2. CASE g.status # "incorrect"
    BY <1>0, <1>7, <1>8, <2>2, NumbersTyped DEF One, AddPrimary, right
  <2> QED BY <2>1, <2>2
<1>19. metrics'.parsed = metrics.parsed + One(TRUE)
  BY <1>7 DEF One
<1>20. Adds(t)
  BY <1>1, <1>3, <1>7, <1>9, <1>14, <1>17, <1>18, <1>19 DEF Adds
<1> QED BY <1>13, <1>20

(* So each step of the pass.                                               *)
LEMMA StepAdds ==
    ASSUME ReportInv, CountTrace
    PROVE  \E t : Counts(t) /\ Adds(t) /\ MetricsTypeOK'
<1>1. PICK t : Counts(t)
  BY CountsOne
<1>2. CASE wrapper[t] = NoWrapper
  <2>1. metrics' = CountMissing(metrics)
    <3>1. NoWrapper.parse_status # "parsed"
      BY DEF NoWrapper, Wrapper
    <3> QED BY <1>1, <1>2, <3>1 DEF CountTrace, Counts
  <2> QED BY <1>1, <1>2, <2>1, MissingAdds
<1>3. CASE wrapper[t] # NoWrapper /\ wrapper[t].parse_status = "parsed"
  <2>1. metrics' = CountParsed(CountPresent(metrics, wrapper[t], gold[t]),
                               wrapper[t].prediction, gold[t])
    BY <1>1, <1>3 DEF CountTrace, Counts
  <2> QED BY <1>1, <1>3, <2>1, ParsedAdds
<1>4. CASE wrapper[t] # NoWrapper /\ wrapper[t].parse_status # "parsed"
  <2>1. metrics' = CountParseFailed(CountPresent(metrics, wrapper[t], gold[t]), gold[t])
    BY <1>1, <1>4 DEF CountTrace, Counts
  <2> QED BY <1>1, <1>4, <2>1, FailedAdds
<1> QED BY <1>2, <1>3, <1>4

----------------------------------------------------------------------------
(* The items of the trace come to the items of those before.               *)
LEMMA ItemsGrow ==
    ASSUME NEW t, Counts(t)
    PROVE  /\ PredictedItems' = PredictedItems \cup Tagged(t, PredictedCategories(t)')
           /\ GoldItems' = GoldItems \cup Tagged(t, CountedCategories(t)')
           /\ PredictedPairItems' = PredictedPairItems \cup Tagged(t, PredictedPairs(t)')
           /\ GoldPairItems' = GoldPairItems \cup Tagged(t, CountedPairs(t)')
           /\ \A x : /\ <<t, x>> \notin PredictedItems \cup GoldItems
                     /\ <<t, x>> \notin PredictedPairItems \cup GoldPairItems
<1>1. Done' = Done \cup {t} /\ t \notin Done
  BY DEF Counts
<1>2. /\ \A u \in Done : PredictedCategories(u)' = PredictedCategories(u)
      /\ \A u \in Done : CountedCategories(u)' = CountedCategories(u)
      /\ \A u \in Done : PredictedPairs(u)' = PredictedPairs(u)
      /\ \A u \in Done : CountedPairs(u)' = CountedPairs(u)
  BY ViewsGrow
<1>3. PredictedItems' = PredictedItems \cup Tagged(t, PredictedCategories(t)')
  BY <1>1, <1>2 DEF PredictedItems, Items, Tagged
<1>4. GoldItems' = GoldItems \cup Tagged(t, CountedCategories(t)')
  BY <1>1, <1>2 DEF GoldItems, Items, Tagged
<1>5. PredictedPairItems' = PredictedPairItems \cup Tagged(t, PredictedPairs(t)')
  BY <1>1, <1>2 DEF PredictedPairItems, Items, Tagged
<1>6. GoldPairItems' = GoldPairItems \cup Tagged(t, CountedPairs(t)')
  BY <1>1, <1>2 DEF GoldPairItems, Items, Tagged
<1>7. \A x : <<t, x>> \notin PredictedItems \cup GoldItems
  BY <1>1 DEF PredictedItems, GoldItems, Items
<1>8. \A x : <<t, x>> \notin PredictedPairItems \cup GoldPairItems
  BY <1>1 DEF PredictedPairItems, GoldPairItems, Items
<1> QED BY <1>3, <1>4, <1>5, <1>6, <1>7, <1>8

LEMMA ItemsStep ==
    ASSUME ReportInv, NEW t, Counts(t), Adds(t)
    PROVE  /\ ItemsMatch'
           /\ IsFiniteSet(PredictedItems)' /\ IsFiniteSet(GoldItems)'
           /\ IsFiniteSet(PredictedPairItems)' /\ IsFiniteSet(GoldPairItems)'
<1>1. /\ IsFiniteSet(PredictedItems) /\ IsFiniteSet(GoldItems)
      /\ IsFiniteSet(PredictedPairItems) /\ IsFiniteSet(GoldPairItems)
      /\ ItemsMatch
  BY DEF ReportInv, CountsSoFar
<1> DEFINE P == PredictedCategories(t)'    G == CountedCategories(t)'
           SP == PredictedPairs(t)'        SG == CountedPairs(t)'
<1>2. IsFiniteSet(P) /\ IsFiniteSet(G) /\ IsFiniteSet(SP) /\ IsFiniteSet(SG)
  BY ViewsAreFinite
<1>3. /\ PredictedItems' = PredictedItems \cup Tagged(t, P)
      /\ GoldItems' = GoldItems \cup Tagged(t, G)
      /\ PredictedPairItems' = PredictedPairItems \cup Tagged(t, SP)
      /\ GoldPairItems' = GoldPairItems \cup Tagged(t, SG)
      /\ \A x : /\ <<t, x>> \notin PredictedItems \cup GoldItems
                /\ <<t, x>> \notin PredictedPairItems \cup GoldPairItems
  BY ItemsGrow
<1>4. /\ metrics'.tp = metrics.tp + Cardinality(P \cap G)
      /\ metrics'.fp = metrics.fp + Cardinality(P \ G)
      /\ metrics'.fn = metrics.fn + Cardinality(G \ P)
      /\ metrics'.pairTp = metrics.pairTp + Cardinality(SP \cap SG)
      /\ metrics'.pairFp = metrics.pairFp + Cardinality(SP \ SG)
      /\ metrics'.pairFn = metrics.pairFn + Cardinality(SG \ SP)
  BY DEF Adds
<1> HIDE DEF P, G, SP, SG
<1>5. /\ IsFiniteSet(PredictedItems') /\ IsFiniteSet(GoldItems')
      /\ Cardinality(PredictedItems' \cap GoldItems') =
            Cardinality(PredictedItems \cap GoldItems) + Cardinality(P \cap G)
      /\ Cardinality(PredictedItems' \ GoldItems') =
            Cardinality(PredictedItems \ GoldItems) + Cardinality(P \ G)
      /\ Cardinality(GoldItems' \ PredictedItems') =
            Cardinality(GoldItems \ PredictedItems) + Cardinality(G \ P)
  <2>1. UnionSizes(t, PredictedItems, GoldItems, P, G)
    BY <1>1, <1>2, <1>3, TaggedUnion
  <2> QED BY <1>3, <2>1 DEF UnionSizes
<1>6. /\ IsFiniteSet(PredictedPairItems') /\ IsFiniteSet(GoldPairItems')
      /\ Cardinality(PredictedPairItems' \cap GoldPairItems') =
            Cardinality(PredictedPairItems \cap GoldPairItems) + Cardinality(SP \cap SG)
      /\ Cardinality(PredictedPairItems' \ GoldPairItems') =
            Cardinality(PredictedPairItems \ GoldPairItems) + Cardinality(SP \ SG)
      /\ Cardinality(GoldPairItems' \ PredictedPairItems') =
            Cardinality(GoldPairItems \ PredictedPairItems) + Cardinality(SG \ SP)
  <2>1. UnionSizes(t, PredictedPairItems, GoldPairItems, SP, SG)
    BY <1>1, <1>2, <1>3, TaggedUnion
  <2> QED BY <1>3, <2>1 DEF UnionSizes
<1> QED BY <1>1, <1>4, <1>5, <1>6 DEF ItemsMatch

(* The sets of traces grow by the trace, each as Adds has it.              *)
LEMMA TracesGrow ==
    ASSUME ReportInv, NEW t, Counts(t)
    PROVE  /\ IsFiniteSet(Done') /\ Cardinality(Done') = counted' /\ counted \in Nat
           /\ Cardinality(Parsed') =
                 Cardinality(Parsed) + One(wrapper[t].parse_status = "parsed")
           /\ Cardinality(CountedIncorrect') =
                 Cardinality(CountedIncorrect) + One(/\ wrapper[t] # NoWrapper
                                              /\ gold[t].status = "incorrect")
           /\ Cardinality(Parsed) \in Nat /\ Cardinality(Parsed) <= counted
           /\ Present' = Done' <=> Present = Done /\ wrapper[t] # NoWrapper
           /\ Exact' = Done' <=> /\ Exact = Done /\ wrapper[t].parse_status = "parsed"
                                 /\ PredictedCategories(t)' = CountedCategories(t)'
<1>1. /\ IsFiniteSet(Done) /\ Cardinality(Done) = counted /\ counted \in Nat
      /\ Done' = Done \cup {t} /\ t \notin Done /\ counted' = counted + 1
  BY DEF ReportInv, Counts
<1>2. IsFiniteSet(Done') /\ Cardinality(Done') = counted'
  BY <1>1, FS_AddElement
<1>3. ASSUME NEW S, S \subseteq Done, NEW N, NEW b \in BOOLEAN,
             N = S \cup {u \in {t} : b}
      PROVE  /\ IsFiniteSet(S) /\ Cardinality(S) \in Nat /\ Cardinality(S) <= counted
             /\ Cardinality(N) = Cardinality(S) + One(b)
  <2>1. IsFiniteSet(S) /\ Cardinality(S) \in Nat /\ Cardinality(S) <= counted
    BY <1>1, <1>3, FS_Subset, FS_CardinalityType
  <2>2. CASE b
    <3>1. N = S \cup {t} /\ t \notin S
      BY <1>1, <1>3, <2>2
    <3> QED BY <2>1, <2>2, <3>1, FS_AddElement DEF One
  <2>3. CASE ~b
    <3>1. N = S
      BY <1>3, <2>3
    <3> QED BY <2>1, <2>3, <3>1 DEF One
  <2> QED BY <2>1, <2>2, <2>3
<1>4. /\ Present' = Present \cup {u \in {t} : wrapper[u] # NoWrapper}
      /\ Parsed' = Parsed \cup {u \in {t} : wrapper[u].parse_status = "parsed"}
      /\ CountedIncorrect' = CountedIncorrect \cup {u \in {t} : /\ wrapper[u] # NoWrapper
                                                  /\ gold[u].status = "incorrect"}
      /\ \A u \in Done : /\ PredictedCategories(u)' = PredictedCategories(u)
                         /\ CountedCategories(u)' = CountedCategories(u)
  BY ViewsGrow
<1>5. Parsed \subseteq Done /\ Present \subseteq Done /\ CountedIncorrect \subseteq Done
  BY DEF Parsed, Present, CountedIncorrect
<1>6. /\ Cardinality(Parsed) \in Nat /\ Cardinality(Parsed) <= counted
      /\ Cardinality(Parsed') =
            Cardinality(Parsed) + One(wrapper[t].parse_status = "parsed")
  <2> DEFINE b == wrapper[t].parse_status = "parsed"
  <2>1. b \in BOOLEAN /\ Parsed' = Parsed \cup {u \in {t} : b}
    BY <1>4
  <2> HIDE DEF b
  <2>2. /\ Cardinality(Parsed) \in Nat /\ Cardinality(Parsed) <= counted
        /\ Cardinality(Parsed') = Cardinality(Parsed) + One(b)
    BY <1>3, <1>5, <2>1
  <2> QED BY <2>2 DEF b
<1>7. Cardinality(CountedIncorrect') =
          Cardinality(CountedIncorrect) + One(wrapper[t] # NoWrapper /\ gold[t].status = "incorrect")
  <2> DEFINE b == wrapper[t] # NoWrapper /\ gold[t].status = "incorrect"
  <2>1. b \in BOOLEAN /\ CountedIncorrect' = CountedIncorrect \cup {u \in {t} : b}
    BY <1>4
  <2> HIDE DEF b
  <2>2. Cardinality(CountedIncorrect') = Cardinality(CountedIncorrect) + One(b)
    BY <1>3, <1>5, <2>1
  <2> QED BY <2>2 DEF b
<1>8. Present' = Done' <=> Present = Done /\ wrapper[t] # NoWrapper
  BY <1>1, <1>4, <1>5
<1>9. Exact' = Done' <=> /\ Exact = Done /\ wrapper[t].parse_status = "parsed"
                         /\ PredictedCategories(t)' = CountedCategories(t)'
  <2>1. \A u : u \in Exact' <=> u \in Parsed' /\ PredictedCategories(u)' = CountedCategories(u)'
    BY DEF Exact
  <2>2. \A u : u \in Exact <=> u \in Parsed /\ PredictedCategories(u) = CountedCategories(u)
    BY DEF Exact
  <2>3. \A u \in Done : u \in Exact' <=> u \in Exact
    BY <1>1, <1>4, <1>5, <2>1, <2>2
  <2>4. t \in Exact' <=> /\ wrapper[t].parse_status = "parsed"
                         /\ PredictedCategories(t)' = CountedCategories(t)'
    BY <1>1, <1>4, <1>5, <2>1
  <2>5. \A u : (u \in Exact' => u \in Done') /\ (u \in Exact => u \in Done)
    BY <1>1, <1>4, <1>5, <2>1, <2>2
  <2> QED BY <1>1, <2>3, <2>4, <2>5
<1> QED BY <1>1, <1>2, <1>6, <1>7, <1>8, <1>9

LEMMA TracesStep ==
    ASSUME ReportInv, NEW t, Counts(t), Adds(t)
    PROVE  TracesMatch'
<1> DEFINE parsed == wrapper[t].parse_status = "parsed"
           same == PredictedCategories(t)' = CountedCategories(t)'
           n == Cardinality(Parsed)
<1>1. /\ metrics.macro <= 12 * n /\ (metrics.macro = 12 * counted <=> Exact = Done)
      /\ (metrics.runComplete <=> Present = Done)
      /\ metrics.incorrectGold = Cardinality(CountedIncorrect) /\ metrics.macro \in Nat
  BY NumbersTyped DEF ReportInv, CountsSoFar, TracesMatch, Scale
<1>2. /\ counted \in Nat /\ n \in Nat /\ n <= counted /\ counted' = counted + 1
      /\ Cardinality(Parsed') = n + One(parsed)
      /\ Cardinality(CountedIncorrect') =
            Cardinality(CountedIncorrect) + One(wrapper[t] # NoWrapper /\ gold[t].status = "incorrect")
      /\ Present' = Done' <=> Present = Done /\ wrapper[t] # NoWrapper
      /\ Exact' = Done' <=> Exact = Done /\ parsed /\ same
  BY TracesGrow DEF Counts
<1>3. PICK m \in 0..12 : /\ metrics'.macro = metrics.macro + m
                         /\ m > 0 => parsed
                         /\ m = 12 <=> parsed /\ same
  BY DEF Adds, Scale
<1>4. /\ metrics'.runComplete <=> metrics.runComplete /\ wrapper[t] # NoWrapper
      /\ metrics'.incorrectGold =
            metrics.incorrectGold + One(wrapper[t] # NoWrapper /\ gold[t].status = "incorrect")
  BY DEF Adds
<1> HIDE DEF n, parsed, same
<1>5. metrics'.macro <= 12 * Cardinality(Parsed')
  BY <1>1, <1>2, <1>3 DEF One
<1>6. metrics'.macro = 12 * counted' <=> metrics.macro = 12 * counted /\ m = 12
  BY <1>1, <1>2, <1>3
<1>7. metrics'.macro = 12 * counted' <=> Exact' = Done'
  BY <1>1, <1>2, <1>3, <1>6
<1>8. /\ metrics'.runComplete <=> Present' = Done'
      /\ metrics'.incorrectGold = Cardinality(CountedIncorrect')
  BY <1>1, <1>2, <1>4
<1> QED BY <1>5, <1>7, <1>8 DEF TracesMatch, Scale

(* The matrix C is B with one more cell x.                                 *)
OneMore(B, C, x, S) ==
    /\ IsBag(C) /\ AllCells(C) = AllCells(B) + 1
    /\ Cells(C, S) = Cells(B, S) + One(x \in S)

LEMMA OneMoreCell ==
    ASSUME NEW B, IsBag(B), NEW x, NEW S
    PROVE  OneMore(B, Plus(B, x), x, S)
<1>1. AddsCell(B, x, S)
  BY CellsAdd
<1>2. AllCells(Plus(B, x)) = AllCells(B) + 1
  BY AllCellsAdd
<1> QED BY <1>1, <1>2 DEF OneMore, AddsCell

LEMMA CellsStep ==
    ASSUME ReportInv, NEW t, Counts(t), Adds(t)
    PROVE  /\ CellsMatch'
           /\ IsBag(metrics'.statusCounts) /\ IsBag(metrics'.statusConf)
           /\ IsBag(metrics'.primaryConf)
<1>1. /\ IsBag(metrics.statusCounts) /\ IsBag(metrics.statusConf)
      /\ IsBag(metrics.primaryConf) /\ CellsMatch
  BY DEF ReportInv, CountsSoFar
<1>2. counted' = counted + 1
  BY DEF Counts
<1>3. /\ IsBag(metrics'.statusCounts) /\ AllCells(metrics'.statusCounts) = counted'
      /\ Cells(metrics'.statusCounts, {"parsed"}) = metrics'.parsed
  <2>1. /\ metrics'.statusCounts = Plus(metrics.statusCounts, wrapper[t].parse_status)
        /\ metrics'.parsed = metrics.parsed + One(wrapper[t].parse_status = "parsed")
    BY DEF Adds
  <2> DEFINE S == {"parsed"}
             x == wrapper[t].parse_status
  <2>2. x \in S <=> x = "parsed"
    OBVIOUS
  <2>3. Cells(metrics.statusCounts, S) = metrics.parsed
    BY <1>1 DEF CellsMatch
  <2> HIDE DEF S, x
  <2>4. OneMore(metrics.statusCounts, metrics'.statusCounts, x, S)
    BY <1>1, <2>1, OneMoreCell DEF x
  <2>5. Cells(metrics'.statusCounts, S) = metrics'.parsed
    BY <2>1, <2>2, <2>3, <2>4 DEF One, OneMore, x
  <2> QED BY <1>1, <1>2, <2>4, <2>5 DEF CellsMatch, OneMore, S
<1>4. /\ IsBag(metrics'.statusConf) /\ AllCells(metrics'.statusConf) = counted'
      /\ Cells(metrics'.statusConf, Diagonal(DiagnosisStatuses)) = metrics'.statusCorrect
  <2>1. PICK cell :
           /\ metrics'.statusConf = Plus(metrics.statusConf, cell)
           /\ metrics'.statusCorrect =
                 metrics.statusCorrect + One(cell \in Diagonal(DiagnosisStatuses))
    BY DEF Adds
  <2>2. OneMore(metrics.statusConf, metrics'.statusConf, cell, Diagonal(DiagnosisStatuses))
    BY <1>1, <2>1, OneMoreCell
  <2> QED BY <1>1, <1>2, <2>1, <2>2 DEF CellsMatch, OneMore
<1>5. /\ IsBag(metrics'.primaryConf) /\ AllCells(metrics'.primaryConf) = metrics'.incorrectGold
      /\ Cells(metrics'.primaryConf, Diagonal(Categories)) = metrics'.primaryCorrect
  <2> DEFINE incorrect == wrapper[t] # NoWrapper /\ gold[t].status = "incorrect"
  <2>1. /\ metrics'.incorrectGold = metrics.incorrectGold + One(incorrect)
        /\ IF incorrect
           THEN \E cell : /\ metrics'.primaryConf = Plus(metrics.primaryConf, cell)
                          /\ metrics'.primaryCorrect =
                                metrics.primaryCorrect + One(cell \in Diagonal(Categories))
           ELSE /\ metrics'.primaryConf = metrics.primaryConf
                /\ metrics'.primaryCorrect = metrics.primaryCorrect
    BY DEF Adds
  <2>2. metrics.incorrectGold \in Nat
    BY NumbersTyped DEF ReportInv
  <2> HIDE DEF incorrect
  <2>3. CASE incorrect
    <3>1. PICK cell : /\ metrics'.primaryConf = Plus(metrics.primaryConf, cell)
                      /\ metrics'.primaryCorrect =
                            metrics.primaryCorrect + One(cell \in Diagonal(Categories))
      BY <2>1, <2>3
    <3>2. OneMore(metrics.primaryConf, metrics'.primaryConf, cell, Diagonal(Categories))
      BY <1>1, <3>1, OneMoreCell
    <3>3. metrics'.incorrectGold = metrics.incorrectGold + 1
      BY <2>1, <2>3 DEF One
    <3> QED BY <1>1, <3>1, <3>2, <3>3 DEF CellsMatch, OneMore
  <2>4. CASE ~incorrect
    <3>1. metrics'.incorrectGold = metrics.incorrectGold
      BY <2>1, <2>2, <2>4 DEF One
    <3> QED BY <1>1, <2>1, <2>4, <3>1 DEF CellsMatch
  <2> QED BY <2>3, <2>4
<1> QED BY <1>3, <1>4, <1>5 DEF CellsMatch

(* A step of the pass.                                                     *)
LEMMA CountStep ==
    ASSUME ReportInv, CountTrace, ~Asking, UNCHANGED asked
    PROVE  ReportInv'
<1>1. PICK t : Counts(t) /\ Adds(t) /\ MetricsTypeOK'
  BY StepAdds
<1>2. /\ ItemsMatch'
      /\ IsFiniteSet(PredictedItems)' /\ IsFiniteSet(GoldItems)'
      /\ IsFiniteSet(PredictedPairItems)' /\ IsFiniteSet(GoldPairItems)'
  BY <1>1, ItemsStep
<1>3. TracesMatch' /\ IsFiniteSet(Done') /\ Cardinality(Done') = counted'
  BY <1>1, TracesStep, TracesGrow
<1>4. CellsMatch' /\ IsBag(metrics'.statusCounts) /\ IsBag(metrics'.statusConf)
      /\ IsBag(metrics'.primaryConf)
  BY <1>1, CellsStep
<1>5. CountsSoFar'
  BY <1>2, <1>3, <1>4 DEF CountsSoFar
<1>6. /\ wrapper' = wrapper /\ gold' = gold
      /\ counted' \in 1..Len(TraceIds) /\ ~Asking'
  BY <1>1, TraceIdsAssumption DEF Counts, ReportInv, Asking
<1>7. /\ asked' \in 0..Len(TraceIds) /\ counted' \in 0..Len(TraceIds)
      /\ (Asking => counted = 0)' /\ (counted = 0 => metrics = NoCounts)'
  BY <1>6, TraceIdsAssumption DEF ReportInv
<1>8. /\ wrapper' = [u \in TraceSet |-> wrapper'[u]]
      /\ \A u \in TraceSet : /\ WrapperOk(wrapper'[u])
                           /\ gold'[u] \in GoldDiagnoses \cup {NoDiagnosis}
  BY <1>6 DEF ReportInv
<1> QED BY <1>1, <1>2, <1>3, <1>4, <1>5, <1>7, <1>8 DEF ReportInv

(* What the counters and the sets of the metrics are when nothing is       *)
(* counted, whatever the wrappers and the gold diagnoses.                  *)
Tallied ==
    /\ MetricsTypeOK
    /\ IsBag(metrics.statusCounts) /\ IsBag(metrics.statusConf) /\ IsBag(metrics.primaryConf)
    /\ IsFiniteSet(PredictedItems) /\ IsFiniteSet(GoldItems)
    /\ IsFiniteSet(PredictedPairItems) /\ IsFiniteSet(GoldPairItems)
    /\ IsFiniteSet(Done) /\ Cardinality(Done) = counted
    /\ CountsSoFar

LEMMA NothingCounted ==
    counted = 0 /\ metrics = NoCounts => Tallied
<1> SUFFICES ASSUME counted = 0, metrics = NoCounts PROVE Tallied
  OBVIOUS
<1>1. Done = {} /\ Present = {} /\ Parsed = {} /\ CountedIncorrect = {} /\ Exact = {}
  <2>1. 1..counted = {}
    OBVIOUS
  <2> QED BY <2>1 DEF Done, Present, Parsed, CountedIncorrect, Exact
<1>2. /\ PredictedItems = {} /\ GoldItems = {}
      /\ PredictedPairItems = {} /\ GoldPairItems = {}
  BY <1>1 DEF PredictedItems, GoldItems, PredictedPairItems, GoldPairItems, Items
<1>3. IsFiniteSet({}) /\ Cardinality({}) = 0
  BY FS_EmptySet
<1>4. MetricsTypeOK
  BY DEF MetricsTypeOK, NoCounts, Fields, Numbers
<1>5. /\ metrics.statusCounts = EmptyBag /\ metrics.statusConf = EmptyBag
      /\ metrics.primaryConf = EmptyBag
  BY DEF NoCounts
<1>6. IsBag(EmptyBag) /\ \A S : Cells(EmptyBag, S) = 0
  <2>1. IsBag(EmptyBag) /\ DOMAIN EmptyBag = {}
    BY <1>3 DEF EmptyBag, IsBag, SetToBag
  <2>2. ASSUME NEW S PROVE Cells(EmptyBag, S) = 0
    <3>1. Cells(EmptyBag, S) = SumOf(EmptyBag, DOMAIN EmptyBag \cap S)
      BY <2>1, CellsForm
    <3>2. DOMAIN EmptyBag \cap S = {}
      BY <2>1
    <3> QED BY <3>1, <3>2, SumOfNone
  <2> QED BY <2>1, <2>2
<1>7. ItemsMatch
  BY <1>2, <1>3 DEF ItemsMatch, NoCounts
<1>8. TracesMatch
  BY <1>1, <1>3 DEF TracesMatch, NoCounts, Scale
<1>9. CellsMatch
  BY <1>5, <1>6 DEF CellsMatch, AllCells, NoCounts
<1> QED BY <1>1, <1>2, <1>3, <1>4, <1>5, <1>6, <1>7, <1>8, <1>9 DEF Tallied, CountsSoFar

LEMMA NothingCountedNext ==
    counted' = 0 /\ metrics' = NoCounts => Tallied'
<1>1. (counted = 0 /\ metrics = NoCounts)' => Tallied'
  BY NothingCounted, PTL
<1> QED BY <1>1 DEF NoCounts, EmptyBag, SetToBag

(* What the importer writes is a wrapper of the run.                       *)
LEMMA ImportedIsOk ==
    ASSUME NEW d \in Document, NEW c \in BOOLEAN
    PROVE  WrapperOk(WrapperFor(ClassifyResponse(d, c), d))
<1> DEFINE s == ClassifyResponse(d, c)
<1>0. d.form \in {"blank", "text", "value", "object"}
  BY DEF Document
<1>1. s \in ParseStatuses
  BY <1>0 DEF ClassifyResponse, ParseStatuses
<1>2. CASE s = "parsed"
  <2>1. d.form = "object"
    BY <1>0, <1>2 DEF ClassifyResponse
  <2>2. SchemaOk(d)
    BY <1>2, <2>1 DEF ClassifyResponse
  <2>3. PairSet(d.findings) \subseteq Stages \X Categories
    BY <2>2 DEF SchemaOk, FindingSchemaOk, PairSet
  <2>4. WrapperFor(s, d) = Wrapper("parsed", Diagnosis(d.status, d.primary, d.findings))
    BY <1>2 DEF WrapperFor
  <2> DEFINE w == WrapperFor(s, d)
  <2>5. /\ w.parse_status = "parsed" /\ w.prediction.status = d.status
        /\ w.prediction.primary = d.primary /\ w.prediction.findings = d.findings
    BY <2>4 DEF Wrapper, Diagnosis
  <2> HIDE DEF w, s
  <2>6. WrapperOk(w)
    BY <2>2, <2>3, <2>5 DEF WrapperOk, SchemaOk, ParseStatuses
  <2> QED BY <2>6 DEF w, s
<1>3. CASE s # "parsed"
  <2>1. WrapperFor(s, d) = Wrapper(s, NoDiagnosis)
    BY <1>3 DEF WrapperFor
  <2> DEFINE w == WrapperFor(s, d)
  <2>2. w.parse_status = s
    BY <2>1 DEF Wrapper
  <2> HIDE DEF w, s
  <2>3. WrapperOk(w)
    BY <1>1, <1>3, <2>2 DEF WrapperOk
  <2> QED BY <2>3 DEF w, s
<1> QED BY <1>2, <1>3

(* A step before the pass, that writes one wrapper or none.                *)
LEMMA BeforeStep ==
    ASSUME ReportInv, counted = 0, UNCHANGED <<counted, metrics>>,
           asked' \in 0..Len(TraceIds),
           gold' = gold \/ gold' \in [TraceSet -> GoldDiagnoses \cup {NoDiagnosis}],
           \/ wrapper' = wrapper
           \/ \E w : WrapperOk(w) /\ wrapper' = [wrapper EXCEPT ![Current] = w]
    PROVE  ReportInv'
<1>1. metrics = NoCounts /\ counted' = 0 /\ metrics' = NoCounts
  BY DEF ReportInv
<1>2. Tallied'
  BY <1>1, NothingCountedNext
<1>3. /\ wrapper' = [u \in TraceSet |-> wrapper'[u]]
      /\ \A u \in TraceSet : WrapperOk(wrapper'[u])
  <2>1. CASE wrapper' = wrapper
    BY <2>1 DEF ReportInv
  <2>2. ASSUME NEW w, WrapperOk(w), wrapper' = [wrapper EXCEPT ![Current] = w]
        PROVE  /\ wrapper' = [u \in TraceSet |-> wrapper'[u]]
               /\ \A u \in TraceSet : WrapperOk(wrapper'[u])
    BY <2>2 DEF ReportInv
  <2> QED BY <2>1, <2>2
<1>4. \A u \in TraceSet : gold'[u] \in GoldDiagnoses \cup {NoDiagnosis}
  BY DEF ReportInv
<1>5. 0 \in 0..Len(TraceIds)
  BY TraceIdsAssumption
<1> QED BY <1>1, <1>2, <1>3, <1>4, <1>5 DEF ReportInv, Tallied

----------------------------------------------------------------------------
LEMMA ReportInvInitially == PathInit => ReportInv
<1> SUFFICES ASSUME PathInit PROVE ReportInv
  OBVIOUS
<1>1. Tallied
  BY NothingCounted DEF PathInit
<1>2. asked = 0 /\ counted = 0 /\ metrics = NoCounts /\ 0 \in 0..Len(TraceIds)
  BY TraceIdsAssumption DEF PathInit
<1>3. /\ wrapper = [t \in TraceSet |-> wrapper[t]]
      /\ \A t \in TraceSet : /\ WrapperOk(wrapper[t])
                           /\ gold[t] \in GoldDiagnoses \cup {NoDiagnosis}
  BY DEF PathInit, WrapperOk
<1> QED BY <1>1, <1>2, <1>3 DEF ReportInv, Tallied

LEMMA ReportStep == ReportInv /\ [PathNext]_pathVars => ReportInv'
<1> SUFFICES ASSUME ReportInv, [PathNext]_pathVars PROVE ReportInv'
  OBVIOUS
<1>0. /\ asked \in 0..Len(TraceIds) /\ Len(TraceIds) \in Nat
      /\ Asking => counted = 0 /\ asked + 1 \in 0..Len(TraceIds)
  BY TraceIdsAssumption DEF ReportInv, Asking
<1>1. ASSUME UNCHANGED <<metricsVars, asked>> PROVE ReportInv'
  <2>1. /\ wrapper' = wrapper /\ gold' = gold /\ counted' = counted /\ metrics' = metrics
        /\ asked' = asked /\ Asking' = Asking
    BY <1>1 DEF metricsVars, Asking
  <2>2. Done' = Done
    BY <2>1 DEF Done
  <2>3. Present' = Present /\ Parsed' = Parsed
    BY <2>1, <2>2 DEF Present, Parsed
  <2>4. CountedIncorrect' = CountedIncorrect
    BY <2>1, <2>3 DEF CountedIncorrect
  <2>5. \A t : /\ PredictedCategories(t)' = PredictedCategories(t)
               /\ CountedCategories(t)' = CountedCategories(t)
               /\ PredictedPairs(t)' = PredictedPairs(t)
               /\ CountedPairs(t)' = CountedPairs(t)
    BY <2>1, <2>3 DEF PredictedCategories, CountedCategories, PredictedPairs, CountedPairs,
                      GoldCategories, GoldPairs
  <2>6. Exact' = Exact
    BY <2>3, <2>5 DEF Exact
  <2>7. PredictedItems' = PredictedItems /\ GoldItems' = GoldItems
    BY <2>2, <2>5 DEF PredictedItems, GoldItems, Items
  <2>8. PredictedPairItems' = PredictedPairItems /\ GoldPairItems' = GoldPairItems
    BY <2>2, <2>5 DEF PredictedPairItems, GoldPairItems, Items
  <2>9. ItemsMatch' /\ TracesMatch' /\ CellsMatch'
    <3>1. ItemsMatch /\ TracesMatch /\ CellsMatch
      BY DEF ReportInv, CountsSoFar
    <3>2. ItemsMatch'
      BY <3>1, <2>1, <2>7, <2>8 DEF ItemsMatch
    <3>3. TracesMatch'
      BY <3>1, <2>1, <2>2, <2>3, <2>4, <2>6 DEF TracesMatch
    <3>4. CellsMatch'
      BY <3>1, <2>1 DEF CellsMatch
    <3> QED BY <3>2, <3>3, <3>4
  <2>10. CountsSoFar'
    BY <2>9 DEF CountsSoFar
  <2>11. MetricsTypeOK'
    BY <2>1 DEF ReportInv, MetricsTypeOK
  <2> QED BY <2>1, <2>2, <2>7, <2>8, <2>10, <2>11 DEF ReportInv
<1>2. ASSUME Asking, NextTrace, UNCHANGED wrapper PROVE ReportInv'
  BY <1>0, <1>2, BeforeStep DEF NextTrace
<1>3. CASE Mark
  <2> DEFINE w == WrapperFor("model_call_not_attempted", NoDiagnosis)
  <2>1. WrapperOk(w)
    BY DEF WrapperOk, WrapperFor, Wrapper, ParseStatuses
  <2> HIDE DEF w
  <2> QED BY <1>0, <1>3, <2>1, BeforeStep DEF Mark, NextTrace, w
<1>4. CASE Import
  <2>0. PICK d \in Documents :
          wrapper' = [wrapper EXCEPT ![Current] =
                        WrapperFor(ClassifyResponse(d, Current \in HasCandidate), d)]
    BY <1>4, ImportsADocument
  <2> DEFINE w == WrapperFor(ClassifyResponse(d, Current \in HasCandidate), d)
  <2>1. WrapperOk(w)
    <3>1. d \in Document /\ (Current \in HasCandidate) \in BOOLEAN
      BY PathAssumption
    <3> QED BY <3>1, ImportedIsOk
  <2>2. /\ Asking /\ NextTrace /\ wrapper' = [wrapper EXCEPT ![Current] = w]
    BY <1>4, <2>0, ImportsADocument
  <2> HIDE DEF w
  <2> QED BY <1>0, <2>1, <2>2, BeforeStep DEF NextTrace
<1>5. CASE OpenDataset
  <2>1. /\ counted = 0 /\ UNCHANGED <<counted, metrics>> /\ asked' = asked /\ wrapper' = wrapper
        /\ gold' \in [TraceSet -> GoldDiagnoses \cup {NoDiagnosis}]
    BY <1>5 DEF OpenDataset
  <2> QED BY <1>0, <2>1, BeforeStep
<1>6. CASE Report
  BY <1>6, CountStep DEF Report
<1>7. CASE Calling
  BY <1>1, <1>7 DEF Calling
<1>8. CASE GiveUp
  BY <1>2, <1>8 DEF GiveUp
<1>9. CASE UNCHANGED pathVars
  BY <1>1, <1>9 DEF pathVars
<1> QED BY <1>3, <1>4, <1>5, <1>6, <1>7, <1>8, <1>9 DEF PathNext

----------------------------------------------------------------------------
(* P, G and F are the predicted items, the gold items and those of the     *)
(* traces A among D; the others predict x, that is in no taxonomy.         *)
AreItems(D, A, Pred, Gold, Few, Names, x, P, G, F) ==
    /\ x \notin Names /\ IsFiniteSet(D) /\ IsFiniteSet(Names) /\ A \subseteq D
    /\ \A t \in D : Gold[t] \subseteq Names
    /\ \A t \in D : Few[t] = IF t \in A THEN Gold[t] ELSE {}
    /\ \A t \in D : t \notin A => Pred[t] = {x}
    /\ P = UNION {{<<t, y>> : y \in Pred[t]} : t \in D}
    /\ G = UNION {{<<t, y>> : y \in Gold[t]} : t \in D}
    /\ F = UNION {{<<t, y>> : y \in Few[t]} : t \in D}

SameHits(P, G, F) ==
    P \cap G = P \cap F /\ P \ G = P \ F /\ Cardinality(F \ P) <= Cardinality(G \ P)

(* Without the gold items of the traces whose wrapper is missing, hits and *)
(* false positives are the same, and misses are fewer.                     *)
LEMMA ItemsAgree ==
    \A D, A, Pred, Gold, Few, Names, x, P, G, F :
        AreItems(D, A, Pred, Gold, Few, Names, x, P, G, F) => SameHits(P, G, F) /\ (A = D => F = G)
<1> SUFFICES ASSUME NEW D, NEW A, NEW Pred, NEW Gold, NEW Few, NEW Names, NEW x,
                    NEW P, NEW G, NEW F, AreItems(D, A, Pred, Gold, Few, Names, x, P, G, F)
             PROVE  SameHits(P, G, F) /\ (A = D => F = G)
  OBVIOUS
<1> USE DEF AreItems
<1>1. \A z \in P : z \in G <=> z \in F
  <2> SUFFICES ASSUME NEW t \in D, NEW y \in Pred[t]
               PROVE  <<t, y>> \in G <=> <<t, y>> \in F
    OBVIOUS
  <2>1. <<t, y>> \in G <=> y \in Gold[t]
    OBVIOUS
  <2>2. <<t, y>> \in F <=> y \in Few[t]
    OBVIOUS
  <2>3. y \in Gold[t] <=> y \in Few[t]
    OBVIOUS
  <2> QED BY <2>1, <2>2, <2>3
<1>2. F \subseteq G /\ (A = D => F = G)
  OBVIOUS
<1>3. G \subseteq D \X Names
  OBVIOUS
<1>4. IsFiniteSet(G \ P)
  <2>1. IsFiniteSet(D \X Names)
    BY FS_Product
  <2> QED BY <1>3, <2>1, FS_Subset
<1>5. Cardinality(F \ P) <= Cardinality(G \ P)
  <2>1. F \ P \in SUBSET (G \ P)
    BY <1>2
  <2> QED BY <1>4, <2>1, FS_Subset
<1>6. P \cap G = P \cap F /\ P \ G = P \ F
  BY <1>1
<1> QED BY <1>2, <1>5, <1>6 DEF SameHits

LEMMA ReportedAsDefined == ReportInv => CountsMatchDefinitions
<1> SUFFICES ASSUME ReportInv PROVE CountsMatchDefinitions
  OBVIOUS
<1>1. ItemsMatch /\ TracesMatch /\ CellsMatch /\ IsFiniteSet(Done)
  BY DEF ReportInv, CountsSoFar
<1>2. Present \subseteq Done
  BY DEF Present
<1>3. ASSUME NEW t \in Done
      PROVE  /\ GoldCategories(t) \subseteq Categories
             /\ GoldPairs(t) \subseteq Stages \X Categories
             /\ t \notin Present => t \notin Parsed
  <2>1. gold[t] \in GoldDiagnoses \cup {NoDiagnosis}
    <3>1. t \in TraceSet
      BY TraceIdsAssumption DEF ReportInv, Done, TraceSet
    <3> QED BY <3>1 DEF ReportInv
  <2>2. t \notin Present => t \notin Parsed
    BY DEF Present, Parsed, NoWrapper, Wrapper
  <2> QED BY <2>1, <2>2, GoldIsFinite DEF GoldCategories, GoldPairs
<1> DEFINE Pred == [t \in Done |-> PredictedCategories(t)]
           Gold == [t \in Done |-> GoldCategories(t)]
           Few == [t \in Done |-> CountedCategories(t)]
           SPred == [t \in Done |-> PredictedPairs(t)]
           SGold == [t \in Done |-> GoldPairs(t)]
           SFew == [t \in Done |-> CountedPairs(t)]
           G == Items(GoldCategories, Done)
           SG == Items(GoldPairs, Done)
<1>4. SameHits(PredictedItems, G, GoldItems) /\ (Present = Done => GoldItems = G)
  <2>1. "__parse_failed__" \notin Categories /\ IsFiniteSet(Categories)
    BY SentinelAssumption, TaxonomyAssumption
  <2>2. /\ \A t \in Done : Gold[t] \subseteq Categories
        /\ \A t \in Done : Few[t] = IF t \in Present THEN Gold[t] ELSE {}
        /\ \A t \in Done : t \notin Present => Pred[t] = {"__parse_failed__"}
    BY <1>3 DEF CountedCategories, PredictedCategories
  <2>3. /\ PredictedItems = UNION {{<<t, y>> : y \in Pred[t]} : t \in Done}
        /\ G = UNION {{<<t, y>> : y \in Gold[t]} : t \in Done}
        /\ GoldItems = UNION {{<<t, y>> : y \in Few[t]} : t \in Done}
    BY DEF PredictedItems, GoldItems, Items
  <2> HIDE DEF Pred, Gold, Few, G
  <2>4. AreItems(Done, Present, Pred, Gold, Few, Categories, "__parse_failed__",
                 PredictedItems, G, GoldItems)
    BY <1>1, <1>2, <2>1, <2>2, <2>3, Zenon DEF AreItems
  <2> QED BY <2>4, ItemsAgree, SMTT(30)
<1>5. SameHits(PredictedPairItems, SG, GoldPairItems) /\ (Present = Done => GoldPairItems = SG)
  <2>1. /\ <<"__parse_failed__", "__parse_failed__">> \notin Stages \X Categories
        /\ IsFiniteSet(Stages \X Categories)
    BY SentinelAssumption, TaxonomyAssumption, FS_Product
  <2>2. /\ \A t \in Done : SGold[t] \subseteq Stages \X Categories
        /\ \A t \in Done : SFew[t] = IF t \in Present THEN SGold[t] ELSE {}
        /\ \A t \in Done : t \notin Present =>
              SPred[t] = {<<"__parse_failed__", "__parse_failed__">>}
    BY <1>3 DEF CountedPairs, PredictedPairs
  <2>3. /\ PredictedPairItems = UNION {{<<t, y>> : y \in SPred[t]} : t \in Done}
        /\ SG = UNION {{<<t, y>> : y \in SGold[t]} : t \in Done}
        /\ GoldPairItems = UNION {{<<t, y>> : y \in SFew[t]} : t \in Done}
    BY DEF PredictedPairItems, GoldPairItems, Items
  <2> HIDE DEF SPred, SGold, SFew, SG
  <2>4. AreItems(Done, Present, SPred, SGold, SFew, Stages \X Categories,
                 <<"__parse_failed__", "__parse_failed__">>, PredictedPairItems, SG, GoldPairItems)
    BY <1>1, <1>2, <2>1, <2>2, <2>3, Zenon DEF AreItems
  <2> QED BY <2>4, ItemsAgree, SMTT(30)
<1>6. /\ Cardinality(CountedIncorrect) <= Cardinality(Incorrect)
      /\ Present = Done => CountedIncorrect = Incorrect
  <2>1. /\ CountedIncorrect \in SUBSET Incorrect /\ Incorrect \in SUBSET Done
        /\ Present = Done => CountedIncorrect = Incorrect
    BY <1>2 DEF CountedIncorrect, Incorrect
  <2> QED BY <1>1, <2>1, FS_Subset
<1>7. \A t \in Parsed : CountedCategories(t) = GoldCategories(t)
  <2>1. \A t \in Parsed : t \in Done
    BY DEF Parsed
  <2> QED BY <1>3, <2>1 DEF CountedCategories
<1>8. {t \in Parsed : PredictedCategories(t) = GoldCategories(t)} = Exact
  BY <1>7 DEF Exact
<1> HIDE DEF G, SG
<1>9. /\ metrics.tp = Cardinality(PredictedItems \cap G)
      /\ metrics.fp = Cardinality(PredictedItems \ G)
      /\ metrics.fn <= Cardinality(G \ PredictedItems)
      /\ Present = Done => metrics.fn = Cardinality(G \ PredictedItems)
  BY <1>1, <1>4 DEF ItemsMatch, SameHits
<1>10. /\ metrics.pairTp = Cardinality(PredictedPairItems \cap SG)
       /\ metrics.pairFp = Cardinality(PredictedPairItems \ SG)
       /\ metrics.pairFn <= Cardinality(SG \ PredictedPairItems)
       /\ Present = Done => metrics.pairFn = Cardinality(SG \ PredictedPairItems)
  BY <1>1, <1>5 DEF ItemsMatch, SameHits
<1>11. /\ metrics.incorrectGold <= Cardinality(Incorrect)
       /\ Present = Done => metrics.incorrectGold = Cardinality(Incorrect)
       /\ metrics.runComplete <=> Present = Done
  BY <1>1, <1>6 DEF TracesMatch
<1>12. Missed = G \ PredictedItems /\ MissedPairs = SG \ PredictedPairItems
  BY DEF Missed, MissedPairs, G, SG, PredictedItems, PredictedPairItems, Items
<1>13. /\ Items(PredictedCategories, Done) = PredictedItems
       /\ Items(PredictedPairs, Done) = PredictedPairItems
  BY DEF PredictedItems, PredictedPairItems, Items
<1>14. /\ metrics.runComplete => MissesAreCounted
       /\ metrics.fn <= Cardinality(Missed) /\ metrics.pairFn <= Cardinality(MissedPairs)
  BY <1>9, <1>10, <1>11, <1>12 DEF MissesAreCounted
<1> QED BY <1>1, <1>8, <1>9, <1>10, <1>11, <1>13, <1>14
        DEF CountsMatchDefinitions, TracesMatch, CellsMatch, G, SG

(* Whatever the wrappers and the gold diagnoses of however many traces:    *)
(* the counters of the reporter are at every step of its pass what the     *)
(* definitions of the metrics say of the traces done so far, and where a   *)
(* wrapper is missing no more than they say.                               *)
THEOREM CountsAreDefined == PathSpec => []CountsMatchDefinitions
BY ReportedAsDefined, ReportInvInitially, ReportStep, PTL DEF PathSpec

(* Every reachable state of the client, the transport, the wrappers and    *)
(* the counters is of its type (Hy3ModelClient::invoke, buildReport).      *)
THEOREM PathTypeCorrect == PathSpec => []PathTypeOK
<1>1. ASSUME PathInv, ReportInv PROVE PathTypeOK
  <2>1. \A t \in TraceSet : wrapper[t].parse_status \in ParseStatuses \cup {"wrapper_missing"}
    BY <1>1 DEF ReportInv, WrapperOk, NoWrapper, Wrapper
  <2>2. \A c \in DOMAIN metrics \ {"runComplete", "statusCounts", "statusConf", "primaryConf"} :
           metrics[c] \in Nat
    <3>1. DOMAIN metrics = Fields
      BY <1>1 DEF ReportInv, MetricsTypeOK
    <3> QED BY <1>1, <3>1 DEF ReportInv, MetricsTypeOK, Fields
  <2> QED BY <1>1, <2>1, <2>2 DEF PathTypeOK, PathInv, ReportInv, MetricsTypeOK
<1> QED BY <1>1, PathInvariant, ReportInvInitially, ReportStep, PTL DEF PathSpec
============================================================================
