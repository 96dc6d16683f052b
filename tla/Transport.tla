------------------------------ MODULE Transport ------------------------------
(***************************************************************************)
(* The transports of src/transport: what one Transport::send call makes of *)
(* the answer it gets, as operators from an answer to a BatchResult.       *)
(*                                                                         *)
(* Event bodies, URLs and headers other than Retry-After are abstracted: a *)
(* batch is its number n of events.  `bytes' is counted in events (n when  *)
(* the code reports the size of the whole body, 0 when it reports none).   *)
(* The wording of `reason' is left out.                                    *)
(***************************************************************************)
EXTENDS Integers

\* Option<Duration> is None.
NoRetryAfter == -1

Kinds == {"hec", "otel", "stdout"}

BatchResult ==
  [succeeded : Nat, failed : Nat, bytes : Nat, retryable : BOOLEAN,
   auth_error : BOOLEAN, retry_after : Nat \cup {NoRetryAfter}]

\* BatchResult::delivered
Delivered(n) ==
  [succeeded |-> n, failed |-> 0, bytes |-> n, retryable |-> FALSE,
   auth_error |-> FALSE, retry_after |-> NoRetryAfter]

\* BatchResult::none
Undelivered(n, retryable) ==
  [succeeded |-> 0, failed |-> n, bytes |-> 0, retryable |-> retryable,
   auth_error |-> FALSE, retry_after |-> NoRetryAfter]

\* What a 2xx answer reports, per event; it is never retried.
Reported(succeeded, failed, n) ==
  [Delivered(n) EXCEPT !.succeeded = succeeded, !.failed = failed]

(***************************************************************************)
(* An answer.  `event' says how the call ended: the batch could not be     *)
(* encoded, no complete HTTP response came back (time-out, refused or      *)
(* reset connection), the server answered, or (stdout) the writes ended    *)
(* well or with an error.  `stored' is what the receiver really kept of    *)
(* the batch, which the program never sees.                                *)
(***************************************************************************)
Answer(event, stored) ==
  [event |-> event, stored |-> stored, status |-> 0,
   retry_after |-> NoRetryAfter, body |-> [form |-> "none"]]

Http(status, retryAfter, body, stored) ==
  [event |-> "answered", stored |-> stored, status |-> status,
   retry_after |-> retryAfter, body |-> body]

\* The order of the status tests of both HTTP transports.
StatusClass(status) ==
  IF status \in {401, 403} THEN "auth"
  ELSE IF status = 429 \/ status >= 500 THEN "busy"
  ELSE IF status \notin 200..299 THEN "refused"
  ELSE "ok"

\* A HEC array body with `zero' items whose code is 0 and `other' items
\* whose code is not 0 or is missing; its length is the server's choice.
ArrayBody(zero, other) == [form |-> "array", zero |-> zero, other |-> other]
\* A HEC object body; code is "zero", "absent" or "nonzero".
ObjectBody(code) == [form |-> "object", code |-> code]
\* Any other body, the empty one included.
RawBody == [form |-> "raw"]
\* The body of a 2xx answer that broke off, or that cannot be decoded: the code
\* goes on with an empty one.
LostBody == [form |-> "lost"]
\* An ExportLogsServiceResponse with a partial_success of `rejected' records.
PartialBody(rejected) == [form |-> "partial", rejected |-> rejected]

\* Mutant of HecReport: the code of an object body is not looked at.
HecReportTrusting(body, n) ==
  IF body.form = "array" THEN Reported(body.zero, body.other, n) ELSE Reported(n, 0, n)

\* The per-event codes of a 2xx HEC answer.
HecReport(body, n) ==
  CASE body.form = "array"  -> Reported(body.zero, body.other, n)
    [] body.form = "object" -> IF body.code = "nonzero" THEN Reported(0, n, n)
                               ELSE Reported(n, 0, n)
    [] OTHER                -> Reported(n, 0, n)

\* Mutant of OtelReport: the i64 count of rejected records is not clamped.
OtelReportSigned(body, n) ==
  LET rejected == IF body.form = "partial" THEN body.rejected ELSE 0
  IN  Reported(IF rejected > n THEN 0 ELSE n - rejected, rejected, n)

\* The partial success of a 200 OTLP answer; i64 rejected counts below 0 are 0.
OtelReport(body, n) ==
  LET rejected == IF body.form = "partial" /\ body.rejected > 0
                  THEN body.rejected ELSE 0
  IN  Reported(IF rejected > n THEN 0 ELSE n - rejected, rejected, n)

HttpResult(kind, a, n) ==
  CASE StatusClass(a.status) = "auth" ->
         [Undelivered(n, TRUE) EXCEPT !.auth_error = TRUE]
    [] StatusClass(a.status) = "busy" ->
         [Undelivered(n, TRUE) EXCEPT !.retry_after = a.retry_after]
    [] StatusClass(a.status) = "refused" -> Undelivered(n, FALSE)
    [] OTHER -> IF kind = "hec" THEN HecReport(a.body, n) ELSE OtelReport(a.body, n)

\* Transport::send of the three transports.
SendResult(kind, a, n) ==
  CASE a.event = "unencodable" -> Undelivered(n, FALSE)
    [] a.event = "lost"        -> Undelivered(n, TRUE)
    [] a.event = "written"     -> Delivered(n)
    [] a.event = "write_error" -> Undelivered(n, FALSE)
    [] a.event = "answered"    -> HttpResult(kind, a, n)

(***************************************************************************)
(* The answers a batch of n events can get.  An honest receiver reports    *)
(* what it stored; of a report lost on the way the program sees only the   *)
(* status 2xx, however little was stored.                                  *)
(***************************************************************************)
FailureAnswers(n, retryAfters) ==
  {Answer("unencodable", 0)}
  \cup {Answer("lost", k) : k \in 0..n}
  \cup {Http(s, NoRetryAfter, RawBody, 0) : s \in {302, 401, 403, 404}}
  \cup {Http(429, d, RawBody, 0) : d \in retryAfters}
  \cup {Http(503, d, RawBody, k) : d \in retryAfters, k \in 0..n}

HonestHec(n) ==
  {Http(200, NoRetryAfter, ArrayBody(k, n - k), k) : k \in 0..n}
  \cup {Http(200, NoRetryAfter, ObjectBody(c), n) : c \in {"zero", "absent"}}
  \cup {Http(200, NoRetryAfter, ObjectBody("nonzero"), k) : k \in 0..n}
  \cup {Http(200, NoRetryAfter, RawBody, n)}
  \cup {Http(200, NoRetryAfter, LostBody, k) : k \in 0..n}

HonestOtel(n) ==
  {Http(200, NoRetryAfter, PartialBody(k), n - k) : k \in 0..n}
  \cup {Http(200, NoRetryAfter, PartialBody(-1), n), Http(200, NoRetryAfter, RawBody, n)}
  \cup {Http(200, NoRetryAfter, LostBody, k) : k \in 0..n}

\* A line of stdout that cannot be written leaves the ones before it written.
StdoutAnswers(n) ==
  {Answer("written", n)} \cup {Answer("write_error", k) : k \in 0..(n - 1)}

HonestAnswers(kind, n, retryAfters) ==
  CASE kind = "hec"    -> FailureAnswers(n, retryAfters) \cup HonestHec(n)
    [] kind = "otel"   -> FailureAnswers(n, retryAfters) \cup HonestOtel(n)
    [] kind = "stdout" -> StdoutAnswers(n)
==============================================================================
