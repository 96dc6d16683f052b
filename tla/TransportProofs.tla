---------------------------- MODULE TransportProofs ----------------------------
(***************************************************************************)
(* What every result a transport can hand to dispatch_with_retry has in    *)
(* common, for every transport, batch size and set of Retry-After values.  *)
(* The proofs about a single call (DispatchProofs) and about the whole run *)
(* (PipelineProofs) rest on it.                                            *)
(***************************************************************************)
EXTENDS Retry, TLAPS

\* Result r of a batch of n events is true to answer a: it splits the batch,
\* claims no more than the receiver stored (or all of the batch, when the report
\* of a 2xx answer was lost), keeps the pause the server asked for, and an answer
\* that reports outcomes per event is final.
TrueTo(a, r, n) ==
  /\ r \in BatchResult
  /\ r.succeeded + r.failed = n
  /\ a.stored \in 0..n
  /\ \/ r.succeeded =< a.stored
     \/ a.body = LostBody /\ r.succeeded = n
  /\ r.retry_after = a.retry_after
  /\ StatusClass(a.status) = "ok" => ~r.retryable /\ ~r.auth_error

\* The forms of a result that delivers nothing, and what makes such a result true.
IsUndelivered(r, n, d) ==
  r \in BatchResult /\ r.succeeded = 0 /\ r.failed = n /\ r.retry_after = d

LEMMA UndeliveredResult ==
  ASSUME NEW n \in Nat, NEW b \in BOOLEAN, NEW d \in Nat \cup {NoRetryAfter}
  PROVE  /\ IsUndelivered(Undelivered(n, b), n, NoRetryAfter)
         /\ IsUndelivered([Undelivered(n, b) EXCEPT !.auth_error = TRUE], n, NoRetryAfter)
         /\ IsUndelivered([Undelivered(n, b) EXCEPT !.retry_after = d], n, d)
BY DEF IsUndelivered, Undelivered, BatchResult, NoRetryAfter

LEMMA UndeliveredTrue ==
  ASSUME NEW n \in Nat, NEW a, NEW r, IsUndelivered(r, n, a.retry_after),
         a.stored \in 0..n, StatusClass(a.status) # "ok"
  PROVE  TrueTo(a, r, n)
BY DEF IsUndelivered, TrueTo

LEMMA ReportedResult ==
  ASSUME NEW n \in Nat, NEW s \in Nat, NEW f \in Nat
  PROVE  /\ Reported(s, f, n) \in BatchResult
         /\ Reported(s, f, n).succeeded = s /\ Reported(s, f, n).failed = f
         /\ Reported(s, f, n).retry_after = NoRetryAfter
         /\ ~Reported(s, f, n).retryable /\ ~Reported(s, f, n).auth_error
BY DEF Reported, Delivered, BatchResult, NoRetryAfter

\* No answer, or an HTTP status other than 2xx.
LEMMA FailureTrue ==
  ASSUME NEW n \in Nat, NEW kind, NEW ds \in SUBSET (Nat \cup {NoRetryAfter}),
         NEW a \in FailureAnswers(n, ds)
  PROVE  TrueTo(a, SendResult(kind, a, n), n)
<1> DEFINE r == SendResult(kind, a, n)
<1>5. 0 \in 0..n
  OBVIOUS
<1>1. ASSUME a = Answer("unencodable", 0)
      PROVE  TrueTo(a, r, n)
  <2>1. a.event = "unencodable" /\ a.stored = 0 /\ a.status = 0 /\ a.retry_after = NoRetryAfter
    BY <1>1 DEF Answer
  <2>2. r = Undelivered(n, FALSE)
    BY <2>1 DEF SendResult
  <2>3. StatusClass(a.status) # "ok"
    BY <2>1 DEF StatusClass
  <2>4. QED
    BY <2>1, <2>2, <2>3, <1>5, UndeliveredResult, UndeliveredTrue
<1>2. ASSUME NEW k \in 0..n, a = Answer("lost", k)
      PROVE  TrueTo(a, r, n)
  <2>1. a.event = "lost" /\ a.stored = k /\ a.status = 0 /\ a.retry_after = NoRetryAfter
    BY <1>2 DEF Answer
  <2>2. r = Undelivered(n, TRUE)
    BY <2>1 DEF SendResult
  <2>3. StatusClass(a.status) # "ok"
    BY <2>1 DEF StatusClass
  <2>4. QED
    BY <2>1, <2>2, <2>3, UndeliveredResult, UndeliveredTrue
<1>3. ASSUME NEW s \in {302, 401, 403, 404}, a = Http(s, NoRetryAfter, RawBody, 0)
      PROVE  TrueTo(a, r, n)
  <2>1. a.event = "answered" /\ a.stored = 0 /\ a.status = s /\ a.retry_after = NoRetryAfter
    BY <1>3 DEF Http
  <2>2. r = HttpResult(kind, a, n)
    BY <2>1 DEF SendResult
  <2>3. StatusClass(a.status) \in {"auth", "refused"}
    BY <2>1 DEF StatusClass
  <2>4. r \in {Undelivered(n, FALSE), [Undelivered(n, TRUE) EXCEPT !.auth_error = TRUE]}
    BY <2>2, <2>3 DEF HttpResult
  <2>5. IsUndelivered(r, n, NoRetryAfter)
    <3>1. /\ IsUndelivered(Undelivered(n, FALSE), n, NoRetryAfter)
          /\ IsUndelivered([Undelivered(n, TRUE) EXCEPT !.auth_error = TRUE], n, NoRetryAfter)
      BY UndeliveredResult
    <3>2. QED
      BY <2>4, <3>1, Zenon
  <2>6. QED
    BY <1>5, <2>1, <2>3, <2>5, UndeliveredTrue
<1>4. ASSUME NEW s \in {429, 503}, NEW d \in ds, NEW k \in 0..n, a = Http(s, d, RawBody, k)
      PROVE  TrueTo(a, r, n)
  <2>1. a.event = "answered" /\ a.stored = k /\ a.status = s /\ a.retry_after = d
    BY <1>4 DEF Http
  <2>2. r = HttpResult(kind, a, n)
    BY <2>1 DEF SendResult
  <2>3. StatusClass(a.status) = "busy"
    BY <2>1 DEF StatusClass
  <2>4. r = [Undelivered(n, TRUE) EXCEPT !.retry_after = d]
    BY <2>1, <2>2, <2>3 DEF HttpResult
  <2>5. IsUndelivered(r, n, d)
    <3>1. IsUndelivered([Undelivered(n, TRUE) EXCEPT !.retry_after = d], n, d)
      BY UndeliveredResult
    <3>2. QED
      BY <2>4, <3>1, Zenon
  <2>6. QED
    BY <2>1, <2>3, <2>5, UndeliveredTrue
<1>6. \/ a = Answer("unencodable", 0)
      \/ \E k \in 0..n : a = Answer("lost", k)
      \/ \E s \in {302, 401, 403, 404} : a = Http(s, NoRetryAfter, RawBody, 0)
      \/ \E s \in {429, 503}, d \in ds, k \in 0..n : a = Http(s, d, RawBody, k)
  BY <1>5 DEF FailureAnswers
<1>7. CASE \E k \in 0..n : a = Answer("lost", k)
  BY <1>2, <1>7
<1>8. CASE \E s \in {302, 401, 403, 404} : a = Http(s, NoRetryAfter, RawBody, 0)
  BY <1>3, <1>8
<1>9. CASE \E s \in {429, 503}, d \in ds, k \in 0..n : a = Http(s, d, RawBody, k)
  BY <1>4, <1>9
<1>10. QED
  BY <1>1, <1>6, <1>7, <1>8, <1>9

\* A 2xx answer: what it reports as delivered was stored, or its report was lost.
LEMMA ReportTrue ==
  ASSUME NEW n \in Nat, NEW a, NEW f \in 0..n, a.stored \in 0..n,
         n - f =< a.stored \/ (a.body = LostBody /\ f = 0), a.retry_after = NoRetryAfter
  PROVE  TrueTo(a, Reported(n - f, f, n), n)
<1>1. n - f \in Nat /\ f \in Nat /\ (n - f) + f = n
  OBVIOUS
<1>2. /\ Reported(n - f, f, n) \in BatchResult
      /\ Reported(n - f, f, n).succeeded = n - f /\ Reported(n - f, f, n).failed = f
      /\ Reported(n - f, f, n).retry_after = NoRetryAfter
      /\ ~Reported(n - f, f, n).retryable /\ ~Reported(n - f, f, n).auth_error
  BY <1>1, ReportedResult
<1>3. QED
  BY <1>1, <1>2 DEF TrueTo

LEMMA HecTrue ==
  ASSUME NEW n \in Nat, NEW a \in HonestHec(n)
  PROVE  TrueTo(a, SendResult("hec", a, n), n)
<1>1. a.event = "answered" /\ a.status = 200 /\ a.retry_after = NoRetryAfter
  BY DEF HonestHec, Http
<1>2. SendResult("hec", a, n) = HecReport(a.body, n)
  <2>1. StatusClass(a.status) = "ok"
    BY <1>1 DEF StatusClass
  <2>2. QED
    BY <1>1, <2>1 DEF SendResult, HttpResult
<1>3. ASSUME NEW k \in 0..n, a = Http(200, NoRetryAfter, ArrayBody(k, n - k), k)
      PROVE  TrueTo(a, HecReport(a.body, n), n)
  <2>1. a.body = ArrayBody(k, n - k) /\ a.stored = k
    BY <1>3 DEF Http
  <2>2. n - k \in 0..n /\ n - (n - k) = k
    OBVIOUS
  <2>3. HecReport(a.body, n) = Reported(k, n - k, n)
    BY <2>1 DEF HecReport, ArrayBody
  <2>4. TrueTo(a, Reported(n - (n - k), n - k, n), n)
    BY <1>1, <2>1, <2>2, ReportTrue
  <2>5. QED
    BY <2>2, <2>3, <2>4
<1>4. ASSUME NEW k \in 0..n, a = Http(200, NoRetryAfter, ObjectBody("nonzero"), k)
      PROVE  TrueTo(a, HecReport(a.body, n), n)
  <2>1. a.body = ObjectBody("nonzero") /\ a.stored = k
    BY <1>4 DEF Http
  <2>2. HecReport(a.body, n) = Reported(0, n, n)
    BY <2>1 DEF HecReport, ObjectBody
  <2>3. n \in 0..n /\ n - n = 0
    OBVIOUS
  <2>4. TrueTo(a, Reported(n - n, n, n), n)
    BY <1>1, <2>1, <2>3, ReportTrue
  <2>5. QED
    BY <2>2, <2>3, <2>4
<1>5. ASSUME NEW b \in {ObjectBody("zero"), ObjectBody("absent"), RawBody},
             a = Http(200, NoRetryAfter, b, n)
      PROVE  TrueTo(a, HecReport(a.body, n), n)
  <2>1. a.body = b /\ a.stored = n
    BY <1>5 DEF Http
  <2>2. HecReport(a.body, n) = Reported(n, 0, n)
    BY <2>1 DEF HecReport, ObjectBody, RawBody
  <2>3. n \in 0..n /\ 0 \in 0..n /\ n - 0 = n
    OBVIOUS
  <2>4. TrueTo(a, Reported(n - 0, 0, n), n)
    BY <1>1, <2>1, <2>3, ReportTrue
  <2>5. QED
    BY <2>2, <2>3, <2>4
<1>9. ASSUME NEW k \in 0..n, a = Http(200, NoRetryAfter, LostBody, k)
      PROVE  TrueTo(a, HecReport(a.body, n), n)
  <2>1. a.body = LostBody /\ a.stored = k
    BY <1>9 DEF Http
  <2>2. HecReport(a.body, n) = Reported(n, 0, n)
    BY <2>1 DEF HecReport, LostBody
  <2>3. 0 \in 0..n /\ n - 0 = n
    OBVIOUS
  <2>4. TrueTo(a, Reported(n - 0, 0, n), n)
    BY <1>1, <2>1, <2>3, ReportTrue
  <2>5. QED
    BY <2>2, <2>3, <2>4
<1>6. \/ \E k \in 0..n : a = Http(200, NoRetryAfter, ArrayBody(k, n - k), k)
      \/ \E k \in 0..n : a = Http(200, NoRetryAfter, ObjectBody("nonzero"), k)
      \/ \E b \in {ObjectBody("zero"), ObjectBody("absent"), RawBody} :
           a = Http(200, NoRetryAfter, b, n)
      \/ \E k \in 0..n : a = Http(200, NoRetryAfter, LostBody, k)
  BY DEF HonestHec
<1>7. TrueTo(a, HecReport(a.body, n), n)
  BY <1>3, <1>4, <1>5, <1>6, <1>9
<1>8. QED
  BY <1>2, <1>7

LEMMA OtelTrue ==
  ASSUME NEW n \in Nat, NEW a \in HonestOtel(n)
  PROVE  TrueTo(a, SendResult("otel", a, n), n)
<1>1. a.event = "answered" /\ a.status = 200 /\ a.retry_after = NoRetryAfter
  BY DEF HonestOtel, Http
<1>2. SendResult("otel", a, n) = OtelReport(a.body, n)
  <2>1. StatusClass(a.status) = "ok"
    BY <1>1 DEF StatusClass
  <2>2. QED
    BY <1>1, <2>1 DEF SendResult, HttpResult
<1>3. ASSUME NEW k \in 0..n, a = Http(200, NoRetryAfter, PartialBody(k), n - k)
      PROVE  TrueTo(a, OtelReport(a.body, n), n)
  <2>1. a.body = PartialBody(k) /\ a.stored = n - k /\ n - k \in 0..n
    BY <1>3 DEF Http
  <2>2. OtelReport(a.body, n) = Reported(n - k, k, n)
    BY <2>1 DEF OtelReport, PartialBody
  <2>3. QED
    BY <1>1, <2>1, <2>2, ReportTrue
<1>4. ASSUME NEW b \in {PartialBody(-1), RawBody}, a = Http(200, NoRetryAfter, b, n)
      PROVE  TrueTo(a, OtelReport(a.body, n), n)
  <2>1. a.body = b /\ a.stored = n
    BY <1>4 DEF Http
  <2>2. OtelReport(a.body, n) = Reported(n - 0, 0, n)
    BY <2>1 DEF OtelReport, PartialBody, RawBody
  <2>3. n \in 0..n /\ 0 \in 0..n /\ n - 0 =< n
    OBVIOUS
  <2>4. QED
    BY <1>1, <2>1, <2>2, <2>3, ReportTrue
<1>8. ASSUME NEW k \in 0..n, a = Http(200, NoRetryAfter, LostBody, k)
      PROVE  TrueTo(a, OtelReport(a.body, n), n)
  <2>1. a.body = LostBody /\ a.stored = k
    BY <1>8 DEF Http
  <2>2. OtelReport(a.body, n) = Reported(n - 0, 0, n)
    BY <2>1 DEF OtelReport, LostBody
  <2>3. 0 \in 0..n
    OBVIOUS
  <2>4. QED
    BY <1>1, <2>1, <2>2, <2>3, ReportTrue
<1>5. \/ \E k \in 0..n : a = Http(200, NoRetryAfter, PartialBody(k), n - k)
      \/ \E b \in {PartialBody(-1), RawBody} : a = Http(200, NoRetryAfter, b, n)
      \/ \E k \in 0..n : a = Http(200, NoRetryAfter, LostBody, k)
  BY DEF HonestOtel
<1>6. TrueTo(a, OtelReport(a.body, n), n)
  BY <1>3, <1>4, <1>5, <1>8
<1>7. QED
  BY <1>2, <1>6

LEMMA StdoutTrue ==
  ASSUME NEW n \in Nat, NEW kind, NEW a \in StdoutAnswers(n)
  PROVE  TrueTo(a, SendResult(kind, a, n), n)
<1>1. /\ a.event \in {"written", "write_error"} /\ a.stored \in 0..n /\ a.status = 0
      /\ a.event = "written" => a.stored = n
      /\ a.retry_after = NoRetryAfter
  BY DEF StdoutAnswers, Answer
<1>2. StatusClass(a.status) # "ok"
  BY <1>1 DEF StatusClass
<1>3. CASE a.event = "written"
  <2>1. SendResult(kind, a, n) = Delivered(n)
    BY <1>3 DEF SendResult
  <2>2. /\ Delivered(n) \in BatchResult /\ Delivered(n).retry_after = NoRetryAfter
        /\ Delivered(n).succeeded = n /\ Delivered(n).failed = 0
    BY DEF Delivered, BatchResult, NoRetryAfter
  <2>3. TrueTo(a, Delivered(n), n)
    BY <1>1, <1>2, <1>3, <2>2 DEF TrueTo
  <2>4. QED
    BY <2>1, <2>3
<1>4. CASE a.event = "write_error"
  <2>1. SendResult(kind, a, n) = Undelivered(n, FALSE)
    BY <1>4 DEF SendResult
  <2>2. TrueTo(a, Undelivered(n, FALSE), n)
    BY <1>1, <1>2, UndeliveredResult, UndeliveredTrue
  <2>3. QED
    BY <2>1, <2>2
<1>5. QED
  BY <1>1, <1>3, <1>4

(***************************************************************************)
(* Whatever the transport and however a send ends, the result the          *)
(* dispatcher sees accounts for every event of the batch once and claims   *)
(* an event the receiver did not keep only when the report of a 2xx answer *)
(* was lost, and then claims them all (TrueTo).                            *)
(***************************************************************************)
THEOREM ResultsTrue ==
  ASSUME NEW kind \in Kinds, NEW n \in Nat, NEW ds \in SUBSET (Nat \cup {NoRetryAfter}),
         NEW a \in HonestAnswers(kind, n, ds)
  PROVE  TrueTo(a, SendResult(kind, a, n), n)
<1>1. CASE kind = "hec"
  BY <1>1, FailureTrue, HecTrue DEF HonestAnswers
<1>2. CASE kind = "otel"
  BY <1>2, FailureTrue, OtelTrue DEF HonestAnswers
<1>3. CASE kind = "stdout"
  BY <1>3, StdoutTrue DEF HonestAnswers
<1>4. QED
  BY <1>1, <1>2, <1>3 DEF Kinds

\* What is counted of such a result, settled or given up, is the batch.
LEMMA CountsSplit ==
  ASSUME NEW n \in Nat, NEW a, NEW r, TrueTo(a, r, n)
  PROVE  /\ SentCount(r, n) = r.succeeded /\ FailedCount(r, n) = r.failed
         /\ r.succeeded \in 0..n /\ r.failed \in 0..n
<1>1. r.succeeded \in Nat /\ r.failed \in Nat /\ r.succeeded + r.failed = n
  BY DEF TrueTo, BatchResult
<1>2. QED
  BY <1>1 DEF SentCount, FailedCount, Settled, MaxOf, Minus
===============================================================================
