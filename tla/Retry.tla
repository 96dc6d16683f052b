-------------------------------- MODULE Retry --------------------------------
(***************************************************************************)
(* The decisions dispatch_with_retry (src/pipeline.rs) takes on the result *)
(* of one send: is the batch settled, given up, retried; what is counted;  *)
(* is the run aborted; how long is the pause.  Dispatch uses them for one  *)
(* batch with its real answers, Pipeline for all the workers.              *)
(***************************************************************************)
EXTENDS Transport

MaxOf(a, b) == IF a >= b THEN a ELSE b
MinOf(a, b) == IF a =< b THEN a ELSE b
\* u64::saturating_sub
Minus(a, b) == IF a > b THEN a - b ELSE 0

\* Nothing failed: the loop returns after counting.
Settled(r) == r.failed = 0

\* Mutants of GiveUp: one attempt too many; a definitive answer is retried too.
GiveUpLate(r, attempt, retries) ==
  IF r.auth_error THEN attempt >= 1 ELSE ~r.retryable \/ attempt > retries
GiveUpRetriesAll(r, attempt, retries) ==
  IF r.auth_error THEN attempt >= 1 ELSE attempt >= retries

\* One confirmation retry for auth errors, `retries' retries for the others.
GiveUp(r, attempt, retries) ==
  IF r.auth_error THEN attempt >= 1 ELSE ~r.retryable \/ attempt >= retries

\* Mutant of SentCount: the delivered part of a partial answer is forgotten.
SentCountAllOrNothing(r, n) == IF Settled(r) THEN MaxOf(r.succeeded, n) ELSE 0

\* Events counted as sent and as failed when the batch leaves the loop.
SentCount(r, n) == IF Settled(r) THEN MaxOf(r.succeeded, n) ELSE r.succeeded
FailedCount(r, n) == IF Settled(r) THEN 0 ELSE Minus(n, r.succeeded)

\* Mutant of AbortsRun: --fail-fast is tested for delivered batches as well.
AbortsRunAlways(r, failFast) == r.auth_error \/ failFast

\* A batch given up stores the fatal flag on these conditions.
AbortsRun(r, failFast) == ~Settled(r) /\ (r.auth_error \/ failFast)

(***************************************************************************)
(* backoff_delay in milliseconds: 500 * 2^min(attempt-1, 12), at most 30 s,*)
(* times a jitter of at least one percent.  The jitter is a percentage.    *)
(***************************************************************************)
BaseBackoffMs == 500
MaxBackoffMs == 30000
\* Mutant of BackoffCap: only the exponent is bounded.
BackoffUncapped(attempt) == BaseBackoffMs * 2 ^ MinOf(Minus(attempt, 1), 12)

BackoffCap(attempt) == MinOf(BaseBackoffMs * 2 ^ MinOf(Minus(attempt, 1), 12), MaxBackoffMs)
BackoffDelay(attempt, percent) == (BackoffCap(attempt) * MaxOf(percent, 1)) \div 100

\* The pause before the next attempt, never under 10 ms.
MinPauseMs == 10
Pause(r, attempt, percent) ==
  MaxOf(IF r.retry_after # NoRetryAfter THEN r.retry_after ELSE BackoffDelay(attempt, percent),
        MinPauseMs)
==============================================================================
