---------------------------- MODULE DispatchProofs ----------------------------
(***************************************************************************)
(* Theorems about one call of dispatch_with_retry, for every transport,    *)
(* batch size, --retries, Retry-After value and jitter.                    *)
(***************************************************************************)
EXTENDS Dispatch, TransportProofs

\* Pauses: the cap of the backoff and its jitter.
LEMMA BackoffBound ==
  ASSUME NEW k \in Nat, NEW percent \in 1..99
  PROVE  BackoffDelay(k, percent) \in Int /\ BackoffDelay(k, percent) =< MaxBackoffMs
<1>1. MinOf(Minus(k, 1), 12) \in 0..12
  BY DEF MinOf, Minus
<1>2. 2 ^ MinOf(Minus(k, 1), 12) \in Int
  BY <1>1
<1>3. BackoffCap(k) \in Int /\ BackoffCap(k) =< MaxBackoffMs
  BY <1>2 DEF BackoffCap, MinOf, BaseBackoffMs, MaxBackoffMs
<1>4. MaxOf(percent, 1) = percent
  BY DEF MaxOf
<1>5. QED
  BY <1>3, <1>4 DEF BackoffDelay, MaxBackoffMs

\* A pause is long enough for the server and never longer than both the
\* backoff's cap and what the server asked for.
LEMMA PauseBound ==
  ASSUME NEW r \in BatchResult, NEW k \in Nat, NEW percent \in 1..99
  PROVE  /\ Pause(r, k, percent) \in Nat
         /\ Pause(r, k, percent) >= r.retry_after /\ Pause(r, k, percent) >= MinPauseMs
         /\ Pause(r, k, percent) =< MaxOf(MaxBackoffMs, r.retry_after)
<1>1. r.retry_after \in Nat \cup {NoRetryAfter}
  BY DEF BatchResult
<1>2. BackoffDelay(k, percent) \in Int /\ BackoffDelay(k, percent) =< MaxBackoffMs
  BY BackoffBound
<1>3. QED
  BY <1>1, <1>2 DEF Pause, MaxOf, MinPauseMs, MaxBackoffMs, NoRetryAfter
-------------------------------------------------------------------------------
StatsType == [sent : Nat, failed : Nat, retried : Nat, bytes : Nat]

\* The last answer is one of those the call can get.
LastInv == calls > 0 => last \in Answers

\* The counters while the call goes on and when it has returned.
CountInv ==
  /\ stats.retried = conf.n * attempt
  /\ pc # "done" => /\ calls = attempt
                    /\ stats.sent = 0 /\ stats.failed = 0 /\ ~fatal
  /\ pc = "done" => /\ calls = attempt + 1
                    /\ stats.sent = Result(last).succeeded
                    /\ stats.failed = Result(last).failed
                    /\ fatal <=> AbortsRun(Result(last), conf.failFast)

\* The retry counter stays within --retries, but for the confirmation.
BudgetInv ==
  \/ attempt =< conf.retries
  \/ conf.retries = 0 /\ attempt = 1 /\ auths >= 1

\* As long as the call is open, only blind sends can have left copies.
CopiesInv == ~blind => copies =< conf.n /\ (pc # "done" => copies = 0)

SleepInv == pc = "sleep" => calls > 0 /\ PauseWithinBounds

CallTypes ==
  /\ conf \in Configurations
  /\ pc \in {"send", "sleep", "done"}
  /\ attempt \in Nat /\ pause \in Nat /\ calls \in Nat /\ copies \in Nat /\ auths \in Nat
  /\ stats \in StatsType
  /\ fatal \in BOOLEAN /\ blind \in BOOLEAN

CallInv == CallTypes /\ LastInv /\ CountInv /\ BudgetInv /\ CopiesInv /\ SleepInv

\* The configuration of the call.
LEMMA ConfTypes ==
  ASSUME conf \in Configurations
  PROVE  /\ conf.kind \in Kinds /\ conf.n \in Nat \ {0} /\ conf.n =< MaxBatch
         /\ conf.retries \in Nat /\ conf.failFast \in BOOLEAN
<1>1. conf.kind \in Kinds /\ conf.n \in 1..MaxBatch /\ conf.retries \in RetryChoices
      /\ conf.failFast \in BOOLEAN
  BY DEF Configurations
<1>2. MaxBatch \in Nat \ {0} /\ RetryChoices \subseteq Nat
  BY DispatchAssumption
<1>3. conf.retries \in Nat
  BY <1>1, <1>2, Zenon
<1>4. conf.n \in Nat \ {0} /\ conf.n =< MaxBatch
  BY <1>1, <1>2
<1>5. QED
  BY <1>1, <1>3, <1>4

\* The result of every answer is true to it.
LEMMA AnswerTrue ==
  ASSUME conf \in Configurations, NEW a \in Answers
  PROVE  TrueTo(a, Result(a), conf.n)
<1>1. RetryAfters \in SUBSET (Nat \cup {NoRetryAfter})
  BY DispatchAssumption
<1>2. QED
  BY <1>1, ConfTypes, ResultsTrue DEF Answers, Result

LEMMA CallInit == Init => CallInv
<1> SUFFICES ASSUME Init PROVE CallInv
  OBVIOUS
<1>1. conf.n \in Nat /\ conf.retries \in Nat
  BY ConfTypes DEF Init
<1>2. CallTypes /\ LastInv
  <2>1. stats \in StatsType
    BY DEF Init, StatsType
  <2>2. calls = 0 /\ copies = 0 /\ auths = 0 /\ attempt = 0 /\ pause = 0
    BY DEF Init
  <2>3. conf \in Configurations /\ pc = "send" /\ fatal = FALSE /\ blind = FALSE
    BY DEF Init
  <2>4. CallTypes
    BY <2>1, <2>2, <2>3 DEF CallTypes
  <2>5. LastInv
    BY <2>2 DEF LastInv
  <2>6. QED
    BY <2>4, <2>5
<1>3. conf.n * 0 = 0
  BY <1>1
<1>4. CountInv
  BY <1>3 DEF Init, CountInv
<1>5. BudgetInv /\ CopiesInv /\ SleepInv
  BY <1>1 DEF Init, BudgetInv, CopiesInv, SleepInv
<1>6. QED
  BY <1>2, <1>4, <1>5 DEF CallInv

\* What every send adds to the history.
LEMMA Observed ==
  ASSUME CallInv, NEW a \in Answers, pc = "send", Observe(a)
  PROVE  /\ calls' = calls + 1 /\ last' = a /\ conf' = conf /\ LastInv'
         /\ calls' \in Nat /\ copies' \in Nat /\ auths' \in Nat /\ blind' \in BOOLEAN
         /\ auths' >= auths /\ (Result(a).auth_error => auths' >= 1)
         /\ ~blind' => /\ copies' = a.stored
                       /\ a.stored > 0 => StatusClass(a.status) = "ok"
<1>1. a.stored \in Nat
  BY AnswerTrue DEF TrueTo, CallInv, CallTypes
<1>2. calls' = calls + 1 /\ last' = a /\ conf' = conf
  BY DEF Observe
<1>3. LastInv'
  BY <1>2 DEF LastInv, Answers
<1>4. /\ calls' \in Nat /\ copies' \in Nat /\ auths' \in Nat /\ blind' \in BOOLEAN
      /\ auths' >= auths /\ (Result(a).auth_error => auths' >= 1)
  BY <1>1 DEF Observe, CallInv, CallTypes
<1>5. ASSUME ~blind'
      PROVE  copies' = a.stored /\ (a.stored > 0 => StatusClass(a.status) = "ok")
  <2>1. ~blind /\ (a.stored > 0 => StatusClass(a.status) = "ok")
    BY <1>5 DEF Observe
  <2>2. copies = 0
    BY <2>1 DEF CallInv, CopiesInv
  <2>3. QED
    BY <1>1, <2>1, <2>2 DEF Observe
<1>6. QED
  BY <1>2, <1>3, <1>4, <1>5

LEMMA CallFinish ==
  ASSUME CallInv, NEW a \in Answers, Finish(a)
  PROVE  CallInv'
<1> DEFINE n == conf.n
           r == Result(a)
<1>c. /\ conf.kind \in Kinds /\ n \in Nat \ {0} /\ conf.retries \in Nat /\ conf.failFast \in BOOLEAN
  BY ConfTypes DEF CallInv, CallTypes
<1>o. /\ calls' = calls + 1 /\ last' = a /\ conf' = conf /\ LastInv'
      /\ calls' \in Nat /\ copies' \in Nat /\ auths' \in Nat /\ blind' \in BOOLEAN
      /\ auths' >= auths
      /\ ~blind' => copies' = a.stored
  BY Observed DEF Finish
<1>r. TrueTo(a, r, n)
  BY AnswerTrue DEF CallInv, CallTypes
<1>s. /\ SentCount(r, n) = r.succeeded /\ FailedCount(r, n) = r.failed
      /\ r.succeeded \in Nat /\ r.failed \in Nat /\ r.bytes \in Nat
  BY <1>c, <1>r, CountsSplit DEF TrueTo, BatchResult
<1>t. /\ stats \in StatsType /\ attempt \in Nat /\ calls = attempt /\ stats.sent = 0 /\ stats.failed = 0
      /\ ~fatal /\ fatal \in BOOLEAN /\ stats.retried = n * attempt
  BY DEF CallInv, CallTypes, CountInv, Finish
<1>1. /\ stats' \in StatsType /\ stats'.sent = r.succeeded /\ stats'.failed = r.failed
      /\ stats'.retried = stats.retried
  <2>1. stats' = [stats EXCEPT !.sent = @ + r.succeeded, !.failed = @ + r.failed,
                               !.bytes = @ + r.bytes]
    BY <1>s DEF Finish
  <2>2. /\ stats.sent + r.succeeded = r.succeeded /\ stats.failed + r.failed = r.failed
        /\ stats.bytes + r.bytes \in Nat
    BY <1>s, <1>t DEF StatsType
  <2> HIDE DEF r
  <2>3. QED
    BY <1>s, <1>t, <2>1, <2>2 DEF StatsType
<1>2. pc' = "done" /\ attempt' = attempt /\ pause' = pause /\ Result(last)' = r
  BY <1>o DEF Finish, Result
<1>3. fatal' \in BOOLEAN /\ (fatal' <=> AbortsRun(r, conf.failFast))
  BY <1>t DEF Finish, AbortsRun
<1>4. CallTypes'
  BY <1>1, <1>2, <1>3, <1>o DEF CallInv, CallTypes
<1>5. CountInv'
  BY <1>1, <1>2, <1>3, <1>o, <1>t DEF CountInv
<1>6. BudgetInv'
  BY <1>2, <1>c, <1>o, <1>t DEF CallInv, CallTypes, BudgetInv
<1>7. CopiesInv' /\ SleepInv'
  BY <1>2, <1>o, <1>r DEF CopiesInv, SleepInv, TrueTo
<1>8. QED
  BY <1>4, <1>5, <1>6, <1>7, <1>o DEF CallInv

LEMMA CallRetry ==
  ASSUME CallInv, NEW a \in Answers, RetryNow(a) \/ RetryLater(a)
  PROVE  CallInv'
<1> DEFINE n == conf.n
           r == Result(a)
<1>c. /\ conf.kind \in Kinds /\ n \in Nat \ {0} /\ conf.retries \in Nat /\ conf.failFast \in BOOLEAN
  BY ConfTypes DEF CallInv, CallTypes
<1>p. pc = "send" /\ WillRetry(a) /\ CountRetry /\ Observe(a) /\ fatal' = fatal
  BY DEF RetryNow, RetryLater
<1>o. /\ calls' = calls + 1 /\ last' = a /\ conf' = conf /\ LastInv'
      /\ calls' \in Nat /\ copies' \in Nat /\ auths' \in Nat /\ blind' \in BOOLEAN
      /\ auths' >= auths /\ (r.auth_error => auths' >= 1)
      /\ ~blind' => copies' = a.stored /\ (a.stored > 0 => StatusClass(a.status) = "ok")
  BY <1>p, Observed
<1>r. TrueTo(a, r, n)
  BY AnswerTrue DEF CallInv, CallTypes
<1>t. /\ stats \in StatsType /\ attempt \in Nat /\ calls = attempt /\ stats.sent = 0 /\ stats.failed = 0
      /\ ~fatal /\ stats.retried = n * attempt /\ pause \in Nat
  BY <1>p DEF CallInv, CallTypes, CountInv
<1>1. /\ stats' \in StatsType /\ stats'.sent = 0 /\ stats'.failed = 0
      /\ stats'.retried = stats.retried + n
  <2>1. stats' = [stats EXCEPT !.retried = @ + n]
    BY <1>p DEF CountRetry
  <2>2. QED
    BY <1>c, <1>t, <2>1 DEF StatsType
<1>2. attempt' = attempt + 1
  BY <1>p DEF CountRetry
<1>3. /\ pc' \in {"send", "sleep"} /\ pause' \in Nat
      /\ pc' = "sleep" => PauseWithinBounds'
  <2>1. CASE RetryNow(a)
    BY <1>p, <1>t, <2>1 DEF RetryNow
  <2>2. CASE RetryLater(a)
    <3>1. PICK percent \in Jitters : pause' = Pause(r, attempt', percent)
      BY <2>2 DEF RetryLater
    <3>2. percent \in 1..99 /\ r \in BatchResult /\ attempt' \in Nat
      BY <1>2, <1>r, <1>t, DispatchAssumption DEF TrueTo
    <3>3. /\ pause' \in Nat /\ pause' >= r.retry_after /\ pause' >= MinPauseMs
          /\ pause' =< MaxOf(MaxBackoffMs, r.retry_after)
      BY <3>1, <3>2, PauseBound
    <3>4. r.retry_after = last'.retry_after
      BY <1>o, <1>r DEF TrueTo
    <3>5. QED
      BY <2>2, <3>3, <3>4 DEF RetryLater, PauseWithinBounds
  <2>3. QED
    BY <2>1, <2>2
<1>4. CallTypes'
  BY <1>1, <1>2, <1>3, <1>o, <1>p, <1>t DEF CallInv, CallTypes
<1>5. CountInv'
  <2>1. n * (attempt + 1) = n * attempt + n
    <3> HIDE DEF n
    <3>1. QED
      BY <1>c, <1>t
  <2>2. QED
    BY <1>1, <1>2, <1>3, <1>o, <1>p, <1>t, <2>1 DEF CountInv
<1>6. BudgetInv'
  <2>1. IF r.auth_error THEN attempt = 0 ELSE attempt < conf.retries
    BY <1>c, <1>p, <1>t DEF WillRetry, GiveUp
  <2>2. QED
    BY <1>2, <1>c, <1>o, <1>t, <2>1 DEF BudgetInv
<1>7. CopiesInv'
  <2>1. StatusClass(a.status) # "ok"
    BY <1>p, <1>r DEF WillRetry, GiveUp, TrueTo
  <2>2. a.stored \in Nat
    BY <1>r DEF TrueTo
  <2>3. QED
    BY <1>c, <1>o, <2>1, <2>2 DEF CopiesInv
<1>8. SleepInv'
  BY <1>3, <1>o, <1>t DEF SleepInv
<1>9. QED
  BY <1>4, <1>5, <1>6, <1>7, <1>8, <1>o DEF CallInv

LEMMA CallNext == CallInv /\ [Next]_vars => CallInv'
<1> SUFFICES ASSUME CallInv, [Next]_vars PROVE CallInv'
  OBVIOUS
<1>1. CASE \E a \in Answers : Finish(a) \/ RetryNow(a) \/ RetryLater(a)
  BY <1>1, CallFinish, CallRetry
<1>2. CASE Wake
  <2>1. /\ pc = "sleep" /\ pc' = "send" /\ pause' = 0
        /\ UNCHANGED <<conf, attempt, stats, fatal, calls, last, copies, blind, auths>>
    BY <1>2 DEF Wake
  <2>2. QED
    BY <2>1 DEF CallInv, CallTypes, LastInv, Answers, CountInv, Result, BudgetInv, CopiesInv, SleepInv
<1>3. CASE Returned \/ UNCHANGED vars
  BY <1>3 DEF Returned, vars, CallInv, CallTypes, LastInv, Answers, CountInv, Result, BudgetInv,
              CopiesInv, SleepInv, PauseWithinBounds
<1>4. QED
  BY <1>1, <1>2, <1>3 DEF Next

LEMMA CallAlways == Spec => []CallInv
BY CallInit, CallNext, PTL DEF Spec
-------------------------------------------------------------------------------
\* Every count stays a natural number, and so does every result the loop looks
\* at, however the receiver answers.
THEOREM DispatchTypeCorrect == Spec => []TypeOK
<1>1. CallInv => TypeOK
  <2>1. CallInv /\ calls > 0 => Result(last) \in BatchResult
    BY AnswerTrue DEF CallInv, CallTypes, LastInv, TrueTo
  <2>2. QED
    BY <2>1 DEF CallInv, CallTypes, TypeOK, StatsType
<1>2. QED
  BY <1>1, CallAlways, PTL

\* When the call returns each event of the batch has been counted exactly once,
\* no event is counted as sent that the receiver did not keep unless the last
\* answer was a 2xx whose report was lost, and `retried' is the batch times the
\* sends after the first, however many partial answers, lost answers and retries
\* came before.
THEOREM CountedTruthfullyAlways == Spec => []CountedTruthfully
<1>1. ASSUME CallInv PROVE CountedTruthfully
  <2> SUFFICES ASSUME pc = "done" PROVE CountedTruthfully
    BY DEF CountedTruthfully, EveryEventCounted, SentWasStored
  <2>1. /\ calls = attempt + 1 /\ attempt \in Nat /\ stats.retried = conf.n * attempt
        /\ stats.sent = Result(last).succeeded /\ stats.failed = Result(last).failed
    BY <1>1 DEF CallInv, CallTypes, CountInv
  <2>2. last \in Answers
    BY <1>1, <2>1 DEF CallInv, LastInv
  <2>3. TrueTo(last, Result(last), conf.n)
    BY <1>1, <2>2, AnswerTrue DEF CallInv, CallTypes
  <2>4. calls - 1 = attempt
    BY <2>1
  <2>5. QED
    BY <2>1, <2>3, <2>4 DEF CountedTruthfully, EveryEventCounted, SentWasStored, TrueTo
<1>2. QED
  BY <1>1, CallAlways, PTL

\* At most --retries + 1 sends, but for the confirmation of an auth error with
\* --retries 0, and every pause respects the server and the backoff's cap.
THEOREM RetriesBoundedAlways == Spec => []RetriesBounded
<1>1. ASSUME CallInv PROVE RetriesBounded
  <2>1. conf.retries \in Nat /\ attempt \in Nat
    BY <1>1, ConfTypes DEF CallInv, CallTypes
  <2>2. calls = attempt \/ calls = attempt + 1
    BY <1>1 DEF CallInv, CallTypes, CountInv
  <2>3. AttemptBudget
    BY <1>1, <2>1, <2>2 DEF CallInv, BudgetInv, AttemptBudget
  <2>4. PauseWithinBounds
    BY <1>1 DEF CallInv, SleepInv, PauseWithinBounds
  <2>5. QED
    BY <2>3, <2>4 DEF RetriesBounded
<1>2. QED
  BY <1>1, CallAlways, PTL

\* An answer that reports outcomes per event is never followed by another send
\* of the batch: duplicates come only from sends whose outcome was not told.
THEOREM DuplicatesOnlyBlindAlways == Spec => []DuplicatesOnlyBlind
<1>1. CallInv => DuplicatesOnlyBlind
  BY ConfTypes DEF CallInv, CallTypes, CopiesInv, DuplicatesOnlyBlind
<1>2. QED
  BY <1>1, CallAlways, PTL

\* The fatal flag is raised by a batch that lost events to an auth error or
\* under --fail-fast, and by no other.
THEOREM FatalIffLostBatchAlways == Spec => []FatalIffLostBatch
<1>1. ASSUME CallInv PROVE FatalIffLostBatch
  <2>1. CASE pc # "done"
    BY <1>1, <2>1 DEF CallInv, CountInv, FatalIffLostBatch
  <2>2. CASE pc = "done"
    <3>1. stats.failed = Result(last).failed /\ stats.failed \in Nat
      BY <1>1, <2>2 DEF CallInv, CallTypes, StatsType, CountInv
    <3>2. fatal <=> AbortsRun(Result(last), conf.failFast)
      BY <1>1, <2>2 DEF CallInv, CountInv
    <3>3. QED
      BY <2>2, <3>1, <3>2 DEF FatalIffLostBatch, AbortsRun, Settled
  <2>3. QED
    BY <2>1, <2>2
<1>2. QED
  BY <1>1, CallAlways, PTL
===============================================================================
