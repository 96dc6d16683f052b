------------------------------- MODULE Dispatch -------------------------------
(***************************************************************************)
(* One call of dispatch_with_retry (src/pipeline.rs) for a batch of        *)
(* conf.n events, against a receiver that answers each send in any way its *)
(* transport can see.  The counters start at 0: they are this call's share *)
(* of the run's Stats.                                                     *)
(***************************************************************************)
EXTENDS Retry

CONSTANTS
  MaxBatch,      \* largest batch tried
  RetryChoices,  \* values of --retries
  RetryAfters,   \* Retry-After values in ms, NoRetryAfter for no header
  Jitters        \* percentages the jitter draws, 1..99

ASSUME DispatchAssumption ==
  /\ MaxBatch \in Nat \ {0}
  /\ RetryChoices \subseteq Nat
  /\ RetryAfters \subseteq Nat \cup {NoRetryAfter}
  /\ Jitters \subseteq 1..99

VARIABLES
  conf,     \* the transport kind, batch size, --retries and --fail-fast of the call
  pc,       \* "send", "sleep" or "done"
  attempt,  \* the retry counter
  pause,    \* length in ms of the current sleep
  stats,    \* what the call added to sent, failed, retried and bytes
  fatal,    \* the run's fatal flag
  calls,    \* history: sends made
  last,     \* history: the last answer
  copies,   \* history: event copies the receiver stored over all the sends
  blind,    \* history: an earlier send may have stored events without saying so
  auths     \* history: answers 401/403 so far

vars == <<conf, pc, attempt, pause, stats, fatal, calls, last, copies, blind, auths>>

Configurations ==
  [kind : Kinds, n : 1..MaxBatch, retries : RetryChoices, failFast : BOOLEAN]

Answers == HonestAnswers(conf.kind, conf.n, RetryAfters)

Result(a) == SendResult(conf.kind, a, conf.n)

Init ==
  /\ conf \in Configurations
  /\ pc = "send" /\ attempt = 0 /\ pause = 0
  /\ stats = [sent |-> 0, failed |-> 0, retried |-> 0, bytes |-> 0]
  /\ fatal = FALSE
  /\ calls = 0 /\ last = Answer("none", 0) /\ copies = 0 /\ blind = FALSE /\ auths = 0

\* The history of one more send answered by a.
Observe(a) ==
  /\ calls' = calls + 1
  /\ last' = a
  /\ copies' = copies + a.stored
  /\ blind' = (blind \/ (a.stored > 0 /\ StatusClass(a.status) # "ok") \/ a.event = "lost")
  /\ auths' = IF Result(a).auth_error THEN auths + 1 ELSE auths
  /\ UNCHANGED conf

\* The batch leaves the loop: delivered, or given up and possibly fatal.
Finish(a) ==
  /\ pc = "send"
  /\ Settled(Result(a)) \/ GiveUp(Result(a), attempt, conf.retries)
  /\ pc' = "done"
  /\ stats' = [stats EXCEPT !.sent = @ + SentCount(Result(a), conf.n),
                            !.failed = @ + FailedCount(Result(a), conf.n),
                            !.bytes = @ + Result(a).bytes]
  /\ fatal' = (fatal \/ AbortsRun(Result(a), conf.failFast))
  /\ Observe(a)
  /\ UNCHANGED <<attempt, pause>>

\* attempt += 1; stats.add_retried(n)
CountRetry ==
  /\ attempt' = attempt + 1
  /\ stats' = [stats EXCEPT !.retried = @ + conf.n]

WillRetry(a) == ~Settled(Result(a)) /\ ~GiveUp(Result(a), attempt, conf.retries)

\* The confirmation retry after 401/403 follows at once.
RetryNow(a) ==
  /\ pc = "send" /\ WillRetry(a) /\ Result(a).auth_error
  /\ CountRetry
  /\ Observe(a)
  /\ UNCHANGED <<pc, pause, fatal>>

\* The other retries follow a pause.
RetryLater(a) ==
  /\ pc = "send" /\ WillRetry(a) /\ ~Result(a).auth_error
  /\ CountRetry
  /\ \E percent \in Jitters : pause' = Pause(Result(a), attempt', percent)
  /\ pc' = "sleep"
  /\ Observe(a)
  /\ UNCHANGED fatal

Wake ==
  /\ pc = "sleep"
  /\ pc' = "send" /\ pause' = 0
  /\ UNCHANGED <<conf, attempt, stats, fatal, calls, last, copies, blind, auths>>

\* The call has returned.
Returned == pc = "done" /\ UNCHANGED vars

Next ==
  \/ \E a \in Answers : Finish(a) \/ RetryNow(a) \/ RetryLater(a)
  \/ Wake
  \/ Returned

Spec == Init /\ [][Next]_vars
-------------------------------------------------------------------------------
\* Type invariant; the counts of a result are usize, so never below 0 whatever
\* the receiver answers.
TypeOK ==
  /\ conf \in Configurations
  /\ pc \in {"send", "sleep", "done"}
  /\ attempt \in Nat /\ pause \in Nat /\ calls \in Nat /\ copies \in Nat /\ auths \in Nat
  /\ stats \in [sent : Nat, failed : Nat, retried : Nat, bytes : Nat]
  /\ fatal \in BOOLEAN /\ blind \in BOOLEAN
  /\ calls > 0 => Result(last) \in BatchResult

\* When the call returns, every event of the batch has been counted exactly
\* once as sent or failed, however many partial answers and retries came before
\* (for receivers whose answers cover the batch), and `retried' counts the batch
\* once per send after the first (pipeline.rs "failed counts events whose
\* final outcome is failure").
EveryEventCounted ==
  pc = "done" => /\ stats.sent + stats.failed = conf.n
                 /\ stats.retried = conf.n * (calls - 1)

\* An event is reported as sent only if the receiver kept it: the sent count is
\* at most what the last send stored, for receivers that report honestly.  The
\* one exception is a 2xx answer whose report was lost on the way: hec.rs and
\* otel.rs then count the whole batch, whatever part of it was stored.
SentWasStored ==
  pc = "done" => \/ stats.sent =< last.stored
                 \/ last.body = LostBody /\ stats.sent = conf.n

\* --retries bounds the attempts: at most retries + 1 sends, with a single
\* exception, the confirmation of an auth error when --retries is 0.
AttemptBudget ==
  \/ calls =< conf.retries + 1
  \/ conf.retries = 0 /\ calls = 2 /\ auths >= 1

\* A duplicate in the receiver can only come from a send whose answer was lost
\* or was a server error after storing: an answer that reports per-event
\* outcomes is never followed by another send of the same batch.
DuplicatesOnlyBlind == copies > conf.n => blind

\* The fatal flag is raised only by a batch that lost events, and then exactly
\* when its last answer was an auth error or --fail-fast is set.
FatalIffLostBatch ==
  fatal <=> /\ pc = "done" /\ stats.failed > 0
            /\ Result(last).auth_error \/ conf.failFast

\* Every pause respects the server's Retry-After and is otherwise within
\* exponential backoff's cap of 30 s.
PauseWithinBounds ==
  pc = "sleep" => /\ pause >= last.retry_after /\ pause >= MinPauseMs
                  /\ pause =< MaxOf(MaxBackoffMs, last.retry_after)

\* What is counted is all of the batch, and is true.
CountedTruthfully == EveryEventCounted /\ SentWasStored

\* Neither the number of sends nor a pause between two of them gets out of hand.
RetriesBounded == AttemptBudget /\ PauseWithinBounds

\* After an auth error a batch gets one confirmation retry before the run is
\* aborted: the abort for auth needs two auth answers (README "one confirmation
\* retry for auth failures before aborting").
AuthConfirmed ==
  fatal /\ Result(last).auth_error => auths >= 2
===============================================================================
