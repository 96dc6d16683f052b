------------------------------- MODULE Pipeline -------------------------------
(***************************************************************************)
(* pipeline::run (src/pipeline.rs): the generator task, the bounded        *)
(* channel, the workers that share its receiver behind a mutex, the fatal  *)
(* flag, the shutdown watch, and the main task that decides `aborted' and  *)
(* joins them.                                                             *)
(*                                                                         *)
(* An event is its number in generation order and a batch a sequence of    *)
(* events.  Time is abstract: the flush timer may have elapsed whenever it *)
(* is armed, and the limiter, a back-off and a request end in their own    *)
(* time.  Counters that the process keeps per event content (timestamps    *)
(* detected, malformed lines, bytes) are left out; Dispatch has the bytes. *)
(***************************************************************************)
EXTENDS Retry, Sequences, FiniteSets

CONSTANTS
  Workers,         \* the worker tasks, cfg.workers.max(1) of them
  NoWorker,        \* the mutex is free
  Lines,           \* --lines
  BatchSize,       \* --batch-size, at least 1
  QueuePerWorker,  \* QUEUE_PER_WORKER, 2 in the code
  MinQueue,        \* least channel capacity, 4 in the code
  Retries,         \* --retries
  FailFast,        \* --fail-fast
  Kind,            \* the transport in use
  MaySignal,       \* TRUE: Ctrl-C may be pressed
  MayPanic         \* TRUE: a send may panic (hec.rs sanitize can slice inside a character)

ASSUME PipelineAssumption ==
  /\ IsFiniteSet(Workers) /\ Workers # {} /\ NoWorker \notin Workers
  /\ Lines \in Nat /\ Retries \in Nat
  /\ BatchSize \in Nat \ {0} /\ QueuePerWorker \in Nat \ {0} /\ MinQueue \in Nat \ {0}
  /\ FailFast \in BOOLEAN /\ MaySignal \in BOOLEAN /\ MayPanic \in BOOLEAN
  /\ Kind \in Kinds

QueueCap == MaxOf(Cardinality(Workers) * QueuePerWorker, MinQueue)

VARIABLES
  gen,        \* generator: "top", "next", "send", "lastsend", "report" or "done"
  buffer,     \* events not yet in a batch
  armed,      \* flush_at is Some
  pending,    \* the batch the generator is sending
  generated,  \* the generator's own count
  queue,      \* batches in the channel
  lock,       \* holder of the mutex around the receiver
  wpc,        \* where each worker is
  batch,      \* the batch in each worker's hands
  attempt,    \* each worker's retry counter
  fatal,      \* the fatal flag
  shutdown,   \* the shutdown watch
  main,       \* main task: "watch", "decide", "join" or "done"
  aborted,    \* Summary.aborted
  stats,      \* the shared counters
  discarded,  \* history: events dropped by workers because of the fatal flag
  lost,       \* history: events in the hands of workers that panicked
  signalled,  \* history: Ctrl-C was pressed
  ended,      \* history: why the generator left its loop
  late        \* history: events generated after fatal or shutdown was raised

genVars == <<gen, buffer, armed, pending, generated, ended, late>>
workerVars == <<lock, wpc, batch, attempt, discarded, lost>>
mainVars == <<main, aborted, signalled>>
vars == <<genVars, queue, workerVars, fatal, shutdown, mainVars, stats>>

Init ==
  /\ gen = "top" /\ buffer = <<>> /\ armed = FALSE /\ pending = <<>> /\ generated = 0
  /\ queue = <<>> /\ lock = NoWorker
  /\ wpc = [w \in Workers |-> "idle"]
  /\ batch = [w \in Workers |-> <<>>]
  /\ attempt = [w \in Workers |-> 0]
  /\ fatal = FALSE /\ shutdown = FALSE
  /\ main = "watch" /\ aborted = FALSE
  /\ stats = [generated |-> 0, sent |-> 0, failed |-> 0, retried |-> 0]
  /\ discarded = 0 /\ lost = 0 /\ signalled = FALSE /\ ended = "no" /\ late = 0

\* A worker task that has returned or panicked has dropped its receiver handle;
\* main dropped its own once the workers were spawned.
Ended(w) == wpc[w] \in {"done", "panicked"}
ReceiverOpen == \E w \in Workers : ~Ended(w)

\* The sender lives in the generator; main dropped its own.
SenderOpen == gen # "done"
-------------------------------------------------------------------------------
(* The generator. *)

Stopping == shutdown \/ fatal
\* Mutants of InLoop: one line too many; the stop flags are not tested.
InLoopOneMore == gen = "top" /\ generated =< Lines /\ ~Stopping
InLoopDeaf == gen = "top" /\ generated < Lines

InLoop == gen = "top" /\ generated < Lines /\ ~Stopping

\* Mutant of StartSend: the buffer is cloned instead of taken.
StartSendClone(where) ==
  /\ pending' = buffer /\ buffer' = buffer
  /\ gen' = where

\* std::mem::take(&mut buffer) handed to batch_tx.send.
StartSend(where) ==
  /\ pending' = buffer /\ buffer' = <<>>
  /\ gen' = where

\* Mutants of LeaveLoop: no final flush; a final flush of an empty buffer.
LeaveLoopUnflushed(why) ==
  /\ gen' = "report" /\ ended' = why
  /\ UNCHANGED <<pending, buffer, armed, generated, late, queue, workerVars, fatal, shutdown,
                 mainVars, stats>>
LeaveLoopAlwaysSends(why) ==
  /\ StartSend("lastsend") /\ ended' = why
  /\ UNCHANGED <<armed, generated, late, queue, workerVars, fatal, shutdown, mainVars, stats>>

\* The loop is left; a non-empty buffer is sent before the counters are.
LeaveLoop(why) ==
  /\ IF buffer # <<>> THEN StartSend("lastsend")
                      ELSE gen' = "report" /\ UNCHANGED <<pending, buffer>>
  /\ ended' = why
  /\ UNCHANGED <<armed, generated, late, queue, workerVars, fatal, shutdown, mainVars, stats>>

GenStop ==
  /\ gen = "top" /\ ~InLoop
  /\ LeaveLoop(IF generated >= Lines THEN "lines" ELSE "stopped")

\* buffer.len() >= batch_size
GenFull ==
  /\ InLoop /\ Len(buffer) >= BatchSize
  /\ StartSend("send")
  /\ UNCHANGED <<armed, generated, ended, late, queue, workerVars, fatal, shutdown, mainVars, stats>>

\* The flush timer has elapsed.
GenFlush ==
  /\ InLoop /\ Len(buffer) < BatchSize /\ armed
  /\ armed' = FALSE
  /\ IF buffer # <<>> THEN StartSend("send")
                      ELSE gen' = "next" /\ UNCHANGED <<pending, buffer>>
  /\ UNCHANGED <<generated, ended, late, queue, workerVars, fatal, shutdown, mainVars, stats>>

\* Neither full nor due.
GenContinue ==
  /\ InLoop /\ Len(buffer) < BatchSize
  /\ gen' = "next"
  /\ UNCHANGED <<buffer, armed, pending, generated, ended, late,
                 queue, workerVars, fatal, shutdown, mainVars, stats>>

AfterSend == IF gen = "send" THEN "next" ELSE "report"

\* Mutant of GenSend: the channel is unbounded.
GenSendUnbounded ==
  /\ gen \in {"send", "lastsend"} /\ ReceiverOpen
  /\ queue' = Append(queue, pending)
  /\ pending' = <<>>
  /\ gen' = AfterSend
  /\ UNCHANGED <<buffer, armed, generated, ended, late, workerVars, fatal, shutdown, mainVars, stats>>

\* send().await gets a slot of the channel.
GenSend ==
  /\ gen \in {"send", "lastsend"} /\ ReceiverOpen /\ Len(queue) < QueueCap
  /\ queue' = Append(queue, pending)
  /\ pending' = <<>>
  /\ gen' = AfterSend
  /\ UNCHANGED <<buffer, armed, generated, ended, late, workerVars, fatal, shutdown, mainVars, stats>>

\* send().await fails: every receiver handle is gone.  The batch is dropped
\* with the channel's content; both stay where they are, for the record.
GenSendFails ==
  /\ gen \in {"send", "lastsend"} /\ ~ReceiverOpen
  /\ gen' = "report"
  /\ ended' = IF gen = "send" THEN "closed" ELSE ended
  /\ UNCHANGED <<buffer, armed, pending, generated, late,
                 queue, workerVars, fatal, shutdown, mainVars, stats>>

\* Mutant of GenNext: the event is counted at once.
GenNextCounting ==
  /\ gen = "next"
  /\ generated' = generated + 1
  /\ buffer' = Append(buffer, generated + 1)
  /\ armed' = (armed \/ Len(buffer') = 1)
  /\ late' = IF Stopping THEN late + 1 ELSE late
  /\ gen' = "top"
  /\ stats' = [stats EXCEPT !.generated = @ + 1]
  /\ UNCHANGED <<pending, ended, queue, workerVars, fatal, shutdown, mainVars>>

\* source.next() gives a line: build_event and push.
GenNext ==
  /\ gen = "next"
  /\ generated' = generated + 1
  /\ buffer' = Append(buffer, generated + 1)
  /\ armed' = (armed \/ Len(buffer') = 1)
  /\ late' = IF Stopping THEN late + 1 ELSE late
  /\ gen' = "top"
  /\ UNCHANGED <<pending, ended, queue, workerVars, fatal, shutdown, mainVars, stats>>

\* source.next() gives nothing: the source has no more lines.
GenExhausted == gen = "next" /\ LeaveLoop("exhausted")

\* source.next() gives an error: a warning, and the loop is left all the same.
GenReadError == gen = "next" /\ LeaveLoop("error")

\* The counters are added once, at the end; the task ends and drops its sender.
GenReport ==
  /\ gen = "report"
  /\ stats' = [stats EXCEPT !.generated = @ + generated]
  /\ gen' = "done"
  /\ UNCHANGED <<buffer, armed, pending, generated, ended, late,
                 queue, workerVars, fatal, shutdown, mainVars>>

Generator ==
  \/ GenStop \/ GenFull \/ GenFlush \/ GenContinue \/ GenSend \/ GenSendFails
  \/ GenNext \/ GenExhausted \/ GenReadError \/ GenReport
-------------------------------------------------------------------------------
(***************************************************************************)
(* A worker: while let Some(batch) = rx.lock().await.recv().await { ... }. *)
(* The guard is a temporary of the loop's scrutinee and lives until the    *)
(* end of the body: the mutex is held from `recv' to the next `idle'.      *)
(***************************************************************************)
Move(w, to) == wpc' = [wpc EXCEPT ![w] = to]

\* The end of the body: the batch and the call's retry counter are gone and
\* the guard is dropped.
Release(w, to) ==
  /\ Move(w, to)
  /\ lock' = NoWorker
  /\ batch' = [batch EXCEPT ![w] = <<>>]
  /\ attempt' = [attempt EXCEPT ![w] = 0]

Acquire(w) ==
  /\ wpc[w] = "idle" /\ lock = NoWorker
  /\ lock' = w
  /\ Move(w, "recv")
  /\ UNCHANGED <<genVars, queue, batch, attempt, discarded, lost, fatal, shutdown, mainVars, stats>>

\* Mutant of Receive: the guard is dropped once the batch is received.
ReceiveAndUnlock(w) ==
  /\ wpc[w] = "recv" /\ queue # <<>>
  /\ batch' = [batch EXCEPT ![w] = Head(queue)]
  /\ queue' = Tail(queue)
  /\ lock' = NoWorker
  /\ Move(w, "taken")
  /\ UNCHANGED <<genVars, attempt, discarded, lost, fatal, shutdown, mainVars, stats>>

Receive(w) ==
  /\ wpc[w] = "recv" /\ queue # <<>>
  /\ batch' = [batch EXCEPT ![w] = Head(queue)]
  /\ queue' = Tail(queue)
  /\ Move(w, "taken")
  /\ UNCHANGED <<genVars, lock, attempt, discarded, lost, fatal, shutdown, mainVars, stats>>

\* Mutant of EndOfChannel: None is taken for `nothing yet'.
EndOfChannelPolled(w) ==
  /\ wpc[w] = "recv" /\ queue = <<>> /\ ~SenderOpen
  /\ Release(w, "idle")
  /\ UNCHANGED <<genVars, queue, discarded, lost, fatal, shutdown, mainVars, stats>>

\* recv() gives None: the channel is closed and empty.
EndOfChannel(w) ==
  /\ wpc[w] = "recv" /\ queue = <<>> /\ ~SenderOpen
  /\ Release(w, "done")
  /\ UNCHANGED <<genVars, queue, discarded, lost, fatal, shutdown, mainVars, stats>>

\* if fatal { continue; }
Discard(w) ==
  /\ wpc[w] = "taken" /\ fatal
  /\ discarded' = discarded + Len(batch[w])
  /\ Release(w, "idle")
  /\ UNCHANGED <<genVars, queue, lost, fatal, shutdown, mainVars, stats>>

\* Mutant of Proceed: the fatal flag is not tested.
ProceedAnyway(w) ==
  /\ wpc[w] = "taken"
  /\ Move(w, "limit")
  /\ UNCHANGED <<genVars, queue, lock, batch, attempt, discarded, lost, fatal, shutdown, mainVars, stats>>

Proceed(w) ==
  /\ wpc[w] = "taken" /\ ~fatal
  /\ Move(w, "limit")
  /\ UNCHANGED <<genVars, queue, lock, batch, attempt, discarded, lost, fatal, shutdown, mainVars, stats>>

\* limiter.wait(n) returns and dispatch_with_retry starts.
Granted(w) ==
  /\ wpc[w] = "limit"
  /\ Move(w, "send")
  /\ UNCHANGED <<genVars, queue, lock, batch, attempt, discarded, lost, fatal, shutdown, mainVars, stats>>

\* The results a send of n events can have.
Results(n) == {SendResult(Kind, a, n) : a \in HonestAnswers(Kind, n, {NoRetryAfter})}

\* The batch is delivered or given up: counters, then the fatal flag.
Finish(w, r) ==
  LET n == Len(batch[w]) IN
  /\ wpc[w] = "send"
  /\ Settled(r) \/ GiveUp(r, attempt[w], Retries)
  /\ stats' = [stats EXCEPT !.sent = @ + SentCount(r, n), !.failed = @ + FailedCount(r, n)]
  /\ fatal' = (fatal \/ AbortsRun(r, FailFast))
  /\ Release(w, "idle")
  /\ UNCHANGED <<genVars, queue, discarded, lost, shutdown, mainVars>>

\* Another attempt: at once after an auth error, else after a pause.
Retry(w, r) ==
  /\ wpc[w] = "send"
  /\ ~Settled(r) /\ ~GiveUp(r, attempt[w], Retries)
  /\ attempt' = [attempt EXCEPT ![w] = @ + 1]
  /\ stats' = [stats EXCEPT !.retried = @ + Len(batch[w])]
  /\ Move(w, IF r.auth_error THEN "send" ELSE "sleep")
  /\ UNCHANGED <<genVars, queue, lock, batch, discarded, lost, fatal, shutdown, mainVars>>

Wake(w) ==
  /\ wpc[w] = "sleep"
  /\ Move(w, "send")
  /\ UNCHANGED <<genVars, queue, lock, batch, attempt, discarded, lost, fatal, shutdown, mainVars, stats>>

\* The task dies; unwinding drops the guard (a tokio mutex is not poisoned).
Panic(w) ==
  /\ MayPanic /\ wpc[w] = "send"
  /\ lost' = lost + Len(batch[w])
  /\ Release(w, "panicked")
  /\ UNCHANGED <<genVars, queue, discarded, fatal, shutdown, mainVars, stats>>

Replied(w) == \E r \in Results(Len(batch[w])) : Finish(w, r) \/ Retry(w, r)

Worker(w) ==
  \/ Acquire(w) \/ Receive(w) \/ EndOfChannel(w) \/ Discard(w) \/ Proceed(w)
  \/ Granted(w) \/ Replied(w) \/ Wake(w)
-------------------------------------------------------------------------------
(* The main task and the signal. *)

\* The monitor loop ends.
MonitorLeaves ==
  /\ main = "watch"
  /\ gen = "done" \/ fatal \/ shutdown
  /\ main' = "decide"
  /\ UNCHANGED <<genVars, queue, workerVars, fatal, shutdown, aborted, signalled, stats>>

\* Mutants of MonitorDecides: the watch is raised before it is read; a signal
\* does not count as an abort; a run that ends well does not raise the watch.
MonitorDecidesAfterRaise ==
  /\ main = "decide"
  /\ shutdown' = TRUE
  /\ aborted' = (fatal \/ shutdown')
  /\ main' = "join"
  /\ UNCHANGED <<genVars, queue, workerVars, fatal, signalled, stats>>
MonitorDecidesFatalOnly ==
  /\ main = "decide"
  /\ aborted' = fatal
  /\ shutdown' = TRUE
  /\ main' = "join"
  /\ UNCHANGED <<genVars, queue, workerVars, fatal, signalled, stats>>

MonitorDecidesRaisesOnAbort ==
  /\ main = "decide"
  /\ aborted' = (fatal \/ shutdown)
  /\ shutdown' = aborted'
  /\ main' = "join"
  /\ UNCHANGED <<genVars, queue, workerVars, fatal, signalled, stats>>

\* `aborted' is computed here, before the drain; then the watch is raised.
MonitorDecides ==
  /\ main = "decide"
  /\ aborted' = (fatal \/ shutdown)
  /\ shutdown' = TRUE
  /\ main' = "join"
  /\ UNCHANGED <<genVars, queue, workerVars, fatal, signalled, stats>>

\* Mutant of MonitorJoins: only the generator is joined.
MonitorJoinsGenerator ==
  /\ main = "join" /\ gen = "done"
  /\ main' = "done"
  /\ UNCHANGED <<genVars, queue, workerVars, fatal, shutdown, aborted, signalled, stats>>

\* The generator and all the workers are joined; the summary is built.
MonitorJoins ==
  /\ main = "join" /\ gen = "done" /\ ~ReceiverOpen
  /\ main' = "done"
  /\ UNCHANGED <<genVars, queue, workerVars, fatal, shutdown, aborted, signalled, stats>>

Monitor == MonitorLeaves \/ MonitorDecides \/ MonitorJoins

\* ctrl_c().await returns, once.
Signal ==
  /\ MaySignal /\ ~signalled /\ main # "done"
  /\ signalled' = TRUE /\ shutdown' = TRUE
  /\ UNCHANGED <<genVars, queue, workerVars, fatal, main, aborted, stats>>

\* The run is over.
Returned == main = "done" /\ UNCHANGED vars

Next ==
  \/ Generator
  \/ \E w \in Workers : Worker(w) \/ Panic(w)
  \/ Monitor
  \/ Signal
  \/ Returned

Spec == Init /\ [][Next]_vars

\* The runtime polls every task that can go on, and every request ends (the
\* client has a time-out).  Ctrl-C and panics need never happen.
Fairness ==
  /\ WF_vars(Generator)
  /\ \A w \in Workers : WF_vars(Worker(w))
  /\ WF_vars(Monitor)

FairSpec == Spec /\ Fairness
-------------------------------------------------------------------------------
(* What must hold. *)

Busy(w) == wpc[w] \in {"recv", "taken", "limit", "send", "sleep"}

\* The events no longer waiting anywhere, by what became of them.
Out == stats.sent + stats.failed + discarded + lost

GenTypes ==
  /\ gen \in {"top", "next", "send", "lastsend", "report", "done"}
  /\ buffer \in Seq(Nat) /\ pending \in Seq(Nat)
  /\ armed \in BOOLEAN
  /\ generated \in 0..Lines /\ late \in Nat
  /\ ended \in {"no", "lines", "exhausted", "error", "stopped", "closed"}

WorkerStates == {"idle", "recv", "taken", "limit", "send", "sleep", "done", "panicked"}

WorkerTypes ==
  /\ lock \in Workers \cup {NoWorker}
  /\ wpc \in [Workers -> WorkerStates]
  /\ batch \in [Workers -> Seq(Nat)]
  /\ attempt \in [Workers -> Nat]
  /\ discarded \in Nat /\ lost \in Nat

SharedTypes ==
  /\ queue \in Seq(Seq(Nat))
  /\ stats \in [generated : Nat, sent : Nat, failed : Nat, retried : Nat]
  /\ fatal \in BOOLEAN /\ shutdown \in BOOLEAN

MainTypes ==
  /\ main \in {"watch", "decide", "join", "done"}
  /\ aborted \in BOOLEAN /\ signalled \in BOOLEAN

\* Type invariant.
TypeOK == GenTypes /\ WorkerTypes /\ SharedTypes /\ MainTypes

\* At most one worker is anywhere between receiving a batch and being done
\* with it, retries and pauses included, whatever --workers is: the guard of
\* the receiver's mutex lives through the loop body.
OneBatchInFlight ==
  /\ \A v, w \in Workers : Busy(v) /\ Busy(w) => v = w
  /\ \A w \in Workers : Busy(w) => lock = w

\* The batch in a worker's hands, if any.
Held == IF lock = NoWorker THEN <<>> ELSE batch[lock]

Consecutive(b, first) == \A i \in 1..Len(b) : b[i] = first + i - 1

\* The numbers the channel, the batch being sent and the buffer must start at.
AfterHeld == Out + 1 + Len(Held)
AfterQueue == IF queue = <<>> THEN AfterHeld
              ELSE queue[Len(queue)][1] + Len(queue[Len(queue)])
AfterPending == AfterQueue + Len(pending)

QueueInOrder ==
  /\ queue # <<>> => queue[1][1] = AfterHeld
  /\ \A k \in 1..Len(queue) : Consecutive(queue[k], queue[k][1])
  /\ \A k \in 1..(Len(queue) - 1) : queue[k + 1][1] = queue[k][1] + Len(queue[k])

\* Every event generated is in exactly one place and they leave in generation
\* order: the events accounted for by sent, failed, discarded and lost are the
\* first ones, then come the batch in flight, the channel, the batch being
\* sent to it and the buffer, with no gap and no duplicate.
NothingLostOrDuplicated ==
  /\ Consecutive(Held, Out + 1)
  /\ QueueInOrder
  /\ Consecutive(pending, AfterQueue)
  /\ Consecutive(buffer, AfterPending)
  /\ generated = AfterPending + Len(buffer) - 1

\* No batch is empty or larger than --batch-size, wherever it is.
BatchesWellSized ==
  /\ \A k \in 1..Len(queue) : queue[k] # <<>> /\ Len(queue[k]) =< BatchSize
  /\ gen \in {"send", "lastsend"} => pending # <<>> /\ Len(pending) =< BatchSize
  /\ \A w \in Workers : wpc[w] \in {"taken", "limit", "send", "sleep"} =>
                           batch[w] # <<>> /\ Len(batch[w]) =< BatchSize

\* One worker that lives to the end is enough to drain the channel: nothing is left
\* behind, and what is not counted was dropped on the fatal flag or died in the
\* hands of another worker.  A run with neither reports every event it generated
\* as sent or failed.
CleanRunAddsUp ==
  main = "done" =>
    /\ (\E w \in Workers : wpc[w] = "done") =>
         /\ queue = <<>> /\ pending = <<>> /\ buffer = <<>>
         /\ Out = generated
    /\ ~fatal /\ lost = 0 =>
         /\ stats.generated = generated
         /\ stats.sent + stats.failed = generated

\* Backpressure: the channel never holds more than its capacity and the events
\* in memory never exceed the channel's plus one batch in flight and one batch
\* in the generator's hands.
MemoryBounded ==
  /\ Len(queue) =< QueueCap
  /\ generated - Out =< (QueueCap + 2) * BatchSize

\* Once the fatal flag or the shutdown watch is up the generator produces at
\* most the one event it was about to read.
StopsGenerating == late =< 1

\* The summary says `aborted' only for a run that hit a fatal error or was
\* interrupted: raising the watch to stop the reporter must not count.
NoFalseAbort == aborted => fatal \/ signalled

\* A run that is not reported as aborted was never stopped by a flag.  It reached
\* --lines or the end of its source, or else it was cut short in one of the two
\* ways the summary is silent about: the source failed (a warning is all that
\* is left of the error), or every worker died and closed the channel.
NoSilentTruncation ==
  main = "done" /\ ~aborted =>
    \/ ended = "lines" /\ generated = Lines
    \/ ended \in {"exhausted", "error"}
    \/ ended = "closed" /\ \A w \in Workers : wpc[w] = "panicked"

\* What the summary says of the run is true, both ways.
AbortedTruthfully == NoFalseAbort /\ NoSilentTruncation

\* After a fatal error nothing more reaches the transport: no counter of the
\* transport moves and no worker starts a send.
QuietAfterFatal ==
  [][fatal => /\ stats'.sent = stats.sent /\ stats'.failed = stats.failed
              /\ stats'.retried = stats.retried
              /\ \A w \in Workers : wpc'[w] = "send" => wpc[w] = "send"]_vars

\* The run always comes to its end: the senders are all dropped so the workers
\* see the end of the channel, and a generator blocked on a channel whose
\* workers all died is released.
Termination == <>(main = "done")

\* The pipeline keeps the ledger's promise: every step of every task is a step
\* of Ledger or leaves the ledger as it is.
L == INSTANCE Ledger WITH made <- generated, sent <- stats.sent, failed <- stats.failed,
                          over <- (main = "done")

KeepsLedger == L!Spec
-------------------------------------------------------------------------------
(* What the documents say and the code does not do. *)

\* A fatal error makes the run aborted, exit code 2 (README "run aborted
\* (fatal auth failure after a confirmation retry, --fail-fast triggered, or
\* signal)").
AbortReported == main = "done" /\ fatal => aborted

\* Workers send concurrently (architecture "Concurrency then controls how many
\* requests are in flight"): while one request is outstanding and a batch
\* waits, another worker takes it up.
IdleWorkersHelp ==
  \A w \in Workers :
    (wpc[w] = "send" /\ queue # <<>>)
      ~> (wpc[w] # "send" \/ \E v \in Workers \ {w} : wpc[v] \in {"limit", "send"})

\* Everything is scheduled, but a receiver may take for ever to answer.
SlowReceiver ==
  /\ WF_vars(Generator)
  /\ \A w \in Workers :
       WF_vars(Acquire(w) \/ Receive(w) \/ EndOfChannel(w) \/ Discard(w)
               \/ Proceed(w) \/ Granted(w) \/ Wake(w))
  /\ WF_vars(Monitor)

SlowSpec == Spec /\ SlowReceiver
===============================================================================
