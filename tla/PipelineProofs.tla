---------------------------- MODULE PipelineProofs ----------------------------
(***************************************************************************)
(* Theorems about a run of the program, for every number of workers, every *)
(* --lines, --batch-size, --retries, channel capacity and transport: first *)
(* of Pipeline; then the end of a run, and the run as others see it.  What *)
(* the tasks, the channel and the mutex do to the events is what Ledger    *)
(* promises; the progress reporter leaves the run as it is, so that what   *)
(* is proved of Pipeline holds with it too; its lines never go back and,   *)
(* read at three moments as they are, add up.                              *)
(***************************************************************************)
EXTENDS Reporter, TransportProofs, FiniteSetTheorems

\* Whatever a send reports, the batch's events are split between the two counters.
LEMMA CountsCoverBatch ==
  ASSUME NEW n \in Nat, NEW r \in Results(n)
  PROVE  /\ r \in BatchResult
         /\ SentCount(r, n) = r.succeeded /\ FailedCount(r, n) = r.failed
         /\ SentCount(r, n) \in Nat /\ FailedCount(r, n) \in Nat
         /\ SentCount(r, n) + FailedCount(r, n) = n
<1>1. PICK a \in HonestAnswers(Kind, n, {NoRetryAfter}) : r = SendResult(Kind, a, n)
  BY DEF Results
<1>2. TrueTo(a, r, n)
  BY <1>1, ResultsTrue, PipelineAssumption
<1>3. QED
  BY <1>2, CountsSplit DEF TrueTo
-------------------------------------------------------------------------------
(* Type correctness.  The generator reads a line only if it may count one more. *)

LEMMA EmptySeqs == <<>> \in Seq(Nat) /\ <<>> \in Seq(Seq(Nat))
OBVIOUS

StatsType == [generated : Nat, sent : Nat, failed : Nat, retried : Nat]

LEMMA StatsExcept ==
  ASSUME NEW s \in StatsType, NEW m \in Nat, NEW n \in Nat
  PROVE  /\ [s EXCEPT !.generated = m] \in StatsType
         /\ [s EXCEPT !.retried = m] \in StatsType
         /\ [s EXCEPT !.sent = m, !.failed = n] \in StatsType
BY DEF StatsType

LEMMA StatsFields ==
  ASSUME NEW s \in StatsType
  PROVE  s.generated \in Nat /\ s.sent \in Nat /\ s.failed \in Nat /\ s.retried \in Nat
BY DEF StatsType

GenRoom == gen \in {"send", "next"} => generated < Lines

TypeInv == TypeOK /\ GenRoom

LEMMA TypeInit == Init => TypeInv
<1> SUFFICES ASSUME Init PROVE TypeInv
  OBVIOUS
<1>1. GenTypes /\ GenRoom
  <2>1. 0 \in 0..Lines
    BY PipelineAssumption
  <2>2. QED
    BY <2>1, EmptySeqs DEF Init, GenTypes, GenRoom
<1>2. WorkerTypes
  BY DEF Init, WorkerTypes, WorkerStates
<1>3. SharedTypes /\ MainTypes
  BY EmptySeqs DEF Init, SharedTypes, MainTypes
<1>4. QED
  BY <1>1, <1>2, <1>3 DEF TypeInv, TypeOK

\* A step that leaves a group of variables alone leaves it well typed.
LEMMA GenFrame == GenTypes /\ GenRoom /\ UNCHANGED genVars => GenTypes' /\ GenRoom'
BY DEF GenTypes, GenRoom, genVars

LEMMA WorkerFrame == WorkerTypes /\ UNCHANGED workerVars => WorkerTypes'
BY DEF WorkerTypes, workerVars

LEMMA SharedFrame == SharedTypes /\ UNCHANGED <<queue, stats, fatal, shutdown>> => SharedTypes'
BY DEF SharedTypes

LEMMA MainFrame == MainTypes /\ UNCHANGED mainVars => MainTypes'
BY DEF MainTypes, mainVars

LEMMA TypeGenerator == ASSUME TypeInv, Generator PROVE TypeInv'
<1> USE PipelineAssumption
<1>a. GenTypes /\ GenRoom /\ WorkerTypes /\ SharedTypes /\ MainTypes
  BY DEF TypeInv, TypeOK
<1>b. WorkerTypes' /\ MainTypes'
  <2>1. UNCHANGED <<workerVars, mainVars>>
    BY DEF Generator, GenStop, GenFull, GenFlush, GenContinue, GenSend, GenSendFails, GenNext,
           GenExhausted, GenReadError, GenReport, LeaveLoop
  <2>2. QED
    BY <1>a, <2>1, WorkerFrame, MainFrame
<1>c. SharedTypes'
  <2>1. CASE GenSend
    BY <1>a, <2>1 DEF GenSend, SharedTypes, GenTypes
  <2>2. CASE GenReport
    <3>1. generated \in Nat /\ stats \in StatsType
      BY <1>a DEF GenTypes, SharedTypes, StatsType
    <3>2. stats.generated + generated \in Nat
      BY <3>1, StatsFields
    <3>3. stats' \in StatsType
      BY <2>2, <3>1, <3>2, StatsExcept DEF GenReport
    <3>4. QED
      BY <1>a, <2>2, <3>3 DEF GenReport, SharedTypes, StatsType
  <2>3. CASE ~GenSend /\ ~GenReport
    <3>1. UNCHANGED <<queue, stats, fatal, shutdown>>
      BY <2>3 DEF Generator, GenStop, GenFull, GenFlush, GenContinue, GenSendFails, GenNext,
                  GenExhausted, GenReadError, LeaveLoop
    <3>2. QED
      BY <1>a, <3>1, SharedFrame
  <2>4. QED
    BY <2>1, <2>2, <2>3
<1>d. GenTypes' /\ GenRoom'
  <2> USE <1>a DEF GenTypes, GenRoom
  <2>1. ASSUME NEW why \in {"lines", "stopped", "exhausted", "error"}, LeaveLoop(why)
        PROVE  GenTypes' /\ GenRoom'
    BY <2>1, EmptySeqs DEF LeaveLoop, StartSend
  <2>2. CASE GenStop
    BY <2>1, <2>2 DEF GenStop
  <2>3. CASE GenFull
    BY <2>3 DEF GenFull, StartSend, InLoop
  <2>4. CASE GenFlush
    BY <2>4, EmptySeqs DEF GenFlush, StartSend, InLoop
  <2>5. CASE GenContinue
    BY <2>5 DEF GenContinue, InLoop
  <2>6. CASE GenSend
    BY <2>6 DEF GenSend, AfterSend
  <2>7. CASE GenSendFails
    BY <2>7 DEF GenSendFails
  <2>8. CASE GenNext
    BY <2>8 DEF GenNext
  <2>9. CASE GenExhausted \/ GenReadError
    BY <2>1, <2>9 DEF GenExhausted, GenReadError
  <2>10. CASE GenReport
    BY <2>10 DEF GenReport
  <2>11. QED
    BY <2>2, <2>3, <2>4, <2>5, <2>6, <2>7, <2>8, <2>9, <2>10 DEF Generator
<1>e. QED
  BY <1>b, <1>c, <1>d DEF TypeInv, TypeOK

LEMMA TypeWorker ==
  ASSUME TypeInv, NEW w \in Workers, Worker(w) \/ Panic(w)
  PROVE  TypeInv'
<1>a. GenTypes /\ GenRoom /\ WorkerTypes /\ SharedTypes /\ MainTypes
  BY DEF TypeInv, TypeOK
<1>b. GenTypes' /\ GenRoom' /\ MainTypes'
  <2>1. UNCHANGED <<genVars, mainVars>>
    BY DEF Worker, Replied, Acquire, Receive, EndOfChannel, Discard, Proceed, Granted, Finish,
           Retry, Wake, Panic
  <2>2. QED
    BY <1>a, <2>1, GenFrame, MainFrame
<1>c. WorkerTypes' /\ SharedTypes'
  <2> USE <1>a DEF WorkerTypes, Move, Release
  <2>0. Len(batch[w]) \in Nat
    OBVIOUS
  <2>1. CASE Acquire(w)
    BY <2>1, SharedFrame DEF Acquire, WorkerStates
  <2>2. CASE Receive(w)
    <3>1. Head(queue) \in Seq(Nat) /\ Tail(queue) \in Seq(Seq(Nat))
      BY <2>2 DEF Receive, SharedTypes
    <3>2. WorkerTypes'
      BY <2>2, <3>1 DEF Receive, WorkerStates
    <3>3. QED
      BY <2>2, <3>1, <3>2 DEF Receive, SharedTypes
  <2>3. CASE EndOfChannel(w)
    BY <2>3, SharedFrame DEF EndOfChannel, WorkerStates
  <2>4. CASE Discard(w)
    BY <2>0, <2>4, SharedFrame DEF Discard, WorkerStates
  <2>5. CASE Proceed(w)
    BY <2>5, SharedFrame DEF Proceed, WorkerStates
  <2>6. CASE Granted(w)
    BY <2>6, SharedFrame DEF Granted, WorkerStates
  <2>7. ASSUME NEW r \in Results(Len(batch[w])), Finish(w, r)
        PROVE  WorkerTypes' /\ SharedTypes'
    <3>1. /\ SentCount(r, Len(batch[w])) \in Nat
          /\ FailedCount(r, Len(batch[w])) \in Nat
      BY <2>0, CountsCoverBatch
    <3>2. AbortsRun(r, FailFast) \in BOOLEAN
      BY DEF AbortsRun
    <3>3. WorkerTypes'
      BY <2>7 DEF Finish, WorkerStates
    <3>4. stats \in StatsType
      BY <1>a DEF SharedTypes, StatsType
    <3>5. stats' \in StatsType
      <4>1. /\ stats.sent + SentCount(r, Len(batch[w])) \in Nat
            /\ stats.failed + FailedCount(r, Len(batch[w])) \in Nat
        BY <3>1, <3>4, StatsFields
      <4>2. QED
        BY <2>7, <3>4, <4>1, StatsExcept DEF Finish
    <3>6. QED
      BY <2>7, <3>2, <3>3, <3>5, <1>a DEF Finish, SharedTypes, StatsType
  <2>8. ASSUME NEW r \in Results(Len(batch[w])), Retry(w, r)
        PROVE  WorkerTypes' /\ SharedTypes'
    <3>1. WorkerTypes'
      BY <2>8 DEF Retry, WorkerStates
    <3>2. stats \in StatsType
      BY <1>a DEF SharedTypes, StatsType
    <3>3. stats' \in StatsType
      <4>1. stats.retried + Len(batch[w]) \in Nat
        BY <2>0, <3>2, StatsFields
      <4>2. QED
        BY <2>8, <3>2, <4>1, StatsExcept DEF Retry
    <3>4. QED
      BY <2>8, <3>1, <3>3, <1>a DEF Retry, SharedTypes, StatsType
  <2>9. CASE Wake(w)
    BY <2>9, SharedFrame DEF Wake, WorkerStates
  <2>10. CASE Panic(w)
    BY <2>0, <2>10, SharedFrame DEF Panic, WorkerStates
  <2>11. QED
    BY <2>1, <2>2, <2>3, <2>4, <2>5, <2>6, <2>7, <2>8, <2>9, <2>10 DEF Worker, Replied
<1>d. QED
  BY <1>b, <1>c DEF TypeInv, TypeOK

LEMMA TypeNext == TypeInv /\ [Next]_vars => TypeInv'
<1> SUFFICES ASSUME TypeInv, [Next]_vars PROVE TypeInv'
  OBVIOUS
<1>1. CASE Generator
  BY <1>1, TypeGenerator
<1>2. CASE \E w \in Workers : Worker(w) \/ Panic(w)
  BY <1>2, TypeWorker
<1>3. CASE Monitor \/ Signal
  <2>1. UNCHANGED <<genVars, queue, workerVars, fatal, stats>>
    BY <1>3 DEF Monitor, MonitorLeaves, MonitorDecides, MonitorJoins, Signal
  <2>2. GenTypes' /\ GenRoom' /\ WorkerTypes'
    BY <2>1, GenFrame, WorkerFrame DEF TypeInv, TypeOK
  <2>3. SharedTypes' /\ MainTypes'
    BY <1>3, <2>1 DEF Monitor, MonitorLeaves, MonitorDecides, MonitorJoins, Signal,
                      TypeInv, TypeOK, SharedTypes, MainTypes
  <2>4. QED
    BY <2>2, <2>3 DEF TypeInv, TypeOK
<1>4. CASE Returned \/ UNCHANGED vars
  <2>1. UNCHANGED <<genVars, queue, workerVars, fatal, shutdown, mainVars, stats>>
    BY <1>4 DEF Returned, vars
  <2>2. QED
    BY <2>1, GenFrame, WorkerFrame, SharedFrame, MainFrame DEF TypeInv, TypeOK
<1>5. QED
  BY <1>1, <1>2, <1>3, <1>4 DEF Next

\* The state stays within its types: in particular the generator never counts
\* past --lines, and every counter stays a natural number whatever the
\* transports report.
THEOREM TypeCorrect == Spec => []TypeOK
<1>1. TypeInv => TypeOK
  BY DEF TypeInv
<1>2. QED
  BY <1>1, TypeInit, TypeNext, PTL DEF Spec
-------------------------------------------------------------------------------
(* Who holds the receiver's mutex, and what the fatal flag forbids. *)

LockInv == \A w \in Workers : Busy(w) <=> lock = w

\* Only a busy worker has a batch, and none sends once the flag is up.
HandsInv ==
  \A w \in Workers : /\ ~Busy(w) \/ wpc[w] = "recv" => batch[w] = <<>>
                     /\ fatal => wpc[w] \notin {"limit", "send", "sleep"}

WorkInv == TypeInv /\ LockInv /\ HandsInv

LEMMA WorkInit == Init => WorkInv
BY TypeInit, PipelineAssumption DEF Init, WorkInv, LockInv, HandsInv, Busy

\* A step that leaves the workers and the flag alone keeps the invariant.
LEMMA WorkFrame ==
  ASSUME LockInv, HandsInv, UNCHANGED <<workerVars, fatal>>
  PROVE  LockInv' /\ HandsInv'
BY DEF workerVars, LockInv, HandsInv, Busy

LEMMA WorkStep ==
  ASSUME WorkInv, NEW w \in Workers, Worker(w) \/ Panic(w)
  PROVE  LockInv' /\ HandsInv'
<1> USE DEF WorkInv, LockInv, HandsInv, Busy, Move, Release
<1>t. /\ wpc \in [Workers -> WorkerStates] /\ batch \in [Workers -> Seq(Nat)]
      /\ fatal \in BOOLEAN /\ NoWorker \notin Workers
  BY PipelineAssumption DEF TypeInv, TypeOK, WorkerTypes, SharedTypes
<1>1. CASE Acquire(w)
  BY <1>1, <1>t DEF Acquire
<1>2. CASE Receive(w)
  BY <1>2, <1>t DEF Receive
<1>3. CASE EndOfChannel(w)
  BY <1>3, <1>t DEF EndOfChannel
<1>4. CASE Discard(w)
  BY <1>4, <1>t DEF Discard
<1>5. CASE Proceed(w)
  BY <1>5, <1>t DEF Proceed
<1>6. CASE Granted(w)
  BY <1>6, <1>t DEF Granted
<1>7. ASSUME NEW r \in Results(Len(batch[w])), Finish(w, r)
      PROVE  LockInv' /\ HandsInv'
  BY <1>7, <1>t DEF Finish
<1>8. ASSUME NEW r \in Results(Len(batch[w])), Retry(w, r)
      PROVE  LockInv' /\ HandsInv'
  BY <1>8, <1>t DEF Retry
<1>9. CASE Wake(w)
  BY <1>9, <1>t DEF Wake
<1>10. CASE Panic(w)
  BY <1>10, <1>t DEF Panic
<1>11. QED
  BY <1>1, <1>2, <1>3, <1>4, <1>5, <1>6, <1>7, <1>8, <1>9, <1>10 DEF Worker, Replied

LEMMA WorkNext == WorkInv /\ [Next]_vars => WorkInv'
<1> SUFFICES ASSUME WorkInv, [Next]_vars PROVE WorkInv'
  OBVIOUS
<1>1. TypeInv'
  BY TypeNext DEF WorkInv
<1>2. CASE \E w \in Workers : Worker(w) \/ Panic(w)
  BY <1>1, <1>2, WorkStep DEF WorkInv
<1>3. CASE Generator \/ Monitor \/ Signal \/ Returned \/ UNCHANGED vars
  <2>1. UNCHANGED <<workerVars, fatal>>
    BY <1>3 DEF Generator, GenStop, GenFull, GenFlush, GenContinue, GenSend, GenSendFails, GenNext,
                GenExhausted, GenReadError, GenReport, LeaveLoop, Monitor, MonitorLeaves,
                MonitorDecides,
                MonitorJoins, Signal, Returned, vars
  <2>2. QED
    BY <1>1, <2>1, WorkFrame DEF WorkInv
<1>4. QED
  BY <1>2, <1>3 DEF Next

LEMMA WorkAlways == Spec => []WorkInv
BY WorkInit, WorkNext, PTL DEF Spec

\* However many workers there are, at most one of them is between receiving a
\* batch and being done with it, and it holds the receiver's mutex.
THEOREM OneBatchInFlightAlways == Spec => []OneBatchInFlight
<1>1. WorkInv => OneBatchInFlight
  BY DEF WorkInv, LockInv, OneBatchInFlight
<1>2. QED
  BY <1>1, WorkAlways, PTL

\* Once the fatal flag is up no worker starts a send and no counter of the
\* transport moves: what is left in the channel is only discarded.
THEOREM QuietAfterFatalAlways == Spec => QuietAfterFatal
<1> DEFINE Still == fatal => /\ stats'.sent = stats.sent /\ stats'.failed = stats.failed
                             /\ stats'.retried = stats.retried
                             /\ \A w \in Workers : wpc'[w] = "send" => wpc[w] = "send"
<1>1. WorkInv /\ [Next]_vars => [Still]_vars
  <2> SUFFICES ASSUME WorkInv, Next, fatal
               PROVE  Still
    BY DEF vars
  <2>t. wpc \in [Workers -> WorkerStates] /\ stats \in StatsType
    BY DEF WorkInv, TypeInv, TypeOK, WorkerTypes, SharedTypes, StatsType
  <2>1. CASE Generator
    <3>1. UNCHANGED wpc
      BY <2>1 DEF Generator, GenStop, GenFull, GenFlush, GenContinue, GenSend, GenSendFails, GenNext,
                  GenExhausted, GenReadError, GenReport, LeaveLoop, workerVars
    <3>2. CASE GenReport
      BY <2>t, <3>1, <3>2 DEF GenReport, StatsType
    <3>3. CASE ~GenReport
      <4>1. UNCHANGED stats
        BY <2>1, <3>3 DEF Generator, GenStop, GenFull, GenFlush, GenContinue, GenSend, GenSendFails,
                          GenNext, GenExhausted, GenReadError, LeaveLoop
      <4>2. QED
        BY <3>1, <4>1
    <3>4. QED
      BY <3>2, <3>3
  <2>2. ASSUME NEW w \in Workers, Worker(w) \/ Panic(w)
        PROVE  Still
    <3>1. wpc[w] \notin {"limit", "send", "sleep"}
      BY DEF WorkInv, HandsInv
    <3>2. Acquire(w) \/ Receive(w) \/ EndOfChannel(w) \/ Discard(w) \/ Proceed(w)
      BY <2>2, <3>1 DEF Worker, Replied, Granted, Finish, Retry, Wake, Panic
    <3>3. UNCHANGED stats
      BY <3>2 DEF Acquire, Receive, EndOfChannel, Discard, Proceed
    <3>4. \A v \in Workers : wpc'[v] = "send" => wpc[v] = "send"
      BY <2>t, <3>2 DEF Acquire, Receive, EndOfChannel, Discard, Proceed, Move, Release
    <3>5. QED
      BY <3>3, <3>4
  <2>3. CASE Monitor \/ Signal \/ Returned
    BY <2>3 DEF Monitor, MonitorLeaves, MonitorDecides, MonitorJoins, Signal, Returned, vars,
                workerVars
  <2>4. QED
    BY <2>1, <2>2, <2>3 DEF Next
<1>2. QED
  BY <1>1, WorkAlways, PTL DEF Spec, QuietAfterFatal
-------------------------------------------------------------------------------
(* The shape of the generator's buffer and of every batch. *)

GenShape ==
  /\ gen \in {"top", "next"} => pending = <<>>
  /\ gen \in {"send", "lastsend"} => pending # <<>> /\ buffer = <<>> /\ Len(pending) =< BatchSize
  /\ Len(buffer) =< BatchSize
  /\ gen = "next" => Len(buffer) < BatchSize

QueueShape == \A k \in 1..Len(queue) : queue[k] # <<>> /\ Len(queue[k]) =< BatchSize

HandsShape ==
  \A w \in Workers : wpc[w] \in {"taken", "limit", "send", "sleep"} =>
                       batch[w] # <<>> /\ Len(batch[w]) =< BatchSize

ShapeInv == WorkInv /\ GenShape /\ QueueShape /\ HandsShape

LEMMA ShapeInit == Init => ShapeInv
BY WorkInit, PipelineAssumption DEF Init, ShapeInv, GenShape, QueueShape, HandsShape

LEMMA ShapeGenerator ==
  ASSUME ShapeInv, Generator
  PROVE  GenShape' /\ QueueShape' /\ HandsShape'
<1>t. /\ buffer \in Seq(Nat) /\ pending \in Seq(Nat) /\ queue \in Seq(Seq(Nat))
      /\ BatchSize \in Nat \ {0}
  BY PipelineAssumption DEF ShapeInv, WorkInv, TypeInv, TypeOK, GenTypes, SharedTypes
<1>1. HandsShape'
  <2>1. UNCHANGED workerVars
    BY DEF Generator, GenStop, GenFull, GenFlush, GenContinue, GenSend, GenSendFails, GenNext,
           GenExhausted, GenReadError, GenReport, LeaveLoop
  <2>2. QED
    BY <2>1 DEF workerVars, HandsShape, ShapeInv
<1>2. QueueShape'
  <2>1. CASE GenSend
    <3>1. /\ Len(queue') = Len(queue) + 1 /\ queue'[Len(queue) + 1] = pending
          /\ \A k \in 1..Len(queue) : queue'[k] = queue[k]
      BY <1>t, <2>1 DEF GenSend
    <3>2. Len(queue) \in Nat
      BY <1>t
    <3>3. pending # <<>> /\ Len(pending) =< BatchSize
      BY <2>1 DEF GenSend, ShapeInv, GenShape
    <3>4. ASSUME NEW k \in 1..(Len(queue) + 1)
          PROVE  queue'[k] # <<>> /\ Len(queue'[k]) =< BatchSize
      <4>1. CASE k \in 1..Len(queue)
        BY <3>1, <4>1 DEF QueueShape, ShapeInv
      <4>2. CASE k = Len(queue) + 1
        BY <3>1, <3>3, <4>2
      <4>3. QED
        BY <3>2, <4>1, <4>2
    <3>5. QED
      BY <3>1, <3>4 DEF QueueShape
  <2>2. CASE ~GenSend
    <3>1. UNCHANGED queue
      BY <2>2 DEF Generator, GenStop, GenFull, GenFlush, GenContinue, GenSendFails, GenNext,
                  GenExhausted, GenReadError, GenReport, LeaveLoop
    <3>2. QED
      BY <3>1 DEF QueueShape, ShapeInv
  <2>3. QED
    BY <2>1, <2>2
<1>3. GenShape'
  <2> USE <1>t DEF ShapeInv, GenShape
  <2>1. ASSUME gen \in {"top", "next"}, NEW why, LeaveLoop(why)
        PROVE  GenShape'
    BY <2>1 DEF LeaveLoop, StartSend
  <2>2. CASE GenStop
    BY <2>1, <2>2 DEF GenStop
  <2>3. CASE GenFull
    BY <2>3 DEF GenFull, StartSend, InLoop
  <2>4. CASE GenFlush
    BY <2>4 DEF GenFlush, StartSend, InLoop
  <2>5. CASE GenContinue
    BY <2>5 DEF GenContinue, InLoop
  <2>6. CASE GenSend
    BY <2>6 DEF GenSend, AfterSend
  <2>7. CASE GenSendFails
    BY <2>7 DEF GenSendFails
  <2>8. CASE GenNext
    <3>1. Len(buffer') = Len(buffer) + 1
      BY <2>8 DEF GenNext
    <3>2. QED
      BY <2>8, <3>1 DEF GenNext
  <2>9. CASE GenExhausted \/ GenReadError
    BY <2>1, <2>9 DEF GenExhausted, GenReadError
  <2>10. CASE GenReport
    BY <2>10 DEF GenReport
  <2>11. QED
    BY <2>2, <2>3, <2>4, <2>5, <2>6, <2>7, <2>8, <2>9, <2>10 DEF Generator
<1>4. QED
  BY <1>1, <1>2, <1>3

LEMMA ShapeWorker ==
  ASSUME ShapeInv, NEW w \in Workers, Worker(w) \/ Panic(w)
  PROVE  GenShape' /\ QueueShape' /\ HandsShape'
<1>t. /\ queue \in Seq(Seq(Nat)) /\ wpc \in [Workers -> WorkerStates]
      /\ batch \in [Workers -> Seq(Nat)]
  BY DEF ShapeInv, WorkInv, TypeInv, TypeOK, SharedTypes, WorkerTypes
<1>1. GenShape'
  <2>1. UNCHANGED genVars
    BY DEF Worker, Replied, Acquire, Receive, EndOfChannel, Discard, Proceed, Granted, Finish,
           Retry, Wake, Panic
  <2>2. QED
    BY <2>1 DEF genVars, GenShape, ShapeInv
<1>2. CASE Receive(w)
  <2>1. /\ queue # <<>> /\ Head(queue) = queue[1] /\ Len(queue') = Len(queue) - 1
        /\ \A k \in 1..Len(queue') : queue'[k] = queue[k + 1]
    BY <1>t, <1>2 DEF Receive
  <2>2. QueueShape'
    <3>1. Len(queue) \in Nat
      BY <1>t
    <3>2. ASSUME NEW k \in 1..Len(queue')
          PROVE  queue'[k] # <<>> /\ Len(queue'[k]) =< BatchSize
      <4>1. k + 1 \in 1..Len(queue) /\ queue'[k] = queue[k + 1]
        BY <2>1, <3>1
      <4>2. QED
        BY <4>1 DEF QueueShape, ShapeInv
    <3>3. QED
      BY <3>2 DEF QueueShape
  <2>3. batch' = [batch EXCEPT ![w] = queue[1]] /\ 1 \in 1..Len(queue)
    BY <1>t, <1>2, <2>1 DEF Receive
  <2>4. HandsShape'
    BY <1>t, <1>2, <2>3 DEF Receive, Move, HandsShape, QueueShape, ShapeInv
  <2>5. QED
    BY <1>1, <2>2, <2>4
<1>3. CASE ~Receive(w)
  <2>1. UNCHANGED queue
    BY <1>3 DEF Worker, Replied, Acquire, EndOfChannel, Discard, Proceed, Granted, Finish,
                Retry, Wake, Panic
  <2>2. QueueShape'
    BY <2>1 DEF QueueShape, ShapeInv
  <2>3. HandsShape'
    BY <1>t, <1>3 DEF Worker, Replied, Acquire, EndOfChannel, Discard, Proceed, Granted, Finish,
                      Retry, Wake, Panic, Move, Release, HandsShape, ShapeInv
  <2>4. QED
    BY <1>1, <2>2, <2>3
<1>4. QED
  BY <1>2, <1>3

LEMMA ShapeNext == ShapeInv /\ [Next]_vars => ShapeInv'
<1> SUFFICES ASSUME ShapeInv, [Next]_vars PROVE ShapeInv'
  OBVIOUS
<1>1. WorkInv'
  BY WorkNext DEF ShapeInv
<1>2. CASE Generator
  BY <1>1, <1>2, ShapeGenerator DEF ShapeInv
<1>3. CASE \E w \in Workers : Worker(w) \/ Panic(w)
  BY <1>1, <1>3, ShapeWorker DEF ShapeInv
<1>4. CASE Monitor \/ Signal \/ Returned \/ UNCHANGED vars
  <2>1. UNCHANGED <<genVars, queue, workerVars>>
    BY <1>4 DEF Monitor, MonitorLeaves, MonitorDecides, MonitorJoins, Signal, Returned, vars
  <2>2. GenShape' /\ QueueShape' /\ HandsShape'
    BY <2>1 DEF genVars, workerVars, GenShape, QueueShape, HandsShape, ShapeInv
  <2>3. QED
    BY <1>1, <2>2 DEF ShapeInv
<1>5. QED
  BY <1>2, <1>3, <1>4 DEF Next

LEMMA ShapeAlways == Spec => []ShapeInv
BY ShapeInit, ShapeNext, PTL DEF Spec

\* No batch is ever empty or larger than --batch-size, whatever the flush
\* timer, the stop flags and the end of the source do to the generator.
THEOREM BatchesWellSizedAlways == Spec => []BatchesWellSized
<1>1. ShapeInv => BatchesWellSized
  BY DEF ShapeInv, BatchesWellSized, GenShape, QueueShape, HandsShape
<1>2. QED
  BY <1>1, ShapeAlways, PTL
-------------------------------------------------------------------------------
(* The flags: why the generator left its loop, who raised the watch, and   *)
(* what the summary may say of it.                                         *)

\* Until the main task decides, only a signal raises the watch.
StopInv ==
  /\ main \in {"watch", "decide"} => ~aborted /\ (shutdown => signalled)
  /\ aborted => fatal \/ signalled

\* The generator has a reason to leave exactly when it has left, and a main
\* task that saw no flag saw the generator's end.
EndedInv ==
  /\ gen \in {"top", "next", "send"} <=> ended = "no"
  /\ ended = "stopped" => fatal \/ shutdown
  /\ main = "decide" => gen = "done" \/ fatal \/ shutdown
  /\ main \in {"join", "done"} /\ ~aborted => gen = "done" /\ ended # "stopped"

\* The source gave all --lines lines, or the channel lost its last receiver while
\* the generator still held a sender: workers that see the end of the channel end
\* after the generator.
CauseInv ==
  /\ ended = "lines" => generated = Lines
  /\ ended = "closed" => \A w \in Workers : wpc[w] = "panicked"
  /\ \A w \in Workers : wpc[w] = "done" => gen = "done"

\* The flags are tested once per event.
LateInv ==
  /\ late =< 1 /\ (~Stopping => late = 0)
  /\ gen \in {"next", "send"} => late = 0

FlagInv == StopInv /\ EndedInv /\ CauseInv /\ LateInv

LEMMA FlagInit == Init => FlagInv
BY DEF Init, FlagInv, StopInv, EndedInv, CauseInv, LateInv, Stopping

LEMMA FlagGenerator ==
  ASSUME TypeInv, FlagInv, Generator
  PROVE  FlagInv'
<1>t. late \in Nat /\ gen \in {"top", "next", "send", "lastsend", "report", "done"}
  BY DEF TypeInv, TypeOK, GenTypes
<1>u. UNCHANGED <<fatal, shutdown, main, aborted, signalled>>
  BY DEF Generator, GenStop, GenFull, GenFlush, GenContinue, GenSend, GenSendFails, GenNext,
         GenExhausted, GenReadError, GenReport, LeaveLoop, mainVars
<1> USE DEF FlagInv, EndedInv, LateInv, Stopping
<1>1. StopInv'
  BY <1>u DEF StopInv
<1>v. CauseInv'
  <2>1. UNCHANGED wpc /\ gen # "done"
    BY DEF Generator, GenStop, GenFull, GenFlush, GenContinue, GenSend, GenSendFails, GenNext,
           GenExhausted, GenReadError, GenReport, LeaveLoop, workerVars, InLoop
  <2>2. \A v \in Workers : wpc[v] # "done"
    BY <2>1 DEF CauseInv
  <2>3. ASSUME ended' = "lines" PROVE generated' = Lines
    <3>1. CASE GenStop
      BY <2>3, <3>1, PipelineAssumption
         DEF GenStop, LeaveLoop, TypeInv, TypeOK, GenTypes, GenRoom
    <3>2. CASE ~GenStop
      BY <2>3, <3>2 DEF Generator, GenFull, GenFlush, GenContinue, GenSend, GenSendFails, GenNext,
                        GenExhausted, GenReadError, GenReport, LeaveLoop, CauseInv
    <3>3. QED
      BY <3>1, <3>2
  <2>4. ASSUME ended' = "closed" PROVE \A v \in Workers : wpc[v] = "panicked"
    <3>1. CASE GenSendFails
      BY <2>2, <3>1 DEF GenSendFails, ReceiverOpen, Ended
    <3>2. CASE ~GenSendFails
      BY <2>4, <3>2 DEF Generator, GenStop, GenFull, GenFlush, GenContinue, GenSend, GenNext,
                        GenExhausted, GenReadError, GenReport, LeaveLoop, CauseInv
    <3>3. QED
      BY <3>1, <3>2
  <2>5. QED
    BY <2>1, <2>2, <2>3, <2>4 DEF CauseInv
<1> SUFFICES EndedInv' /\ LateInv'
  BY <1>1, <1>v
<1>2. ASSUME NEW why \in {"lines", "stopped", "exhausted", "error"}, LeaveLoop(why),
             gen \in {"top", "next"}, why = "stopped" => Stopping
      PROVE  EndedInv' /\ LateInv'
  BY <1>2, <1>t, <1>u DEF LeaveLoop, StartSend
<1>3. CASE GenStop
  <2>1. generated \in Nat /\ Lines \in Nat
    BY PipelineAssumption DEF TypeInv, TypeOK, GenTypes
  <2>2. generated >= Lines \/ Stopping
    BY <1>3, <2>1 DEF GenStop, InLoop
  <2>3. QED
    BY <1>2, <1>3, <2>2 DEF GenStop
<1>4. CASE GenFull \/ GenFlush \/ GenContinue
  <2>1. /\ gen = "top" /\ ~Stopping /\ gen' \in {"send", "next"}
        /\ UNCHANGED <<ended, late>>
    BY <1>4 DEF GenFull, GenFlush, GenContinue, InLoop, StartSend
  <2>2. QED
    BY <1>t, <1>u, <2>1
<1>5. CASE GenSend
  BY <1>5, <1>t, <1>u DEF GenSend, AfterSend
<1>6. CASE GenSendFails
  BY <1>6, <1>t, <1>u DEF GenSendFails
<1>7. CASE GenNext
  BY <1>7, <1>t, <1>u DEF GenNext
<1>8. CASE GenExhausted \/ GenReadError
  BY <1>2, <1>8 DEF GenExhausted, GenReadError
<1>9. CASE GenReport
  BY <1>9, <1>t, <1>u DEF GenReport
<1>10. QED
  BY <1>3, <1>4, <1>5, <1>6, <1>7, <1>8, <1>9 DEF Generator

\* A worker can only raise the fatal flag.
LEMMA FlagWorker ==
  ASSUME TypeInv, FlagInv, NEW w \in Workers, Worker(w) \/ Panic(w)
  PROVE  FlagInv'
<1>1. UNCHANGED <<genVars, shutdown, mainVars>> /\ (fatal => fatal')
  BY DEF Worker, Replied, Acquire, Receive, EndOfChannel, Discard, Proceed, Granted, Finish,
         Retry, Wake, Panic, TypeInv, TypeOK, SharedTypes
<1>2. CauseInv'
  <2>1. wpc \in [Workers -> WorkerStates]
    BY DEF TypeInv, TypeOK, WorkerTypes
  <2>2. PICK to \in WorkerStates :
          /\ wpc' = [wpc EXCEPT ![w] = to]
          /\ wpc[w] # "panicked" /\ (to = "done" => gen = "done")
    BY DEF Worker, Replied, Acquire, Receive, EndOfChannel, Discard, Proceed, Granted, Finish,
           Retry, Wake, Panic, Move, Release, SenderOpen, WorkerStates
  <2>3. QED
    BY <1>1, <2>1, <2>2 DEF CauseInv, FlagInv, genVars
<1>3. QED
  BY <1>1, <1>2 DEF genVars, mainVars, FlagInv, StopInv, EndedInv, LateInv, Stopping

LEMMA FlagMain ==
  ASSUME TypeInv, FlagInv, Monitor \/ Signal
  PROVE  FlagInv'
<1>t. fatal \in BOOLEAN /\ shutdown \in BOOLEAN /\ aborted \in BOOLEAN /\ signalled \in BOOLEAN
  BY DEF TypeInv, TypeOK, SharedTypes, MainTypes
<1> USE DEF FlagInv, StopInv, EndedInv, CauseInv, LateInv, Stopping, genVars, workerVars
<1>1. CASE MonitorLeaves
  BY <1>1, <1>t DEF MonitorLeaves
<1>2. CASE MonitorDecides
  BY <1>2, <1>t DEF MonitorDecides
<1>3. CASE MonitorJoins
  BY <1>3, <1>t DEF MonitorJoins
<1>4. CASE Signal
  BY <1>4, <1>t DEF Signal
<1>5. QED
  BY <1>1, <1>2, <1>3, <1>4 DEF Monitor

LEMMA FlagNext == TypeInv /\ FlagInv /\ [Next]_vars => FlagInv'
<1> SUFFICES ASSUME TypeInv, FlagInv, [Next]_vars PROVE FlagInv'
  OBVIOUS
<1>1. CASE Generator
  BY <1>1, FlagGenerator
<1>2. CASE \E w \in Workers : Worker(w) \/ Panic(w)
  BY <1>2, FlagWorker
<1>3. CASE Monitor \/ Signal
  BY <1>3, FlagMain
<1>4. CASE Returned \/ UNCHANGED vars
  BY <1>4 DEF Returned, vars, genVars, workerVars, mainVars, FlagInv, StopInv, EndedInv, CauseInv,
              LateInv, Stopping
<1>5. QED
  BY <1>1, <1>2, <1>3, <1>4 DEF Next

LEMMA FlagAlways == Spec => [](TypeInv /\ FlagInv)
BY TypeInit, TypeNext, FlagInit, FlagNext, PTL DEF Spec

\* The summary says `aborted' of no run but one that hit a fatal error or was
\* interrupted, and of every run whose generator a flag stopped, what a worker
\* does between the end of the monitor's loop and its decision included.  Any
\* other run generated --lines events or came to the end of its source, unless
\* the source failed or every worker died: those two are not reported.
THEOREM AbortedTruthfullyAlways == Spec => []AbortedTruthfully
<1>1. TypeInv /\ FlagInv => AbortedTruthfully
  BY DEF TypeInv, TypeOK, GenTypes, FlagInv, StopInv, EndedInv, CauseInv, AbortedTruthfully,
         NoFalseAbort, NoSilentTruncation
<1>2. QED
  BY <1>1, FlagAlways, PTL

\* Once either flag is up the generator produces at most one event more,
\* wherever it was.
THEOREM StopsGeneratingAlways == Spec => []StopsGenerating
<1>1. FlagInv => StopsGenerating
  BY DEF FlagInv, LateInv, StopsGenerating
<1>2. QED
  BY <1>1, FlagAlways, PTL
-------------------------------------------------------------------------------
(* No event is lost, duplicated or overtaken, and memory is bounded.  The  *)
(* proofs read the state as one line of events: Held, queue, pending,      *)
(* buffer.                                                                 *)

OrderInv == ShapeInv /\ NothingLostOrDuplicated

\* Types of everything the line is made of.
LEMMA LineTypes ==
  ASSUME ShapeInv
  PROVE  /\ queue \in Seq(Seq(Nat)) /\ pending \in Seq(Nat) /\ buffer \in Seq(Nat)
         /\ Held \in Seq(Nat) /\ Len(Held) \in Nat
         /\ Out \in Nat /\ generated \in Nat /\ discarded \in Nat /\ lost \in Nat
         /\ batch \in [Workers -> Seq(Nat)] /\ stats \in StatsType
         /\ lock \in Workers \cup {NoWorker} /\ NoWorker \notin Workers
         /\ wpc \in [Workers -> WorkerStates]
<1>1. /\ queue \in Seq(Seq(Nat)) /\ pending \in Seq(Nat) /\ buffer \in Seq(Nat)
      /\ generated \in Nat /\ discarded \in Nat /\ lost \in Nat
      /\ batch \in [Workers -> Seq(Nat)] /\ stats \in StatsType
      /\ lock \in Workers \cup {NoWorker} /\ NoWorker \notin Workers
      /\ wpc \in [Workers -> WorkerStates]
  BY PipelineAssumption DEF ShapeInv, WorkInv, TypeInv, TypeOK, GenTypes, WorkerTypes,
                            SharedTypes, StatsType
<1>2. Held \in Seq(Nat)
  BY <1>1, EmptySeqs DEF Held
<1>3. Len(Held) \in Nat
  BY <1>2
<1>4. Out \in Nat
  BY <1>1, StatsFields DEF Out
<1>5. QED
  BY <1>1, <1>2, <1>3, <1>4

\* A sequence is empty exactly when its length is 0.
LEMMA EmptyIffNoLength ==
  ASSUME NEW s \in Seq(Seq(Nat))
  PROVE  s = <<>> <=> Len(s) = 0
OBVIOUS

LEMMA LineNumbers == ASSUME ShapeInv PROVE AfterHeld \in Nat /\ AfterQueue \in Nat
<1>1. AfterHeld \in Nat
  BY LineTypes DEF AfterHeld
<1>2. CASE queue = <<>>
  BY <1>1, <1>2 DEF AfterQueue
<1>3. CASE queue # <<>>
  <2>1. Len(queue) \in 1..Len(queue)
    BY <1>3, LineTypes
  <2>2. queue[Len(queue)] \in Seq(Nat) /\ queue[Len(queue)] # <<>>
    BY <2>1, LineTypes DEF ShapeInv, QueueShape
  <2>3. queue[Len(queue)][1] \in Nat /\ Len(queue[Len(queue)]) \in Nat
    BY <2>2
  <2>4. QED
    BY <1>1, <1>3, <2>3 DEF AfterQueue
<1>4. QED
  BY <1>1, <1>2, <1>3

LEMMA OrderInit == Init => OrderInv
<1> SUFFICES ASSUME Init PROVE OrderInv
  OBVIOUS
<1>1. ShapeInv
  BY ShapeInit
<1>2. Out = 0 /\ Held = <<>>
  BY DEF Init, Out, Held
<1>3. QED
  BY <1>1, <1>2 DEF Init, OrderInv, NothingLostOrDuplicated, Consecutive, QueueInOrder, AfterHeld,
                    AfterQueue, AfterPending

\* The tail of the line does not move, and neither does the number it starts at.
LEMMA TailFrame ==
  ASSUME NothingLostOrDuplicated,
         AfterHeld' = AfterHeld, Consecutive(Held, Out + 1)',
         UNCHANGED <<queue, pending, buffer, generated>>
  PROVE  NothingLostOrDuplicated'
BY DEF NothingLostOrDuplicated, Consecutive, QueueInOrder, AfterQueue, AfterPending

\* Nothing moves at all.
LEMMA LineFrame ==
  ASSUME NothingLostOrDuplicated, Out' = Out, Held' = Held,
         UNCHANGED <<queue, pending, buffer, generated>>
  PROVE  NothingLostOrDuplicated'
BY TailFrame DEF NothingLostOrDuplicated, AfterHeld, Consecutive

\* The whole buffer becomes the batch being sent.
LEMMA BufferTaken ==
  ASSUME OrderInv, pending = <<>>, pending' = buffer, buffer' = <<>>,
         Out' = Out, Held' = Held, UNCHANGED <<queue, generated>>
  PROVE  NothingLostOrDuplicated'
<1>t. buffer \in Seq(Nat) /\ Len(buffer) \in Nat /\ Out \in Nat /\ Len(Held) \in Nat
  BY LineTypes DEF OrderInv
<1>1. /\ AfterHeld' = AfterHeld /\ AfterQueue' = AfterQueue
      /\ QueueInOrder' /\ Consecutive(Held, Out + 1)'
  BY DEF OrderInv, NothingLostOrDuplicated, AfterHeld, AfterQueue, QueueInOrder, Consecutive
<1>2. Len(pending) = 0 /\ Len(buffer') = 0
  OBVIOUS
<1>3. Consecutive(buffer, AfterQueue + 0) /\ generated = AfterQueue + 0 + Len(buffer) - 1
  BY <1>2 DEF OrderInv, NothingLostOrDuplicated, AfterPending
<1>4. AfterQueue \in Nat
  BY LineNumbers DEF OrderInv
<1>5. Consecutive(pending, AfterQueue)'
  BY <1>1, <1>3, <1>4 DEF Consecutive
<1>6. Consecutive(buffer, AfterPending)'
  BY <1>2 DEF Consecutive
<1>7. generated' = AfterPending' + Len(buffer') - 1
  BY <1>t, <1>1, <1>2, <1>3, <1>4 DEF AfterPending
<1>8. QED
  BY <1>1, <1>5, <1>6, <1>7 DEF NothingLostOrDuplicated

\* The batch being sent goes to the end of the channel.
LEMMA BatchQueued ==
  ASSUME OrderInv, pending # <<>>, queue' = Append(queue, pending), pending' = <<>>,
         Out' = Out, Held' = Held, UNCHANGED <<buffer, generated>>
  PROVE  NothingLostOrDuplicated'
<1> DEFINE N == Len(queue)
<1>t. /\ queue \in Seq(Seq(Nat)) /\ pending \in Seq(Nat) /\ N \in Nat
      /\ Len(pending) \in Nat \ {0} /\ AfterQueue \in Nat /\ Len(buffer) \in Nat
  BY LineTypes, LineNumbers DEF OrderInv
<1>1. /\ AfterHeld' = AfterHeld /\ Consecutive(Held, Out + 1)'
  BY DEF OrderInv, NothingLostOrDuplicated, AfterHeld, Consecutive
<1>2. /\ Len(queue') = N + 1 /\ queue' # <<>> /\ queue'[N + 1] = pending
      /\ \A k \in 1..N : queue'[k] = queue[k]
  <2>1. /\ Len(queue') = N + 1 /\ queue'[N + 1] = pending
        /\ \A k \in 1..N : queue'[k] = queue[k]
    BY <1>t
  <2>2. queue' \in Seq(Seq(Nat))
    BY <1>t
  <2>3. N + 1 # 0
    BY <1>t
  <2>4. QED
    BY <2>1, <2>2, <2>3, EmptyIffNoLength
<1>3. pending[1] = AfterQueue /\ Consecutive(pending, pending[1])
  <2>1. Consecutive(pending, AfterQueue)
    BY DEF OrderInv, NothingLostOrDuplicated
  <2>2. 1 \in 1..Len(pending) /\ AfterQueue + 1 - 1 = AfterQueue
    BY <1>t
  <2>3. pending[1] = AfterQueue
    BY <2>1, <2>2 DEF Consecutive
  <2>4. QED
    BY <2>1, <2>3
<1>4. queue'[1][1] = AfterHeld'
  <2>1. CASE queue = <<>>
    <3>1. N = 0 /\ AfterQueue = AfterHeld
      BY <2>1 DEF AfterQueue
    <3>2. QED
      BY <1>1, <1>2, <1>3, <3>1
  <2>2. CASE queue # <<>>
    <3>1. 1 \in 1..N
      BY <1>t, <2>2
    <3>2. QED
      BY <1>1, <1>2, <2>2, <3>1 DEF OrderInv, NothingLostOrDuplicated, QueueInOrder
  <2>3. QED
    BY <2>1, <2>2
<1>5. ASSUME NEW k \in 1..(N + 1)
      PROVE  Consecutive(queue'[k], queue'[k][1])
  <2>1. CASE k \in 1..N
    BY <1>2, <2>1 DEF OrderInv, NothingLostOrDuplicated, QueueInOrder
  <2>2. CASE k = N + 1
    BY <1>2, <1>3, <2>2
  <2>3. QED
    BY <1>t, <2>1, <2>2
<1>6. ASSUME NEW k \in 1..N
      PROVE  queue'[k + 1][1] = queue'[k][1] + Len(queue'[k])
  <2>1. CASE k = N
    <3>1. queue # <<>> /\ queue'[k] = queue[N] /\ queue'[k + 1] = pending
      BY <1>t, <1>2, <2>1
    <3>2. QED
      BY <1>3, <2>1, <3>1 DEF AfterQueue
  <2>2. CASE k # N
    <3>1. k \in 1..(N - 1) /\ k + 1 \in 1..N
      BY <1>t, <2>2
    <3>2. QED
      BY <1>2, <3>1 DEF OrderInv, NothingLostOrDuplicated, QueueInOrder
  <2>3. QED
    BY <2>1, <2>2
<1>7. QueueInOrder'
  <2>1. Len(queue') = N + 1 /\ Len(queue') - 1 = N
    BY <1>t, <1>2
  <2>2. QED
    BY <1>4, <1>5, <1>6, <2>1 DEF QueueInOrder, Consecutive
<1>8. AfterQueue' = AfterQueue + Len(pending) /\ AfterPending' = AfterPending
  <2>1. AfterQueue' = pending[1] + Len(pending)
    BY <1>2 DEF AfterQueue
  <2>2. Len(pending') = 0
    OBVIOUS
  <2>3. QED
    BY <1>t, <1>3, <2>1, <2>2 DEF AfterPending
<1>9. Consecutive(pending, AfterQueue)'
  BY DEF Consecutive
<1>10. QED
  BY <1>1, <1>7, <1>8, <1>9 DEF OrderInv, NothingLostOrDuplicated, Consecutive

\* The next event joins the buffer.
LEMMA EventGenerated ==
  ASSUME OrderInv, generated' = generated + 1, buffer' = Append(buffer, generated + 1),
         Out' = Out, Held' = Held, UNCHANGED <<queue, pending>>
  PROVE  NothingLostOrDuplicated'
<1>t. /\ buffer \in Seq(Nat) /\ Len(buffer) \in Nat /\ AfterQueue \in Nat
      /\ Len(pending) \in Nat /\ generated \in Nat /\ AfterPending \in Nat
  BY LineTypes, LineNumbers DEF OrderInv, AfterPending
<1>1. /\ AfterHeld' = AfterHeld /\ AfterQueue' = AfterQueue /\ AfterPending' = AfterPending
      /\ QueueInOrder' /\ Consecutive(Held, Out + 1)' /\ Consecutive(pending, AfterQueue)'
  BY DEF OrderInv, NothingLostOrDuplicated, AfterHeld, AfterQueue, AfterPending, QueueInOrder,
         Consecutive
<1>2. /\ Len(buffer') = Len(buffer) + 1 /\ buffer'[Len(buffer) + 1] = generated + 1
      /\ \A i \in 1..Len(buffer) : buffer'[i] = buffer[i]
  BY <1>t
<1>3. generated = AfterPending + Len(buffer) - 1 /\ Consecutive(buffer, AfterPending)
  BY DEF OrderInv, NothingLostOrDuplicated
<1>4. ASSUME NEW i \in 1..(Len(buffer) + 1)
      PROVE  buffer'[i] = AfterPending + i - 1
  <2>1. CASE i \in 1..Len(buffer)
    BY <1>2, <1>3, <2>1 DEF Consecutive
  <2>2. CASE i = Len(buffer) + 1
    BY <1>t, <1>2, <1>3, <2>2
  <2>3. QED
    BY <1>t, <2>1, <2>2
<1>5. Consecutive(buffer, AfterPending)'
  BY <1>1, <1>2, <1>4 DEF Consecutive
<1>6. generated' = AfterPending' + Len(buffer') - 1
  BY <1>t, <1>1, <1>2, <1>3
<1>7. QED
  BY <1>1, <1>5, <1>6 DEF NothingLostOrDuplicated

\* The first batch of the channel goes to the worker that holds the mutex.
LEMMA BatchReceived ==
  ASSUME OrderInv, queue # <<>>, Held = <<>>, Held' = Head(queue), queue' = Tail(queue),
         Out' = Out, UNCHANGED <<pending, buffer, generated>>
  PROVE  NothingLostOrDuplicated'
<1> DEFINE N == Len(queue)
<1>t. /\ queue \in Seq(Seq(Nat)) /\ N \in Nat \ {0} /\ Out \in Nat
      /\ queue[1] \in Seq(Nat) /\ Len(queue[1]) \in Nat
  BY LineTypes DEF OrderInv
<1>e. queue' \in Seq(Seq(Nat))
  BY <1>t
<1>1. /\ Held' = queue[1] /\ Len(queue') = N - 1
      /\ \A k \in 1..(N - 1) : queue'[k] = queue[k + 1]
  BY <1>t
<1>2. queue[1][1] = Out + 1
  <2>1. Len(Held) = 0
    OBVIOUS
  <2>2. QED
    BY <1>t, <2>1 DEF OrderInv, NothingLostOrDuplicated, QueueInOrder, AfterHeld
<1>3. Consecutive(Held, Out + 1)'
  <2>1. Consecutive(queue[1], queue[1][1])
    BY <1>t DEF OrderInv, NothingLostOrDuplicated, QueueInOrder
  <2>2. QED
    BY <1>1, <1>2, <2>1 DEF Consecutive
<1>4. AfterHeld' = queue[1][1] + Len(queue[1])
  BY <1>1, <1>2 DEF AfterHeld
<1>5. AfterQueue' = AfterQueue /\ QueueInOrder'
  <2>1. CASE N = 1
    <3>0. Len(queue') = 0
      BY <1>1, <2>1
    <3>1. queue' = <<>> /\ Len(queue') = 0
      BY <1>e, <3>0, EmptyIffNoLength
    <3>2. AfterQueue' = AfterHeld' /\ AfterQueue = queue[1][1] + Len(queue[1])
      BY <2>1, <3>1 DEF AfterQueue
    <3>3. QueueInOrder'
      BY <3>1 DEF QueueInOrder
    <3>4. QED
      BY <1>4, <3>2, <3>3
  <2>2. CASE N > 1
    <3>1. /\ queue' # <<>> /\ 1 \in 1..(N - 1) /\ N - 1 \in 1..(N - 1)
          /\ queue'[1] = queue[2] /\ queue'[N - 1] = queue[N]
      <4>1. 1 \in 1..(N - 1) /\ N - 1 \in 1..(N - 1) /\ N - 1 # 0 /\ (N - 1) + 1 = N
        BY <1>t, <2>2
      <4>2. queue' # <<>>
        BY <1>e, <1>1, <4>1, EmptyIffNoLength
      <4>3. queue'[1] = queue[1 + 1] /\ queue'[N - 1] = queue[(N - 1) + 1]
        BY <1>1, <4>1
      <4>4. QED
        BY <4>1, <4>2, <4>3
    <3>2. queue[2][1] = queue[1][1] + Len(queue[1])
      BY <1>t, <3>1 DEF OrderInv, NothingLostOrDuplicated, QueueInOrder
    <3>3. AfterQueue' = AfterQueue
      BY <1>1, <3>1 DEF AfterQueue
    <3>4. ASSUME NEW k \in 1..(N - 1)
          PROVE  Consecutive(queue'[k], queue'[k][1])
      <4>1. k + 1 \in 1..N /\ queue'[k] = queue[k + 1]
        BY <1>t, <1>1
      <4>2. QED
        BY <4>1 DEF OrderInv, NothingLostOrDuplicated, QueueInOrder
    <3>5. ASSUME NEW k \in 1..(N - 2)
          PROVE  queue'[k + 1][1] = queue'[k][1] + Len(queue'[k])
      <4>1. /\ k + 1 \in 1..(N - 1) /\ queue'[k] = queue[k + 1]
            /\ queue'[k + 1] = queue[(k + 1) + 1]
        BY <1>t, <1>1
      <4>2. QED
        BY <4>1 DEF OrderInv, NothingLostOrDuplicated, QueueInOrder
    <3>6. Len(queue') = N - 1 /\ Len(queue') - 1 = N - 2
      BY <1>t, <1>1
    <3>7. QED
      BY <1>4, <3>1, <3>2, <3>3, <3>4, <3>5, <3>6 DEF QueueInOrder, Consecutive
  <2>3. N = 1 \/ N > 1
    <3>1. \A m \in Nat \ {0} : m = 1 \/ m > 1
      OBVIOUS
    <3>2. N \in Nat \ {0}
      BY <1>t
    <3> HIDE DEF N
    <3>3. QED
      BY <3>1, <3>2
  <2>4. QED
    BY <2>1, <2>2, <2>3
<1>6. QED
  BY <1>3, <1>5 DEF OrderInv, NothingLostOrDuplicated, AfterPending, Consecutive

\* The worker is done with its batch, whose events are now accounted for.
LEMMA BatchAccounted ==
  ASSUME OrderInv, Out' = Out + Len(Held), Held' = <<>>,
         UNCHANGED <<queue, pending, buffer, generated>>
  PROVE  NothingLostOrDuplicated'
<1>1. Len(Held) \in Nat /\ Out \in Nat /\ Len(Held') = 0
  BY LineTypes DEF OrderInv
<1>2. AfterHeld' = AfterHeld
  BY <1>1 DEF AfterHeld
<1>3. Consecutive(Held, Out + 1)'
  BY <1>1 DEF Consecutive
<1>4. QED
  BY <1>2, <1>3, TailFrame DEF OrderInv
-------------------------------------------------------------------------------
\* The generator moves no event but at the end of the line.
LEMMA OrderGenerator ==
  ASSUME OrderInv, Generator
  PROVE  NothingLostOrDuplicated'
<1>1. Out' = Out /\ Held' = Held
  <2>1. UNCHANGED <<lock, batch, discarded, lost>>
    BY DEF Generator, GenStop, GenFull, GenFlush, GenContinue, GenSend, GenSendFails, GenNext,
           GenExhausted, GenReadError, GenReport, LeaveLoop, workerVars
  <2>2. stats'.sent = stats.sent /\ stats'.failed = stats.failed
    <3>1. stats \in StatsType
      BY LineTypes DEF OrderInv
    <3>2. CASE GenReport
      BY <3>1, <3>2 DEF GenReport, StatsType
    <3>3. CASE ~GenReport
      BY <3>3 DEF Generator, GenStop, GenFull, GenFlush, GenContinue, GenSend, GenSendFails,
                  GenNext, GenExhausted, GenReadError, LeaveLoop
    <3>4. QED
      BY <3>2, <3>3
  <2>3. QED
    BY <2>1, <2>2 DEF Out, Held
<1>2. gen \in {"top", "next"} => pending = <<>>
  BY DEF OrderInv, ShapeInv, GenShape
<1>3. ASSUME gen \in {"top", "next"}, NEW where, StartSend(where), UNCHANGED <<queue, generated>>
      PROVE  NothingLostOrDuplicated'
  BY <1>1, <1>2, <1>3, BufferTaken DEF StartSend
<1>4. ASSUME UNCHANGED <<queue, pending, buffer, generated>>
      PROVE  NothingLostOrDuplicated'
  BY <1>1, <1>4, LineFrame DEF OrderInv
<1>5. ASSUME gen \in {"top", "next"}, NEW why, LeaveLoop(why)
      PROVE  NothingLostOrDuplicated'
  <2>1. UNCHANGED <<queue, generated>>
    BY <1>5 DEF LeaveLoop
  <2>2. CASE buffer # <<>>
    BY <1>3, <1>5, <2>1, <2>2 DEF LeaveLoop
  <2>3. CASE buffer = <<>>
    BY <1>4, <1>5, <2>1, <2>3 DEF LeaveLoop
  <2>4. QED
    BY <2>2, <2>3
<1>6. CASE GenStop
  BY <1>5, <1>6 DEF GenStop
<1>7. CASE GenFull
  BY <1>3, <1>7 DEF GenFull, InLoop
<1>8. CASE GenFlush
  <2>1. CASE buffer # <<>>
    BY <1>3, <1>8, <2>1 DEF GenFlush, InLoop
  <2>2. CASE buffer = <<>>
    BY <1>4, <1>8, <2>2 DEF GenFlush
  <2>3. QED
    BY <2>1, <2>2
<1>9. CASE GenContinue \/ GenSendFails \/ GenReport
  BY <1>4, <1>9 DEF GenContinue, GenSendFails, GenReport
<1>10. CASE GenSend
  <2>1. pending # <<>>
    BY <1>10 DEF GenSend, OrderInv, ShapeInv, GenShape
  <2>2. QED
    BY <1>1, <1>10, <2>1, BatchQueued DEF GenSend
<1>11. CASE GenNext
  BY <1>1, <1>11, EventGenerated DEF GenNext
<1>12. CASE GenExhausted \/ GenReadError
  BY <1>5, <1>12 DEF GenExhausted, GenReadError
<1>13. QED
  BY <1>6, <1>7, <1>8, <1>9, <1>10, <1>11, <1>12 DEF Generator

\* A worker moves events only from the head of the channel to its hands, and
\* from its hands to the counters.
LEMMA OrderWorker ==
  ASSUME OrderInv, NEW w \in Workers, Worker(w) \/ Panic(w)
  PROVE  NothingLostOrDuplicated'
<1>t. /\ batch \in [Workers -> Seq(Nat)] /\ stats \in StatsType /\ NoWorker \notin Workers
      /\ discarded \in Nat /\ lost \in Nat /\ wpc \in [Workers -> WorkerStates]
  BY LineTypes DEF OrderInv
<1>n. Len(batch[w]) \in Nat
  BY <1>t
<1>s. /\ stats.sent \in Nat /\ stats.failed \in Nat
  BY <1>t, StatsFields
<1>l. /\ Busy(w) <=> lock = w
      /\ ~Busy(w) \/ wpc[w] = "recv" => batch[w] = <<>>
  BY DEF OrderInv, ShapeInv, WorkInv, LockInv, HandsInv
<1>g. UNCHANGED <<pending, buffer, generated>>
  BY DEF Worker, Replied, Acquire, Receive, EndOfChannel, Discard, Proceed, Granted, Finish,
         Retry, Wake, Panic, genVars
<1>r. ASSUME NEW to, Release(w, to)
      PROVE  Held' = <<>>
  BY <1>r DEF Release, Held
<1>h. ASSUME Busy(w)
      PROVE  Held = batch[w]
  BY <1>h, <1>l, <1>t DEF Held
<1>1. CASE Acquire(w)
  <2>1. Held = <<>> /\ Held' = <<>>
    BY <1>1, <1>l, <1>t DEF Acquire, Held, Busy
  <2>2. QED
    BY <1>1, <1>g, <2>1, LineFrame DEF Acquire, Out, OrderInv
<1>2. CASE Receive(w)
  <2>1. lock' = w /\ batch' = [batch EXCEPT ![w] = Head(queue)]
    BY <1>2, <1>l DEF Receive, Busy
  <2>2. Held' = Head(queue)
    BY <1>t, <2>1 DEF Held
  <2>3. Held = <<>>
    BY <1>2, <1>h, <1>l DEF Receive, Busy
  <2>4. QED
    BY <1>2, <1>g, <2>2, <2>3, BatchReceived DEF Receive, Out
<1>3. CASE EndOfChannel(w)
  <2>1. Held = <<>> /\ Held' = <<>>
    BY <1>3, <1>h, <1>l, <1>r DEF EndOfChannel, Busy
  <2>2. QED
    BY <1>3, <1>g, <2>1, LineFrame DEF EndOfChannel, Out, OrderInv
<1>4. ASSUME Busy(w), NEW to, Release(w, to), UNCHANGED queue, Out' = Out + Len(batch[w])
      PROVE  NothingLostOrDuplicated'
  BY <1>4, <1>g, <1>h, <1>r, BatchAccounted
<1>5. CASE Discard(w)
  <2>1. Out' = Out + Len(batch[w])
    BY <1>5, <1>n, <1>s, <1>t DEF Discard, Out
  <2>2. QED
    BY <1>4, <1>5, <2>1 DEF Discard, Busy
<1>6. CASE Panic(w)
  <2>1. Out' = Out + Len(batch[w])
    BY <1>6, <1>n, <1>s, <1>t DEF Panic, Out
  <2>2. QED
    BY <1>4, <1>6, <2>1 DEF Panic, Busy
<1>7. ASSUME NEW r \in Results(Len(batch[w])), Finish(w, r)
      PROVE  NothingLostOrDuplicated'
  <2> DEFINE n == Len(batch[w])
  <2>1. Settled(r) \/ GiveUp(r, attempt[w], Retries)
    BY <1>7 DEF Finish
  <2>2. n > 0
    BY <1>7, <1>n, <1>t DEF Finish, OrderInv, ShapeInv, HandsShape
  <2>3. /\ SentCount(r, n) \in Nat /\ FailedCount(r, n) \in Nat
        /\ SentCount(r, n) + FailedCount(r, n) = n
    BY <1>n, <2>1, <2>2, CountsCoverBatch
  <2>4. /\ stats'.sent = stats.sent + SentCount(r, n)
        /\ stats'.failed = stats.failed + FailedCount(r, n)
    BY <1>7, <1>t DEF Finish, StatsType
  <2>5. UNCHANGED <<discarded, lost, queue>>
    BY <1>7 DEF Finish
  <2>6. Out' = Out + n
    <3> HIDE DEF n
    <3>1. QED
      BY <1>s, <1>t, <2>3, <2>4, <2>5 DEF Out
  <2>7. QED
    BY <1>4, <1>7, <2>5, <2>6 DEF Finish, Busy
<1>8. ASSUME NEW r \in Results(Len(batch[w])), Retry(w, r)
      PROVE  NothingLostOrDuplicated'
  <2>1. stats'.sent = stats.sent /\ stats'.failed = stats.failed
    BY <1>8, <1>t DEF Retry, StatsType
  <2>2. QED
    BY <1>8, <1>g, <2>1, LineFrame DEF Retry, Out, Held, OrderInv
<1>9. CASE Proceed(w) \/ Granted(w) \/ Wake(w)
  BY <1>9, <1>g, LineFrame DEF Proceed, Granted, Wake, Out, Held, OrderInv
<1>10. QED
  BY <1>1, <1>2, <1>3, <1>5, <1>6, <1>7, <1>8, <1>9 DEF Worker, Replied

LEMMA OrderNext == OrderInv /\ [Next]_vars => OrderInv'
<1> SUFFICES ASSUME OrderInv, [Next]_vars PROVE OrderInv'
  OBVIOUS
<1>1. ShapeInv'
  BY ShapeNext DEF OrderInv
<1>2. CASE Generator
  BY <1>1, <1>2, OrderGenerator DEF OrderInv
<1>3. CASE \E w \in Workers : Worker(w) \/ Panic(w)
  BY <1>1, <1>3, OrderWorker DEF OrderInv
<1>4. CASE Monitor \/ Signal \/ Returned \/ UNCHANGED vars
  <2>1. UNCHANGED <<queue, pending, buffer, generated, lock, batch, discarded, lost, stats>>
    BY <1>4 DEF Monitor, MonitorLeaves, MonitorDecides, MonitorJoins, Signal, Returned, vars,
                genVars, workerVars
  <2>2. Out' = Out /\ Held' = Held
    BY <2>1 DEF Out, Held
  <2>3. QED
    BY <1>1, <2>1, <2>2, LineFrame DEF OrderInv
<1>5. QED
  BY <1>2, <1>3, <1>4 DEF Next

\* Whatever the tasks' interleaving, the transport's answers, panics and
\* Ctrl-C, every event generated is in exactly one place and events leave the
\* pipeline in the order they were generated.
THEOREM NothingLostOrDuplicatedAlways == Spec => []NothingLostOrDuplicated
<1>1. OrderInv => NothingLostOrDuplicated
  BY DEF OrderInv
<1>2. QED
  BY <1>1, OrderInit, OrderNext, PTL DEF Spec
-------------------------------------------------------------------------------
(***************************************************************************)
(* Backpressure bounds the memory of a run.  A count of the events in the  *)
(* channel is not inductive, since the first batch may be a short one; the *)
(* distance between any two batches of the channel is.                     *)
(***************************************************************************)

\* A later batch starts later, by at most --batch-size events for each batch between.
Span == \A j, k \in 1..Len(queue) :
          j =< k => /\ queue[j][1] =< queue[k][1]
                    /\ queue[k][1] =< queue[j][1] + (k - j) * BatchSize

\* The generator's hands: a batch being sent, or a buffer, never both.
HandsRoom == pending # <<>> => buffer = <<>> /\ Len(pending) =< BatchSize

RoomInv == OrderInv /\ Len(queue) =< QueueCap /\ Span /\ HandsRoom

LEMMA QueueCapType == QueueCap \in Nat
<1>1. Cardinality(Workers) \in Nat
  BY PipelineAssumption, FS_CardinalityType
<1>2. Cardinality(Workers) * QueuePerWorker \in Nat
  BY <1>1, PipelineAssumption
<1>3. QED
  BY <1>2, PipelineAssumption DEF QueueCap, MaxOf

LEMMA RoomInit == Init => RoomInv
<1> SUFFICES ASSUME Init PROVE RoomInv
  OBVIOUS
<1>1. queue = <<>> /\ pending = <<>> /\ Len(queue) = 0
  BY DEF Init
<1>2. QED
  BY <1>1, OrderInit, QueueCapType DEF RoomInv, Span, HandsRoom

\* Every batch of the channel starts with a number.
LEMMA FirstNumbers ==
  ASSUME OrderInv, NEW k \in 1..Len(queue)
  PROVE  queue[k][1] \in Nat /\ Len(queue[k]) \in Nat /\ Len(queue[k]) =< BatchSize
<1>1. queue[k] \in Seq(Nat) /\ queue[k] # <<>> /\ Len(queue[k]) =< BatchSize
  BY LineTypes DEF OrderInv, ShapeInv, QueueShape
<1>2. QED
  BY <1>1

\* A batch is added at the end of the channel, within its capacity.
LEMMA RoomGenSend ==
  ASSUME RoomInv, GenSend
  PROVE  Len(queue') =< QueueCap /\ Span'
<1> DEFINE N == Len(queue)
           B == BatchSize
<1>t. queue \in Seq(Seq(Nat)) /\ N \in Nat /\ pending \in Seq(Nat) /\ B \in Nat /\ QueueCap \in Nat
  BY LineTypes, QueueCapType, PipelineAssumption DEF RoomInv, OrderInv
<1>1. /\ Len(queue') = N + 1 /\ queue'[N + 1] = pending
      /\ \A k \in 1..N : queue'[k] = queue[k]
  BY <1>t DEF GenSend
<1>2. N < QueueCap
  BY DEF GenSend
<1>3. pending[1] = AfterQueue
  <2>1. pending # <<>>
    BY DEF GenSend, RoomInv, OrderInv, ShapeInv, GenShape
  <2>2. 1 \in 1..Len(pending)
    BY <1>t, <2>1
  <2>3. AfterQueue \in Nat
    BY LineNumbers DEF RoomInv, OrderInv
  <2>4. QED
    BY <2>2, <2>3 DEF RoomInv, OrderInv, NothingLostOrDuplicated, Consecutive
<1>4. ASSUME NEW j \in 1..N
      PROVE  queue[j][1] =< pending[1] /\ pending[1] =< queue[j][1] + ((N + 1) - j) * B
  <2>1. queue # <<>> /\ N \in 1..N
    BY <1>t
  <2>2. pending[1] = queue[N][1] + Len(queue[N])
    BY <1>3, <2>1 DEF AfterQueue
  <2>3. queue[j][1] =< queue[N][1] /\ queue[N][1] =< queue[j][1] + (N - j) * B
    BY <2>1 DEF RoomInv, Span
  <2>4. /\ Len(queue[N]) \in Nat /\ Len(queue[N]) =< B /\ queue[N][1] \in Nat
        /\ queue[j][1] \in Nat
    BY <2>1, FirstNumbers DEF RoomInv
  <2>5. ((N + 1) - j) * B = (N - j) * B + B
    BY <1>t
  <2>6. (N - j) * B \in Int
    BY <1>t
  <2> DEFINE P == pending[1]
             Q == queue[N][1]
             R == queue[j][1]
             S == Len(queue[N])
             D == (N - j) * B
  <2>7. P = Q + S /\ R =< Q /\ Q =< R + D /\ S =< B /\ Q \in Nat /\ R \in Nat /\ S \in Nat /\ D \in Int
    BY <2>2, <2>3, <2>4, <2>6
  <2>8. R =< P /\ P =< R + (D + B)
    <3> HIDE DEF P, Q, R, S, D, B, N
    <3>1. QED
      BY <1>t, <2>7
  <2>9. QED
    BY <2>5, <2>8
<1>5. ASSUME NEW j \in 1..(N + 1), NEW k \in 1..(N + 1), j =< k
      PROVE  queue'[j][1] =< queue'[k][1] /\ queue'[k][1] =< queue'[j][1] + (k - j) * B
  <2>1. CASE k \in 1..N
    <3>1. j \in 1..N
      BY <1>5, <1>t, <2>1
    <3>2. QED
      BY <1>1, <1>5, <2>1, <3>1 DEF RoomInv, Span
  <2>2. CASE k = N + 1 /\ j \in 1..N
    BY <1>1, <1>4, <2>2
  <2>3. CASE k = N + 1 /\ j = N + 1
    <3>1. pending[1] \in Nat
      BY <1>3, LineNumbers DEF RoomInv, OrderInv
    <3>2. (k - j) * B = 0
      BY <1>t, <2>3
    <3>3. queue'[k][1] = pending[1] /\ queue'[j][1] = pending[1]
      BY <1>1, <2>3
    <3>4. QED
      BY <3>1, <3>2, <3>3
  <2>4. QED
    <3>1. k \in 1..N \/ (k = N + 1 /\ (j \in 1..N \/ j = N + 1))
      BY <1>t
    <3>2. QED
      BY <2>1, <2>2, <2>3, <3>1
<1>6. Span'
  BY <1>1, <1>5 DEF Span
<1>7. QED
  BY <1>t, <1>1, <1>2, <1>6

\* The first batch leaves the channel.
LEMMA RoomReceive ==
  ASSUME RoomInv, NEW w \in Workers, Receive(w)
  PROVE  Len(queue') =< QueueCap /\ Span'
<1> DEFINE N == Len(queue)
<1>t. queue \in Seq(Seq(Nat)) /\ N \in Nat \ {0} /\ QueueCap \in Nat
  BY LineTypes, QueueCapType DEF RoomInv, OrderInv, Receive
<1>1. /\ Len(queue') = N - 1
      /\ \A k \in 1..(N - 1) : queue'[k] = queue[k + 1]
  BY <1>t DEF Receive
<1>2. ASSUME NEW j \in 1..(N - 1), NEW k \in 1..(N - 1), j =< k
      PROVE  /\ queue'[j][1] =< queue'[k][1]
             /\ queue'[k][1] =< queue'[j][1] + (k - j) * BatchSize
  <2>1. j + 1 \in 1..N /\ k + 1 \in 1..N /\ j + 1 =< k + 1 /\ (k + 1) - (j + 1) = k - j
    BY <1>t, <1>2
  <2>2. /\ queue[j + 1][1] =< queue[k + 1][1]
        /\ queue[k + 1][1] =< queue[j + 1][1] + ((k + 1) - (j + 1)) * BatchSize
    BY <2>1 DEF RoomInv, Span
  <2>3. QED
    BY <1>1, <2>1, <2>2
<1>3. Span'
  BY <1>1, <1>2 DEF Span
<1>4. QED
  BY <1>t, <1>1, <1>3 DEF RoomInv

LEMMA RoomNext == RoomInv /\ [Next]_vars => RoomInv'
<1> SUFFICES ASSUME RoomInv, [Next]_vars PROVE RoomInv'
  OBVIOUS
<1>1. OrderInv'
  BY OrderNext DEF RoomInv
<1>2. ASSUME UNCHANGED queue
      PROVE  Len(queue') =< QueueCap /\ Span'
  BY <1>2 DEF RoomInv, Span
<1>3. Len(queue') =< QueueCap /\ Span'
  <2>1. CASE GenSend
    BY <2>1, RoomGenSend
  <2>2. CASE \E w \in Workers : Receive(w)
    BY <2>2, RoomReceive
  <2>3. CASE ~GenSend /\ ~(\E w \in Workers : Receive(w))
    <3>1. UNCHANGED queue
      BY <2>3 DEF Next, Generator, GenStop, GenFull, GenFlush, GenContinue, GenSendFails, GenNext,
                  GenExhausted, GenReadError, GenReport, LeaveLoop, Worker, Replied, Acquire,
                  EndOfChannel,
                  Discard, Proceed, Granted, Finish, Retry, Wake, Panic, Monitor, MonitorLeaves,
                  MonitorDecides, MonitorJoins, Signal, Returned, vars
    <3>2. QED
      BY <1>2, <3>1
  <2>4. QED
    BY <2>1, <2>2, <2>3
<1>4. HandsRoom'
  <2>g. GenShape
    BY DEF RoomInv, OrderInv, ShapeInv
  <2>1. ASSUME NEW where, gen \in {"top", "next"}, StartSend(where)
        PROVE  HandsRoom'
    BY <2>1, <2>g DEF StartSend, HandsRoom, GenShape
  <2>2. ASSUME UNCHANGED <<pending, buffer>>
        PROVE  HandsRoom'
    BY <2>2 DEF HandsRoom, RoomInv
  <2>3. ASSUME NEW why, gen \in {"top", "next"}, LeaveLoop(why)
        PROVE  HandsRoom'
    BY <2>1, <2>2, <2>3 DEF LeaveLoop
  <2>4. CASE Generator
    <3>1. CASE GenStop \/ GenExhausted \/ GenReadError
      BY <2>3, <3>1 DEF GenStop, GenExhausted, GenReadError
    <3>2. CASE GenFull \/ GenFlush
      BY <2>1, <2>2, <3>2 DEF GenFull, GenFlush, InLoop
    <3>3. CASE GenSend
      BY <3>3 DEF GenSend, HandsRoom
    <3>4. CASE GenNext
      BY <2>g, <3>4 DEF GenNext, HandsRoom, GenShape
    <3>5. CASE GenContinue \/ GenSendFails \/ GenReport
      BY <2>2, <3>5 DEF GenContinue, GenSendFails, GenReport
    <3>6. QED
      BY <2>4, <3>1, <3>2, <3>3, <3>4, <3>5 DEF Generator
  <2>5. CASE ~Generator
    <3>1. UNCHANGED <<pending, buffer>>
      BY <2>5 DEF Next, Worker, Replied, Acquire, Receive, EndOfChannel, Discard, Proceed,
                  Granted, Finish, Retry, Wake, Panic, Monitor, MonitorLeaves, MonitorDecides,
                  MonitorJoins, Signal, Returned, vars, genVars
    <3>2. QED
      BY <2>2, <3>1
  <2>6. QED
    BY <2>4, <2>5
<1>5. QED
  BY <1>1, <1>3, <1>4 DEF RoomInv

\* The channel holds no negative number of events and at most --batch-size for each batch.
LEMMA QueueLoad ==
  ASSUME RoomInv
  PROVE  AfterHeld =< AfterQueue /\ AfterQueue =< AfterHeld + Len(queue) * BatchSize
<1> DEFINE N == Len(queue)
           B == BatchSize
<1>t. queue \in Seq(Seq(Nat)) /\ N \in Nat /\ B \in Nat /\ AfterHeld \in Nat
  BY LineTypes, LineNumbers, PipelineAssumption DEF RoomInv, OrderInv
<1>1. CASE queue = <<>>
  <2>1. N = 0 /\ N * B = 0
    BY <1>t, <1>1
  <2>2. QED
    BY <1>t, <1>1, <2>1 DEF AfterQueue
<1>2. CASE queue # <<>>
  <2>1. 1 \in 1..N /\ N \in 1..N
    BY <1>t, <1>2
  <2>2. queue[1][1] =< queue[N][1] /\ queue[N][1] =< queue[1][1] + (N - 1) * B
    BY <2>1 DEF RoomInv, Span
  <2>3. queue[1][1] = AfterHeld
    BY <1>2 DEF RoomInv, OrderInv, NothingLostOrDuplicated, QueueInOrder
  <2>4. AfterQueue = queue[N][1] + Len(queue[N])
    BY <1>2 DEF AfterQueue
  <2>5. queue[N][1] \in Nat /\ Len(queue[N]) \in Nat /\ Len(queue[N]) =< B
    BY <2>1, FirstNumbers DEF RoomInv
  <2>6. N * B = (N - 1) * B + B /\ (N - 1) * B \in Int
    BY <1>t
  <2> DEFINE P == queue[N][1]
             S == Len(queue[N])
             D == (N - 1) * B
  <2>7. AfterHeld =< P /\ P =< AfterHeld + D /\ S =< B /\ P \in Nat /\ S \in Nat /\ D \in Int
    BY <2>2, <2>3, <2>5, <2>6
  <2>8. AfterHeld =< P + S /\ P + S =< AfterHeld + (D + B)
    <3> HIDE DEF P, S, D, B, N
    <3>1. QED
      BY <1>t, <2>7
  <2>9. QED
    BY <2>4, <2>6, <2>8
<1>3. QED
  BY <1>1, <1>2

LEMMA RoomBound == RoomInv => MemoryBounded
<1> SUFFICES ASSUME RoomInv PROVE MemoryBounded
  OBVIOUS
<1> DEFINE N == Len(queue)
           B == BatchSize
           H == Len(Held)
           G == Len(pending) + Len(buffer)
<1>t. /\ N \in Nat /\ B \in Nat /\ H \in Nat /\ Out \in Nat /\ AfterQueue \in Nat
      /\ pending \in Seq(Nat) /\ buffer \in Seq(Nat) /\ QueueCap \in Nat /\ generated \in Nat
  BY LineTypes, LineNumbers, QueueCapType, PipelineAssumption DEF RoomInv, OrderInv
<1>1. G \in Nat /\ G =< B
  <2>1. Len(pending) \in Nat /\ Len(buffer) \in Nat /\ Len(buffer) =< B
    BY <1>t DEF RoomInv, OrderInv, ShapeInv, GenShape
  <2>2. CASE pending = <<>>
    <3>1. Len(pending) = 0
      BY <2>2
    <3>2. QED
      BY <2>1, <3>1
  <2>3. CASE pending # <<>>
    <3>1. Len(buffer) = 0 /\ Len(pending) =< B
      BY <2>3 DEF RoomInv, HandsRoom
    <3>2. QED
      BY <2>1, <3>1
  <2>4. QED
    BY <2>2, <2>3
<1>2. H =< B
  <2>1. CASE lock = NoWorker
    BY <1>t, <2>1 DEF Held
  <2>2. CASE lock # NoWorker
    <3>1. lock \in Workers /\ Held = batch[lock]
      BY <2>2, LineTypes DEF Held, RoomInv, OrderInv
    <3>2. Busy(lock)
      BY <3>1 DEF RoomInv, OrderInv, ShapeInv, WorkInv, LockInv
    <3>3. CASE wpc[lock] = "recv"
      <4>1. batch[lock] = <<>>
        BY <3>1, <3>3 DEF RoomInv, OrderInv, ShapeInv, WorkInv, HandsInv
      <4>2. QED
        BY <1>t, <3>1, <4>1
    <3>4. CASE wpc[lock] # "recv"
      BY <3>1, <3>2, <3>4 DEF Busy, RoomInv, OrderInv, ShapeInv, HandsShape
    <3>5. QED
      BY <3>3, <3>4
  <2>3. QED
    BY <2>1, <2>2
<1>3. generated = AfterQueue + G - 1
  <2>1. generated = AfterQueue + Len(pending) + Len(buffer) - 1
    BY DEF RoomInv, OrderInv, NothingLostOrDuplicated, AfterPending
  <2>2. Len(pending) \in Nat /\ Len(buffer) \in Nat
    BY <1>t
  <2>3. QED
    BY <1>t, <2>1, <2>2
<1>4. AfterQueue =< Out + 1 + H + N * B
  BY QueueLoad DEF AfterHeld
<1>5. N =< QueueCap
  BY DEF RoomInv
<1>6. N * B =< QueueCap * B /\ N * B \in Nat /\ QueueCap * B \in Nat
  <2> HIDE DEF N, B
  <2>1. QED
    BY <1>t, <1>5
<1>7. (QueueCap + 2) * B = QueueCap * B + B + B
  <2> HIDE DEF B
  <2>1. QED
    BY <1>t
<1>8. generated - Out =< QueueCap * B + B + B
  <2> DEFINE X == N * B
             Y == QueueCap * B
  <2>1. /\ generated = AfterQueue + G - 1 /\ AfterQueue =< Out + 1 + H + X /\ X =< Y
        /\ G =< B /\ H =< B /\ X \in Nat /\ Y \in Nat /\ G \in Nat
    BY <1>1, <1>2, <1>3, <1>4, <1>6
  <2>2. generated - Out =< Y + B + B
    <3> HIDE DEF X, Y, G, H, B
    <3>1. QED
      BY <1>t, <2>1
  <2>3. QED
    BY <2>2
<1>9. QED
  BY <1>5, <1>7, <1>8 DEF MemoryBounded

\* However slow the receiver is, the channel holds at most its capacity and at
\* most two batches more are in memory: one in flight, one in the generator.
THEOREM MemoryBoundedAlways == Spec => []MemoryBounded
BY RoomInit, RoomNext, RoomBound, PTL DEF Spec
-------------------------------------------------------------------------------
(* The end of a run, and what it is to others. *)

\* A worker that returned saw the channel closed and empty.
WorkersDrained == \A w \in Workers : wpc[w] = "done" => queue = <<>> /\ gen = "done"

\* What is dropped is on record: panicked workers lost events, and only the
\* fatal flag discards.
DropsTold ==
  /\ \A w \in Workers : wpc[w] = "panicked" => lost > 0
  /\ discarded > 0 => fatal

\* A generator past its loop keeps nothing back, unless there is no one to
\* take it, and only then adds its count.
GenDrained ==
  /\ gen \in {"report", "done"} =>
       buffer = <<>> /\ (pending # <<>> => \A w \in Workers : wpc[w] = "panicked")
  /\ stats.generated = IF gen = "done" THEN generated ELSE 0

MainLast == main = "done" => gen = "done" /\ ~ReceiverOpen

DrainInv == WorkersDrained /\ DropsTold /\ GenDrained /\ MainLast

LEMMA DrainInit == Init => DrainInv
BY DEF Init, DrainInv, WorkersDrained, DropsTold, GenDrained, MainLast

\* With no receiver left before the generator's end, every worker panicked.
LEMMA NoReceiver ==
  ASSUME DrainInv, ~ReceiverOpen, gen # "done"
  PROVE  \A w \in Workers : wpc[w] = "panicked"
BY DEF ReceiverOpen, Ended, DrainInv, WorkersDrained

LEMMA DrainGenerator ==
  ASSUME ShapeInv, DrainInv, Generator
  PROVE  DrainInv'
<1>t. stats \in StatsType /\ generated \in Nat
  BY LineTypes
<1>1. UNCHANGED <<workerVars, fatal, mainVars>> /\ gen # "done"
  BY DEF Generator, GenStop, GenFull, GenFlush, GenContinue, GenSend, GenSendFails, GenNext,
         GenExhausted, GenReadError, GenReport, LeaveLoop, InLoop
<1>2. WorkersDrained' /\ DropsTold' /\ MainLast'
  BY <1>1 DEF workerVars, mainVars, DrainInv, WorkersDrained, DropsTold, MainLast
<1>3. GenDrained'
  <2> USE <1>1, <1>t DEF workerVars, DrainInv, GenDrained, ShapeInv, GenShape
  <2>1. ASSUME NEW why, gen \in {"top", "next"}, LeaveLoop(why)
        PROVE  GenDrained'
    BY <2>1 DEF LeaveLoop, StartSend
  <2>2. CASE GenStop \/ GenExhausted \/ GenReadError
    BY <2>1, <2>2 DEF GenStop, GenExhausted, GenReadError
  <2>3. CASE GenFull \/ GenFlush \/ GenContinue
    BY <2>3 DEF GenFull, GenFlush, GenContinue, StartSend
  <2>4. CASE GenSend
    BY <2>4 DEF GenSend, AfterSend
  <2>5. CASE GenSendFails
    BY <2>5, NoReceiver DEF GenSendFails
  <2>6. CASE GenNext
    BY <2>6 DEF GenNext
  <2>7. CASE GenReport
    <3>1. stats' = [stats EXCEPT !.generated = @ + generated]
      BY <2>7 DEF GenReport
    <3>2. stats'.generated = generated
      BY <3>1 DEF StatsType
    <3>3. QED
      BY <2>7, <3>2 DEF GenReport
  <2>8. QED
    BY <2>2, <2>3, <2>4, <2>5, <2>6, <2>7 DEF Generator
<1>4. QED
  BY <1>2, <1>3 DEF DrainInv

LEMMA DrainWorker ==
  ASSUME ShapeInv, DrainInv, NEW w \in Workers, Worker(w) \/ Panic(w)
  PROVE  DrainInv'
<1>t. /\ stats \in StatsType /\ lost \in Nat /\ discarded \in Nat /\ fatal \in BOOLEAN
      /\ wpc \in [Workers -> WorkerStates] /\ Len(batch[w]) \in Nat
  BY LineTypes DEF ShapeInv, WorkInv, TypeInv, TypeOK, SharedTypes
<1>1. UNCHANGED <<genVars, mainVars>>
  BY DEF Worker, Replied, Acquire, Receive, EndOfChannel, Discard, Proceed, Granted, Finish,
         Retry, Wake, Panic
<1>2. ReceiverOpen
  BY DEF Worker, Replied, Acquire, Receive, EndOfChannel, Discard, Proceed, Granted, Finish,
         Retry, Wake, Panic, ReceiverOpen, Ended
<1>3. WorkersDrained'
  <2>1. CASE Receive(w)
    BY <1>t, <2>1 DEF Receive, Move, DrainInv, WorkersDrained
  <2>2. CASE EndOfChannel(w)
    BY <1>1, <2>2 DEF EndOfChannel, SenderOpen, WorkersDrained, genVars
  <2>3. CASE ~Receive(w) /\ ~EndOfChannel(w)
    <3>1. UNCHANGED queue /\ \A v \in Workers : wpc'[v] = "done" => wpc[v] = "done"
      BY <1>t, <2>3 DEF Worker, Replied, Acquire, Discard, Proceed, Granted, Finish, Retry, Wake,
                        Panic, Move, Release
    <3>2. QED
      BY <1>1, <3>1 DEF DrainInv, WorkersDrained, genVars
  <2>4. QED
    BY <2>1, <2>2, <2>3
<1>4. DropsTold' /\ lost' >= lost
  <2>1. CASE Discard(w)
    BY <1>t, <2>1 DEF Discard, Release, Move, DrainInv, DropsTold
  <2>2. CASE Panic(w)
    <3>1. Len(batch[w]) > 0
      BY <2>2, LineTypes DEF Panic, ShapeInv, HandsShape
    <3>2. QED
      BY <1>t, <2>2, <3>1 DEF Panic, Release, Move, DrainInv, DropsTold
  <2>3. CASE ~Discard(w) /\ ~Panic(w)
    <3>1. /\ UNCHANGED <<discarded, lost>> /\ (fatal => fatal')
          /\ \A v \in Workers : wpc'[v] = "panicked" => wpc[v] = "panicked"
      BY <1>t, <2>3 DEF Worker, Replied, Acquire, Receive, EndOfChannel, Proceed, Granted, Finish,
                        Retry, Wake, Move, Release
    <3>2. QED
      BY <1>t, <3>1 DEF DrainInv, DropsTold
  <2>4. QED
    BY <2>1, <2>2, <2>3
<1>5. GenDrained'
  <2>1. stats'.generated = stats.generated
    BY <1>t DEF Worker, Replied, Acquire, Receive, EndOfChannel, Discard, Proceed, Granted, Finish,
                Retry, Wake, Panic, StatsType
  <2>2. ~\A v \in Workers : wpc[v] = "panicked"
    BY <1>2 DEF ReceiverOpen, Ended
  <2>3. QED
    BY <1>1, <2>1, <2>2 DEF genVars, DrainInv, GenDrained
<1>6. MainLast'
  BY <1>1, <1>2 DEF mainVars, DrainInv, MainLast
<1>7. QED
  BY <1>3, <1>4, <1>5, <1>6 DEF DrainInv

LEMMA DrainNext == ShapeInv /\ DrainInv /\ [Next]_vars => DrainInv'
<1> SUFFICES ASSUME ShapeInv, DrainInv, [Next]_vars PROVE DrainInv'
  OBVIOUS
<1>1. CASE Generator
  BY <1>1, DrainGenerator
<1>2. CASE \E w \in Workers : Worker(w) \/ Panic(w)
  BY <1>2, DrainWorker
<1>3. CASE Monitor \/ Signal \/ Returned \/ UNCHANGED vars
  <2>1. UNCHANGED <<genVars, queue, workerVars, fatal, stats>>
    BY <1>3 DEF Monitor, MonitorLeaves, MonitorDecides, MonitorJoins, Signal, Returned, vars
  <2>2. WorkersDrained' /\ DropsTold' /\ GenDrained'
    BY <2>1 DEF genVars, workerVars, DrainInv, WorkersDrained, DropsTold, GenDrained
  <2>3. MainLast'
    <3>1. gen' = gen /\ wpc' = wpc
      BY <2>1 DEF genVars, workerVars
    <3>2. CASE MonitorJoins
      BY <3>1, <3>2 DEF MonitorJoins, MainLast, ReceiverOpen, Ended
    <3>3. CASE ~MonitorJoins
      <4>1. main' = "done" => main = "done"
        BY <1>3, <3>3 DEF Monitor, MonitorLeaves, MonitorDecides, Signal, Returned, vars, mainVars
      <4>2. QED
        BY <3>1, <4>1 DEF DrainInv, MainLast, ReceiverOpen, Ended
    <3>4. QED
      BY <3>2, <3>3
  <2>4. QED
    BY <2>2, <2>3 DEF DrainInv
<1>4. QED
  BY <1>1, <1>2, <1>3 DEF Next

LEMMA DrainAlways == Spec => [](RoomInv /\ DrainInv)
<1>1. RoomInv => ShapeInv
  BY DEF RoomInv, OrderInv
<1>2. QED
  BY <1>1, RoomInit, RoomNext, DrainInit, DrainNext, PTL DEF Spec
-------------------------------------------------------------------------------
\* With all the tasks ended, and one of them not by a panic, nothing is anywhere but
\* in the counters.
LEMMA AllAccounted ==
  ASSUME RoomInv, DrainInv, gen = "done", ~ReceiverOpen, \E w \in Workers : wpc[w] = "done"
  PROVE  generated = Out /\ queue = <<>> /\ pending = <<>> /\ buffer = <<>>
<1>t. /\ Out \in Nat /\ generated \in Nat /\ lock \in Workers \cup {NoWorker}
      /\ NoWorker \notin Workers
  BY LineTypes DEF RoomInv, OrderInv
<1>1. queue = <<>>
  BY DEF DrainInv, WorkersDrained
<1>2. pending = <<>> /\ buffer = <<>>
  BY DEF DrainInv, GenDrained
<1>3. Held = <<>>
  <2>1. \A w \in Workers : ~Busy(w)
    BY DEF ReceiverOpen, Ended, Busy
  <2>2. lock = NoWorker
    BY <1>t, <2>1 DEF RoomInv, OrderInv, ShapeInv, WorkInv, LockInv
  <2>3. QED
    BY <2>2 DEF Held
<1>4. Len(Held) = 0 /\ Len(pending) = 0 /\ Len(buffer) = 0
  BY <1>2, <1>3
<1>5. generated = Out + 1 + 0 + 0 + 0 - 1
  BY <1>1, <1>4 DEF RoomInv, OrderInv, NothingLostOrDuplicated, AfterPending, AfterQueue, AfterHeld
<1>6. QED
  BY <1>t, <1>1, <1>2, <1>5

\* If one worker lives, a run ends with nothing left behind, whatever became of the others;
\* and one that hit no fatal error and lost no worker ends with every event it generated
\* counted as sent or failed, and a summary that says so: however the generator came to
\* its end.
THEOREM CleanRunAddsUpAlways == Spec => []CleanRunAddsUp
<1>1. ASSUME RoomInv, DrainInv PROVE CleanRunAddsUp
  <2> SUFFICES ASSUME main = "done"
               PROVE  /\ (\E w \in Workers : wpc[w] = "done") =>
                           queue = <<>> /\ pending = <<>> /\ buffer = <<>> /\ Out = generated
                      /\ ~fatal /\ lost = 0 =>
                           stats.generated = generated /\ stats.sent + stats.failed = generated
    BY DEF CleanRunAddsUp
  <2>1. gen = "done" /\ ~ReceiverOpen
    BY <1>1 DEF DrainInv, MainLast
  <2>2. (\E w \in Workers : wpc[w] = "done") =>
          generated = Out /\ queue = <<>> /\ pending = <<>> /\ buffer = <<>>
    BY <1>1, <2>1, AllAccounted
  <2>3. ASSUME ~fatal, lost = 0 PROVE stats.generated = generated /\ stats.sent + stats.failed = generated
    <3>1. \E w \in Workers : wpc[w] = "done"
      <4>1. \A w \in Workers : wpc[w] \in {"done", "panicked"}
        BY <2>1 DEF ReceiverOpen, Ended
      <4>2. \A w \in Workers : wpc[w] # "panicked"
        BY <1>1, <2>3 DEF DrainInv, DropsTold
      <4>3. QED
        BY <4>1, <4>2, PipelineAssumption
    <3>2. discarded = 0
      <4>1. discarded \in Nat
        BY <1>1, LineTypes DEF RoomInv, OrderInv
      <4>2. QED
        BY <1>1, <2>3, <4>1 DEF DrainInv, DropsTold
    <3>3. stats.sent \in Nat /\ stats.failed \in Nat
      BY <1>1, LineTypes, StatsFields DEF RoomInv, OrderInv
    <3>4. Out = stats.sent + stats.failed
      BY <2>3, <3>2, <3>3 DEF Out
    <3>5. stats.generated = generated
      BY <1>1, <2>1 DEF DrainInv, GenDrained
    <3>6. QED
      BY <2>2, <3>1, <3>4, <3>5
  <2>4. QED
    BY <2>2, <2>3
<1>2. QED
  BY <1>1, DrainAlways, PTL
-------------------------------------------------------------------------------
(* The refinement: every step of every task is a step of the ledger or      *)
(* leaves it as it is.                                                     *)

\* The ledger's open events are those in memory: at least the batch in flight.
LEMMA OpenEvents ==
  ASSUME RoomInv
  PROVE  /\ L!Open = generated - Out /\ L!Open \in Nat
         /\ Len(Held) =< L!Open
<1>1. /\ Out \in Nat /\ Len(Held) \in Nat /\ AfterQueue \in Nat /\ generated \in Nat
      /\ pending \in Seq(Nat) /\ buffer \in Seq(Nat)
  BY LineTypes, LineNumbers DEF RoomInv, OrderInv
<1>2. Len(pending) \in Nat /\ Len(buffer) \in Nat
  BY <1>1
<1>3. generated = AfterQueue + Len(pending) + Len(buffer) - 1
  BY DEF RoomInv, OrderInv, NothingLostOrDuplicated, AfterPending
<1>4. Out + 1 + Len(Held) =< AfterQueue
  BY QueueLoad DEF AfterHeld
<1>5. L!Open = generated - Out
  BY DEF L!Open, Out
<1>6. QED
  BY <1>1, <1>2, <1>3, <1>4, <1>5

LEMMA LedgerInit == Init => L!Init
BY DEF Init, L!Init

LEMMA LedgerGenerator ==
  ASSUME RoomInv, DrainInv, Generator
  PROVE  [L!Next]_L!vars
<1>1. UNCHANGED <<workerVars, fatal, mainVars>> /\ gen # "done"
  BY DEF Generator, GenStop, GenFull, GenFlush, GenContinue, GenSend, GenSendFails, GenNext,
         GenExhausted, GenReadError, GenReport, LeaveLoop, InLoop
<1>2. CASE GenNext
  <2>1. main # "done"
    BY <1>1 DEF DrainInv, MainLast
  <2>2. generated < Lines
    BY <1>2 DEF GenNext, RoomInv, OrderInv, ShapeInv, WorkInv, TypeInv, GenRoom
  <2>3. L!Make
    BY <1>1, <1>2, <2>1, <2>2 DEF GenNext, L!Make, workerVars, mainVars
  <2>4. QED
    BY <2>3 DEF L!Next
<1>3. CASE ~GenNext
  <2>1. UNCHANGED generated
    BY <1>3 DEF Generator, GenStop, GenFull, GenFlush, GenContinue, GenSend, GenSendFails,
                GenExhausted, GenReadError, GenReport, LeaveLoop
  <2>2. stats'.sent = stats.sent /\ stats'.failed = stats.failed
    <3>1. stats \in StatsType
      BY LineTypes DEF RoomInv, OrderInv
    <3>2. CASE GenReport
      BY <3>1, <3>2 DEF GenReport, StatsType
    <3>3. CASE ~GenReport
      BY <1>3, <3>3 DEF Generator, GenStop, GenFull, GenFlush, GenContinue, GenSend, GenSendFails,
                        GenExhausted, GenReadError, LeaveLoop
    <3>4. QED
      BY <3>2, <3>3
  <2>3. QED
    BY <1>1, <2>1, <2>2 DEF L!vars, workerVars, mainVars
<1>4. QED
  BY <1>2, <1>3

\* A worker with a batch in its hands holds an open batch of the ledger.
LEMMA HandsOpen ==
  ASSUME RoomInv, NEW w \in Workers, wpc[w] \in {"taken", "limit", "send", "sleep"}
  PROVE  Len(batch[w]) \in 1..BatchSize /\ Len(batch[w]) =< L!Open
<1>1. lock = w /\ Held = batch[w]
  BY PipelineAssumption DEF RoomInv, OrderInv, ShapeInv, WorkInv, LockInv, Busy, Held
<1>2. batch[w] \in Seq(Nat) /\ batch[w] # <<>> /\ Len(batch[w]) =< BatchSize
  BY LineTypes DEF RoomInv, OrderInv, ShapeInv, HandsShape
<1>3. Len(batch[w]) \in Nat \ {0}
  BY <1>2
<1>4. QED
  BY <1>1, <1>2, <1>3, OpenEvents, PipelineAssumption

LEMMA LedgerWorker ==
  ASSUME RoomInv, DrainInv, NEW w \in Workers, Worker(w) \/ Panic(w)
  PROVE  [L!Next]_L!vars
<1>t. /\ stats \in StatsType /\ stats.sent \in Nat /\ stats.failed \in Nat
      /\ fatal \in BOOLEAN
  BY LineTypes, StatsFields DEF RoomInv, OrderInv, ShapeInv, WorkInv, TypeInv, TypeOK, SharedTypes
<1>1. UNCHANGED <<genVars, mainVars>>
  BY DEF Worker, Replied, Acquire, Receive, EndOfChannel, Discard, Proceed, Granted, Finish,
         Retry, Wake, Panic
<1>2. main # "done"
  <2>1. ReceiverOpen
    BY DEF Worker, Replied, Acquire, Receive, EndOfChannel, Discard, Proceed, Granted, Finish,
           Retry, Wake, Panic, ReceiverOpen, Ended
  <2>2. QED
    BY <2>1 DEF DrainInv, MainLast
<1>3. ASSUME wpc[w] = "send"
      PROVE  ~fatal
  BY <1>3 DEF RoomInv, OrderInv, ShapeInv, WorkInv, HandsInv
<1> DEFINE n == Len(batch[w])
<1>4. CASE Discard(w)
  <2>1. n \in 1..BatchSize /\ n =< L!Open
    BY <1>4, HandsOpen DEF Discard
  <2>2. L!Discard(n)
    BY <1>1, <1>2, <1>4, <2>1 DEF Discard, L!Discard, genVars, mainVars
  <2>3. QED
    BY <2>1, <2>2 DEF L!Next
<1>5. CASE Panic(w)
  <2>1. n \in 1..BatchSize /\ n =< L!Open
    BY <1>5, HandsOpen DEF Panic
  <2>2. L!Crash(n)
    BY <1>1, <1>2, <1>3, <1>5, <2>1 DEF Panic, L!Crash, genVars, mainVars
  <2>3. QED
    BY <2>1, <2>2 DEF L!Next
<1>6. ASSUME NEW r \in Results(n), Finish(w, r)
      PROVE  [L!Next]_L!vars
  <2>1. n \in 1..BatchSize /\ n =< L!Open /\ n \in Nat
    BY <1>6, HandsOpen DEF Finish
  <2>2. /\ r \in BatchResult
        /\ SentCount(r, n) \in Nat /\ FailedCount(r, n) \in Nat
        /\ SentCount(r, n) + FailedCount(r, n) = n /\ FailedCount(r, n) = r.failed
    BY <2>1, CountsCoverBatch
  <2>3. stats' = [stats EXCEPT !.sent = @ + SentCount(r, n), !.failed = @ + FailedCount(r, n)]
    BY <1>6 DEF Finish
  <2>4. /\ stats'.sent = stats.sent + SentCount(r, n)
        /\ stats'.failed = stats.failed + FailedCount(r, n)
    BY <1>t, <2>3 DEF StatsType
  <2> DEFINE f == r.failed
  <2>5. f \in 0..n /\ SentCount(r, n) = n - f
    BY <2>1, <2>2
  <2>6. fatal' \in {FALSE, f > 0}
    <3>1. fatal' = (fatal \/ AbortsRun(r, FailFast))
      BY <1>6 DEF Finish
    <3>2. CASE AbortsRun(r, FailFast)
      <4>1. f > 0
        BY <2>2, <3>2 DEF AbortsRun, Settled, BatchResult
      <4>2. fatal' = TRUE
        BY <3>1, <3>2
      <4>3. QED
        BY <4>1, <4>2
    <3>3. CASE ~AbortsRun(r, FailFast)
      <4>1. ~fatal
        BY <1>3, <1>6 DEF Finish
      <4>2. fatal' = FALSE
        BY <3>1, <3>3, <4>1
      <4>3. QED
        BY <4>2
    <3>4. QED
      BY <3>2, <3>3
  <2>7. L!Settle(n, f)
    BY <1>1, <1>2, <1>3, <1>6, <2>1, <2>2, <2>4, <2>5, <2>6
       DEF Finish, L!Settle, genVars, mainVars
  <2>8. QED
    BY <2>1, <2>5, <2>7 DEF L!Next
<1>7. ASSUME NEW r \in Results(n), Retry(w, r)
      PROVE  UNCHANGED L!vars
  <2>1. stats'.sent = stats.sent /\ stats'.failed = stats.failed
    BY <1>7, <1>t DEF Retry, StatsType
  <2>2. QED
    BY <1>1, <1>7, <2>1 DEF Retry, L!vars, genVars, mainVars
<1>8. CASE Acquire(w) \/ Receive(w) \/ EndOfChannel(w) \/ Proceed(w) \/ Granted(w) \/ Wake(w)
  BY <1>1, <1>8 DEF Acquire, Receive, EndOfChannel, Proceed, Granted, Wake, L!vars, genVars, mainVars
<1>9. QED
  BY <1>4, <1>5, <1>6, <1>7, <1>8 DEF Worker, Replied

LEMMA LedgerMain ==
  ASSUME RoomInv, DrainInv, Monitor \/ Signal \/ Returned \/ UNCHANGED vars
  PROVE  [L!Next]_L!vars
<1>1. UNCHANGED <<genVars, queue, workerVars, fatal, stats>>
  BY DEF Monitor, MonitorLeaves, MonitorDecides, MonitorJoins, Signal, Returned, vars
<1>2. CASE MonitorJoins
  <2>1. gen = "done" /\ ~ReceiverOpen /\ main = "join" /\ main' = "done"
    BY <1>2 DEF MonitorJoins
  <2>2. L!Open = 0 \/ lost > 0
    <3>1. CASE lost = 0
      <4>1. \E w \in Workers : wpc[w] = "done"
        <5>1. \A w \in Workers : wpc[w] \in {"done", "panicked"}
          BY <2>1 DEF ReceiverOpen, Ended
        <5>2. \A w \in Workers : wpc[w] # "panicked"
          BY <3>1 DEF DrainInv, DropsTold
        <5>3. QED
          BY <5>1, <5>2, PipelineAssumption
      <4>2. generated = Out /\ L!Open = generated - Out /\ Out \in Nat
        BY <2>1, <4>1, AllAccounted, OpenEvents, LineTypes DEF RoomInv, OrderInv
      <4>3. QED
        BY <4>2
    <3>2. CASE lost # 0
      BY <3>2, LineTypes DEF RoomInv, OrderInv
    <3>3. QED
      BY <3>1, <3>2
  <2>3. L!Close
    BY <1>1, <2>1, <2>2 DEF L!Close, genVars, workerVars
  <2>4. QED
    BY <2>3 DEF L!Next
<1>3. CASE ~MonitorJoins
  <2>1. (main' = "done") = (main = "done")
    BY <1>3 DEF Monitor, MonitorLeaves, MonitorDecides, Signal, Returned, vars, mainVars
  <2>2. QED
    BY <1>1, <2>1 DEF L!vars, genVars, workerVars
<1>4. QED
  BY <1>2, <1>3

\* Whatever the number of tasks and their interleaving, what a run does to its
\* events is what Ledger promises: each is settled once and in the order it was
\* made, nothing is settled after the fatal error, a panic loses one batch, and
\* the run does not end with an open event unless a worker crashed.
THEOREM KeepsLedgerAlways == Spec => KeepsLedger
<1>1. RoomInv /\ DrainInv /\ [Next]_vars => [L!Next]_L!vars
  BY LedgerGenerator, LedgerWorker, LedgerMain DEF Next
<1>2. QED
  BY <1>1, LedgerInit, DrainAlways, PTL DEF Spec, KeepsLedger, L!Spec
-------------------------------------------------------------------------------
(* The progress reporter: the counters only grow, and a line lies between  *)
(* the line before it and the counters.                                    *)

LEMMA StatsGrow ==
  ASSUME TypeInv, [Next]_vars
  PROVE  /\ stats \in StatsType /\ stats' \in StatsType
         /\ stats.generated =< stats'.generated
         /\ stats.sent =< stats'.sent
         /\ stats.failed =< stats'.failed
<1>1. stats \in StatsType /\ stats' \in StatsType
  BY TypeNext DEF TypeInv, TypeOK, SharedTypes, StatsType
<1>2. CASE UNCHANGED stats
  BY <1>1, <1>2 DEF StatsType
<1>3. CASE GenReport
  <2>1. generated \in Nat
    BY PipelineAssumption DEF TypeInv, TypeOK, GenTypes
  <2>2. stats' = [stats EXCEPT !.generated = @ + generated]
    BY <1>3 DEF GenReport
  <2>3. QED
    BY <1>1, <2>1, <2>2 DEF StatsType
<1>4. ASSUME NEW w \in Workers, NEW r \in Results(Len(batch[w])), Finish(w, r) \/ Retry(w, r)
      PROVE  /\ stats.generated =< stats'.generated
             /\ stats.sent =< stats'.sent
             /\ stats.failed =< stats'.failed
  <2>1. Len(batch[w]) \in Nat
    BY DEF TypeInv, TypeOK, WorkerTypes
  <2>2. SentCount(r, Len(batch[w])) \in Nat /\ FailedCount(r, Len(batch[w])) \in Nat
    BY <2>1, CountsCoverBatch
  <2>3. CASE Finish(w, r)
    <3>1. stats' = [stats EXCEPT !.sent = @ + SentCount(r, Len(batch[w])),
                                 !.failed = @ + FailedCount(r, Len(batch[w]))]
      BY <2>3 DEF Finish
    <3>2. QED
      BY <1>1, <2>2, <3>1 DEF StatsType
  <2>4. CASE Retry(w, r)
    <3>1. stats' = [stats EXCEPT !.retried = @ + Len(batch[w])]
      BY <2>4 DEF Retry
    <3>2. QED
      BY <1>1, <3>1 DEF StatsType
  <2>5. QED
    BY <1>4, <2>3, <2>4
<1>5. CASE Generator /\ ~GenReport
  BY <1>2, <1>5 DEF Generator, GenStop, GenFull, GenFlush, GenContinue, GenSend, GenSendFails,
                    GenNext, GenExhausted, GenReadError, LeaveLoop
<1>6. ASSUME NEW w \in Workers, Worker(w) \/ Panic(w), ~Replied(w)
      PROVE  UNCHANGED stats
  BY <1>6 DEF Worker, Panic, Acquire, Receive, EndOfChannel, Discard, Proceed, Granted, Wake
<1>7. CASE Monitor \/ Signal \/ Returned \/ UNCHANGED vars
  BY <1>2, <1>7 DEF Monitor, MonitorLeaves, MonitorDecides, MonitorJoins, Signal, Returned, vars
<1>8. CASE \E w \in Workers : Worker(w) \/ Panic(w)
  <2>1. PICK w \in Workers : Worker(w) \/ Panic(w)
    BY <1>8
  <2>2. CASE Replied(w)
    <3>1. PICK r \in Results(Len(batch[w])) : Finish(w, r) \/ Retry(w, r)
      BY <2>2 DEF Replied
    <3>2. QED
      BY <1>1, <1>4, <3>1
  <2>3. CASE ~Replied(w)
    <3>1. UNCHANGED stats
      BY <1>6, <2>1, <2>3
    <3>2. QED
      BY <1>2, <3>1
  <2>4. QED
    BY <2>2, <2>3
<1>9. QED
  BY <1>1, <1>3, <1>5, <1>7, <1>8 DEF Next

LineType == [generated : Nat, sent : Nat, failed : Nat]

\* What is printed or loaded was in the counters once, and what is loaded is no less than
\* what was printed before.
LineInv ==
  /\ TypeInv
  /\ line \in LineType /\ loaded \in LineType
  /\ line.generated =< stats.generated /\ line.sent =< stats.sent /\ line.failed =< stats.failed
  /\ rep \in {"sent", "failed"} =>
       line.generated =< loaded.generated /\ loaded.generated =< stats.generated
  /\ rep = "failed" => line.sent =< loaded.sent /\ loaded.sent =< stats.sent

LineGrows ==
  line.generated =< line'.generated /\ line.sent =< line'.sent /\ line.failed =< line'.failed

LEMMA LineInit == Init /\ ReporterInit => LineInv
BY TypeInit DEF Init, ReporterInit, LineInv, LineType, Blank

\* A step of the run: the counters may grow.
LEMMA LineOfRun ==
  ASSUME LineInv, [Next]_vars, UNCHANGED reporterVars
  PROVE  LineInv' /\ LineGrows
<1>1. TypeInv' /\ stats \in StatsType /\ stats' \in StatsType
  BY TypeNext, StatsGrow DEF LineInv
<1>2. stats.generated =< stats'.generated /\ stats.sent =< stats'.sent /\ stats.failed =< stats'.failed
  BY StatsGrow DEF LineInv
<1>3. rep' = rep /\ loaded' = loaded /\ line' = line
  BY DEF reporterVars
<1>4. QED
  BY <1>1, <1>2, <1>3 DEF LineInv, LineType, StatsType, LineGrows

\* A step of the reporter: the counters stay.
LEMMA LineOfReporter ==
  ASSUME LineInv, Report
  PROVE  LineInv' /\ LineGrows
<1>1. UNCHANGED vars
  BY DEF Report, LoadGenerated, LoadSent, PrintLine, Leave
<1>2. TypeInv' /\ stats' = stats /\ stats \in StatsType
  BY <1>1, TypeNext, StatsGrow DEF LineInv, vars
<1>3. CASE LoadGenerated
  BY <1>2, <1>3 DEF LoadGenerated, LineInv, LineType, StatsType, LineGrows
<1>4. CASE LoadSent
  BY <1>2, <1>4 DEF LoadSent, LineInv, LineType, StatsType, LineGrows
<1>5. CASE PrintLine
  BY <1>2, <1>5 DEF PrintLine, LineInv, LineType, StatsType, LineGrows, Blank
<1>6. CASE Leave
  BY <1>2, <1>6 DEF Leave, LineInv, LineType, StatsType, LineGrows
<1>7. QED
  BY <1>3, <1>4, <1>5, <1>6 DEF Report

\* No counter goes back from line to line, nor from the last line to the summary (LinesGrow).
THEOREM LinesGrowAlways == ReporterSpec => LinesGrow
<1>1. LineInv /\ [ReporterNext]_<<vars, reporterVars>> => LineInv' /\ LineGrows
  <2>1. UNCHANGED <<vars, reporterVars>> => [Next]_vars /\ UNCHANGED reporterVars
    OBVIOUS
  <2>2. QED
    BY <2>1, LineOfRun, LineOfReporter DEF ReporterNext
<1>2. LineInv /\ LineGrows => [\A c \in DOMAIN line : line[c] =< line'[c]]_line
  BY DEF LineInv, LineType, LineGrows
<1>3. LineInv => (main = "done" => \A c \in DOMAIN line : line[c] =< stats[c])
  BY DEF LineInv, LineType
<1>4. LineInv /\ [ReporterNext]_<<vars, reporterVars>>
        => [\A c \in DOMAIN line : line[c] =< line'[c]]_line
  BY <1>1, <1>2
<1>5. QED
  BY LineInit, <1>1, <1>3, <1>4, PTL DEF ReporterSpec, LinesGrow
-------------------------------------------------------------------------------
(* A line adds up: what it shows as generated, if anything, is the final   *)
(* count, which nothing settled later can exceed.                          *)

FinalCount ==
  rep \in {"sent", "failed"} /\ loaded.generated # 0 =>
    gen = "done" /\ loaded.generated = generated

TallyInv == LineInv /\ RoomInv /\ DrainInv /\ FinalCount /\ LineAddsUp

LEMMA TallyInit == Init /\ ReporterInit => TallyInv
BY LineInit, RoomInit, DrainInit
   DEF ReporterInit, TallyInv, FinalCount, LineAddsUp, Blank

\* The generator's count is final when it is done.
LEMMA CountFinal ==
  ASSUME [Next]_vars, gen = "done"
  PROVE  UNCHANGED <<gen, generated>>
<1>1. ~Generator
  BY DEF Generator, GenStop, GenFull, GenFlush, GenContinue, GenSend, GenSendFails, GenNext,
         GenExhausted, GenReadError, GenReport, LeaveLoop, InLoop
<1>2. QED
  BY <1>1 DEF Next, Worker, Replied, Acquire, Receive, EndOfChannel, Discard, Proceed, Granted,
              Finish, Retry, Wake, Panic, Monitor, MonitorLeaves, MonitorDecides, MonitorJoins,
              Signal, Returned, vars, genVars

\* No more is settled than was generated.
LEMMA SettledGenerated ==
  ASSUME RoomInv
  PROVE  stats.sent + stats.failed =< generated
<1>1. /\ stats.sent \in Nat /\ stats.failed \in Nat /\ discarded \in Nat /\ lost \in Nat
      /\ generated \in Nat
  BY LineTypes, StatsFields DEF RoomInv, OrderInv
<1>2. generated - Out \in Nat
  BY OpenEvents
<1>3. QED
  BY <1>1, <1>2 DEF Out

LEMMA TallyOfRun ==
  ASSUME TallyInv, [Next]_vars, UNCHANGED reporterVars
  PROVE  TallyInv'
<1>1. LineInv' /\ RoomInv' /\ DrainInv'
  BY LineOfRun, RoomNext, DrainNext DEF TallyInv, RoomInv, OrderInv
<1>2. FinalCount' /\ LineAddsUp'
  BY CountFinal DEF TallyInv, FinalCount, LineAddsUp, reporterVars
<1>3. QED
  BY <1>1, <1>2 DEF TallyInv

LEMMA TallyOfReporter ==
  ASSUME TallyInv, Report
  PROVE  TallyInv'
<1>1. UNCHANGED vars
  BY DEF Report, LoadGenerated, LoadSent, PrintLine, Leave
<1>2. LineInv' /\ RoomInv' /\ DrainInv'
  BY <1>1, LineOfReporter, RoomNext, DrainNext DEF TallyInv, RoomInv, OrderInv
<1>3. UNCHANGED <<gen, generated>>
  BY <1>1 DEF vars, genVars
<1>t. /\ loaded \in LineType /\ stats \in StatsType /\ generated \in Nat
  BY LineTypes DEF TallyInv, LineInv, RoomInv, OrderInv
<1>4. CASE LoadGenerated
  <2>1. loaded'.generated = stats.generated
    BY <1>t, <1>4 DEF LoadGenerated, LineType
  <2>2. stats.generated # 0 => gen = "done" /\ stats.generated = generated
    BY DEF TallyInv, DrainInv, GenDrained
  <2>3. FinalCount' /\ LineAddsUp'
    BY <1>3, <1>4, <2>1, <2>2 DEF LoadGenerated, FinalCount, TallyInv, LineAddsUp
  <2>4. QED
    BY <1>2, <2>3 DEF TallyInv
<1>5. CASE LoadSent
  <2>1. loaded'.generated = loaded.generated
    BY <1>t, <1>5 DEF LoadSent, LineType
  <2>2. FinalCount' /\ LineAddsUp'
    BY <1>3, <1>5, <2>1 DEF LoadSent, TallyInv, FinalCount, LineAddsUp
  <2>3. QED
    BY <1>2, <2>2 DEF TallyInv
<1>6. CASE PrintLine
  <2>1. /\ line'.generated = loaded.generated /\ line'.sent = loaded.sent
        /\ line'.failed = stats.failed
    BY <1>t, <1>6 DEF PrintLine, LineType
  <2>2. loaded.sent \in Nat /\ loaded.sent =< stats.sent
    BY <1>t, <1>6 DEF PrintLine, TallyInv, LineInv, LineType
  <2>3. stats.sent + stats.failed =< generated /\ stats.sent \in Nat /\ stats.failed \in Nat
    BY <1>t, SettledGenerated, StatsFields DEF TallyInv
  <2>4. LineAddsUp'
    <3>1. loaded.generated # 0 => loaded.generated = generated
      BY <1>6 DEF PrintLine, TallyInv, FinalCount
    <3>2. loaded.sent + stats.failed =< generated
      BY <1>t, <2>2, <2>3
    <3>3. QED
      BY <2>1, <3>1, <3>2 DEF LineAddsUp
  <2>5. FinalCount'
    BY <1>6 DEF PrintLine, FinalCount
  <2>6. QED
    BY <1>2, <2>4, <2>5 DEF TallyInv
<1>7. CASE Leave
  <2>1. FinalCount' /\ LineAddsUp'
    BY <1>7 DEF Leave, FinalCount, TallyInv, LineAddsUp
  <2>2. QED
    BY <1>2, <2>1 DEF TallyInv
<1>8. QED
  BY <1>4, <1>5, <1>6, <1>7 DEF Report

\* Though its counters are read at three moments between which the workers and
\* the generator go on, a line that shows a number of events generated never
\* shows more than that as sent and failed.
THEOREM LineAddsUpAlways == ReporterSpec => []LineAddsUp
<1>1. TallyInv /\ [ReporterNext]_<<vars, reporterVars>> => TallyInv'
  <2>1. UNCHANGED <<vars, reporterVars>> => [Next]_vars /\ UNCHANGED reporterVars
    OBVIOUS
  <2>2. QED
    BY <2>1, TallyOfRun, TallyOfReporter DEF ReporterNext
<1>2. TallyInv => LineAddsUp
  BY DEF TallyInv
<1>3. QED
  BY TallyInit, <1>1, <1>2, PTL DEF ReporterSpec
===============================================================================
