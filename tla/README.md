# Verification of logpushi

logpushi replays or synthesises log lines and pushes them in batches to Splunk
HEC, to an OTLP collector or to standard output. This directory holds TLA+
models of the program from its command line to its exit code, of its send
pipeline and of its event sources, the TLC configurations that check them on
small instances, and TLAPS proofs of the properties that matter most, for every
value of the parameters.

All references are to the repository: `pipeline.rs` is `src/pipeline.rs`, and
so on.

## 1. The system

| Component | Code | State | Operations | Talks to |
|---|---|---|---|---|
| Generator task | `pipeline.rs` 279-354 | `buffer`, `flush_at`, `generated` | read a line, flush when full or due, final flush, report counts | calls the source; sends to the channel; reads the stop flags |
| Channel | `pipeline.rs` 259-263 | bounded FIFO of batches, `max(workers*2, 4)` | `send().await`, `recv().await` | generator, workers |
| Workers | `pipeline.rs` 360-389 | batch in hand; mutex around the receiver | receive, drop (fatal), wait for the limiter, dispatch | channel, limiter, transport, `Stats`, fatal flag |
| Dispatch with retry | `pipeline.rs` 203-245, 87-95 | attempt counter | send, count, retry, pause, raise fatal | transport, `Stats`, fatal flag |
| Rate limiter | `pipeline.rs` 29-85 | `tokens`, `last` behind a mutex | `wait(n)`, `wait_duration(n)` | workers, clock |
| Transports | `transport/*.rs` | HTTP client (stateless per batch) | `send(batch)` -> `BatchResult` | receiver |
| Main task | `pipeline.rs` 255-296, 421-461 | `aborted`, join handles | monitor, decide, raise the watch, join, summarise | everybody |
| Signal task | `pipeline.rs` 268-276 | shutdown watch | first Ctrl-C | watch |
| Progress reporter | `pipeline.rs` 392-419 | ticker | print a snapshot | `Stats`, watch |
| Statistics | `stats.rs` | nine atomic counters | add, snapshot, render | all tasks |
| Event sources | `sampling.rs` | reader, `line_no`, `exhausted`; or file list and generator of random numbers | `next()` | files; called by the generator |
| Discovery | `discovery.rs` | stack of directories, list of files | walk a directory, count lines | the file system; called by sources, `discover`, `validate` |
| Event building | `event.rs` | none | severity, dataset family | generator |
| Timestamps | `timestamp.rs` | none | detect, move, render | generator |
| Configuration | `config.rs`, `cli.rs` | resolved `Config` | merge, parse, validate | command line, environment, file; main |
| Entry | `main.rs` | the command's progress, exit code | parse, discover, validate, resolve, open the source, build the transport, run | all of the above, `pipeline::run` |

What is hard in it: four kinds of task (generator, workers, main, signal) share
a channel, a mutex, a flag, a watch and counters; a batch can be answered,
partly accepted, refused, lost or never answered and is retried on one counter
for all reasons; a send can panic; Ctrl-C arrives at any moment; the run must
still end, count every event once and say truthfully whether it was cut short.
Files may be rotated under the sources, and appear, vanish or lose their
permissions under the walk. The limiter is polled, without a queue. The reporter
loads its counters one by one while they move. A setting may come from four
places, in two of them under names that depend on another setting.

Correctness, per component:

- **Pipeline**: no event lost, duplicated or overtaken on its way from the
  source to the counters; batches within size; at the end of a clean run the
  counters add up; one live worker leaves nothing behind; bounded memory; prompt
  stop; a truthful `aborted`; silence after a fatal error; the run always ends.
- **Dispatch**: each event counted exactly once; nothing counted as sent that
  the receiver did not keep, unless its report was lost; attempts within `--retries`; duplicates only after
  an answer that could not be known; the fatal flag exactly when documented;
  pauses within bounds.
- **Rate limiter**: never more than a batch plus rate times time; nobody sleeps
  through its tokens.
- **Sources**: file order, all lines given with `--no-loop`, no end with
  looping, a source that does not run dry by bad luck.
- **Timestamps**: a rewritten timestamp lies in the window, is read again as
  the second the event was sent with, but for two cases named below, and keeps its
  format from one run to the next; time and severity sent beside the body agree with the body.
- **Reporter**: no line contradicts itself or the one before it; nobody joins
  the reporter, and still it stops whatever ends the run.
- **Configuration**: a place that another precedes never matters; what a run
  takes for granted was asked for; events go to no server that was not named for
  them.
- **Discovery**: the inventory is exact for a corpus at rest, and of any corpus
  free of duplicates and in order.
- **Entry**: the exit code tells what became of the events; reports are
  complete; every command ends.

## 2. Modules

```
Transport  <--  Retry  <--  Dispatch        <-- MCDispatch
                       <--  Pipeline        <-- MCPipeline
                               |  INSTANCE Ledger
Pipeline     <--  Reporter   <-- MCReporter
RateLimiter  <-- MCRateLimiter
Sampling     <-- MCSampling
Timestamp    <--  Wire       <-- MCTimestamp
Settings, Corpus  <--  Main  <-- MCMain

proofs:  TransportProofs <-- DispatchProofs      TransportProofs <-- PipelineProofs (with Reporter)
         CorpusProofs <-- MainProofs             RateLimiterProofs   SamplingProofs   TimestampProofs
```

`Main` sees only the start and the end of `pipeline::run`; what `Pipeline`,
`RateLimiter` and `Transport` assume of their parameters is `RunWellFounded`, a
property of `Main`.

| Module | Models | Correspondence |
|---|---|---|
| `Transport` | `transport/mod.rs`, the decisions of `hec.rs`, `otel.rs`, `stdout.rs` | `SendResult(kind, answer, n)` is the `BatchResult` that `send` builds of each answer: connection error or time-out, status class, JSON object, array or other body for HEC, `partial_success` for OTLP, a write error for stdout. `HonestAnswers` are the answers of a receiver that reports what it stored, and of a network that may lose the request, the answer or the body of the answer (`LostBody`); each carries what was really stored. |
| `Retry` | the arithmetic of `dispatch_with_retry` and `backoff_delay` | when a result settles a batch, when it is given up, how it is counted, whether it aborts the run, how long the pause is |
| `Dispatch` | one call of `dispatch_with_retry` | `Finish`, `RetryNow` (auth), `RetryLater`, `Wake` are the ways through one turn of its loop; the receiver's answer is any of `HonestAnswers` |
| `Pipeline` | `pipeline::run` | `gen` is the generator's place in its loop, `wpc[w]` a worker's; `Gen*` actions are the paths of one turn of the loop, cut at each `.await`; `Acquire`, `Receive`, `Discard`/`Proceed`, `Granted`, `Finish`/`Retry`, `Wake` are a worker's turn; `Monitor*` is the main task after the spawns |
| `Ledger` | nothing of its own: the promise of a run | counters only grow, what is sent or failed was generated before, and the books close once |
| `RateLimiter` | `RateLimiter` | `Grant` and `Nap` are the two branches of `wait_duration`, each atomic under its mutex; `Wake` returns to the loop of `wait` |
| `Sampling` | `ReplaySampler`, `SyntheticSampler` | one action per outcome of `next`; a file is a sequence of line lengths, so offsets are exact |
| `Timestamp` | `timestamp.rs`, `build_event`, `recent_window_span` | `Detected` and `Instant` are the detectors, `ResolveNoYear`, `ParseOffset`, `ReadFraction` their parts, `Render` is `render`, `Transformable` is `transform_json` or else `transform`; a run is one `build_event` (`Replay`, `Rewrite`, `PassThrough`), and the next run reads what it wrote |
| `Wire` | `envelope`, `hec_time`, the times of `to_log_record`, `detect_severity` | functions of an event of `Timestamp`: what each transport tells of it beside its body |
| `Reporter` | the reporter task, `Stats::snapshot` | `LoadGenerated`, `LoadSent`, `PrintLine` are the loads of the counters a line shows, in program order, with any step of the run between two of them; `Leave` is the other branch of `select!`, the end of the watch |
| `Settings` | `config.rs`, `endpoint_url` of both transports, `recent_window_span` for a window in seconds | `Resolve` is the chain command line, environment, file, default; `Meaning` the parsers, `Valid` is `validate`, `Config` the whole of `resolve_config`; `HecUrl`, `OtelUrl` what is posted to |
| `Corpus` | `discovery.rs` | `ReadDir`, `Entry`, `WalkEnds` are the walk, entry by entry; `Change` is somebody else |
| `Main` | `main.rs` | one action for each thing a command does before its next effect: `Usage`, `Survey`, `Listed`, `Count`, `Examine`, `Printed` for `discover` and `validate`; `Configure`, `Pinned`, `Search`, `Drawn`, `Build`, `Run`, `RunEnds` for the two others; whatever prints may panic instead, on a standard output nobody reads (`PrintPanics`) |

Choices that matter:

- *The lock.* In `while let Some(batch) = rx.lock().await.recv().await { ... }`
  the guard is a temporary of the scrutinee and lives through the body. The
  model holds `lock` from `Acquire` to `Release`. That one request at a time is
  in flight is therefore a consequence (`OneBatchInFlight`), not an assumption
  of any other module: `RateLimiter` lets the workers compete.
- *Cuts.* Steps are cut at every `.await` and at every access to something
  shared. The generator's own counter reaches `Stats` only in `GenReport`.
- *Data.* Events are their generation numbers; a batch is a sequence of them.
  The contents of events, URLs, and the wording of errors are left out.
- *Time* is abstract in `Pipeline` (a timer may be due whenever it is armed)
  and discrete in `RateLimiter`, where a unit of tokens is a fraction of an
  event so that the quotients of the `f64` code are whole numbers.
- *Texts.* A timestamp is a record of what the patterns tell apart. A date and
  time in full is the number of seconds it stands for, since printing and
  parsing year, month, day and clock are inverse; one without a year is a day of
  a leap year and a second. Offsets and fractions, where printing and parsing
  are *not* inverse, are modelled digit for digit. A line has one timestamp or
  none. A refused ISO offset (`+01`) is tried where no other detector can find
  a date inside the refused one; with a blank and three decimals Android's can.
- *Settings.* A value that may be missing is a set of at most one element. The
  texts of an option are told apart as far as the code does: well formed, empty,
  garbage, zero, negative, not a number. A URL is the list of what stands between
  its slashes.
- *Corpus.* A path is the list of its names. A directory is listed at one moment;
  an entry's kind comes with the listing, its size and permissions are looked at
  later, as with `DirEntry`. What `open` allows and what the permission bits say
  are two things. A link has a target, or none: `--log-dir` and
  `--file` follow it, the walk passes over it.
- *Wrapping.* `Settings` is the release build, where integer arithmetic wraps.
  The limits of a window (`U64`, `MaxDelta`, `MaxDate`, `MaxNanos`) are scaled
  down; only their order matters.
- *History variables* (`discarded`, `lost`, `late`, `ended`, `signalled`,
  `copies`, `blind`, `auths`, `granted`, `mark`, `given`, `wrapped`, `intact`,
  `runs`, `ran`, `changes`) are read by properties only.

## 3. What is checked

| Run | Instance | Shows |
|---|---|---|
| `Dispatch` | 3 transports, batches of 1-2, four values of `--retries`, both of `--fail-fast`, every sequence of answers | `CountedTruthfully`, `RetriesBounded`, `DuplicatesOnlyBlind`, `FatalIffLostBatch` |
| `Pipeline` | 2 workers, 5 lines, batches of 2, channel of 2, one retry, HEC, Ctrl-C, panics; symmetry in the workers | `OneBatchInFlight`, `NothingLostOrDuplicated`, `BatchesWellSized`, `CleanRunAddsUp` (also: one live worker drains all), `StopsGenerating`, `AbortedTruthfully`, `QuietAfterFatal`, `KeepsLedger` (refinement of `Ledger`) |
| `Pipeline_live` | 2 workers, 6 lines, batches of 1, channel of 3, OTLP, `--fail-fast`, Ctrl-C, panics | `Termination` under fairness; `MemoryBounded` |
| `Reporter` | 1 worker, 3 lines, batches of 2, OTLP with partial success, no retry, `--fail-fast`, Ctrl-C, panics, any number of ticks | `LineAddsUp`, `LinesGrow`, and `ReporterStops` under fairness |
| `RateLimiter` | 2 workers, no limit and a limit of 2/3 event per tick, batches of up to 3, naps of up to 3 ticks, 4 calls, 8 ticks | `RateBound`, `NapsAreTight` |
| `Sampling` | 1-2 files of the shapes in `MCSampling`, an empty `--file`, 5 events, 3 draws before the fallback, one rotation, read errors | `InFileOrder`, `NeverRunsDry`, `EntryAccounted` |
| `Timestamp` | 32 timestamps and 3 numbers, in a plain line, in a JSON field with a known and an unknown name, one or two keywords of severity; zones -5:00, 0 and +5:30; three windows; two runs, up to a year apart, around a new year and 29 February | `ReadsBack`, `DatedInWindow`, `SettlesDown`, `ToldTruthfully` |
| `Main` | about 770 inputs on a small directory, and the four commands on five directories that others change up to twice during the walk | `ShadowedNeverMatters`, `SendsOnlyWhereTold`, `RunWellFounded`, `ExitCodeTells`, `WindowHonoured`, `ReportComplete`, `InventoryTrue`, `CommandEnds` |

Each run checks the `TypeOK` of its module as well, but for `Pipeline_live` and
`Reporter`, whose state is that of `Pipeline`. Some properties are conjunctions of named parts, each
stated where it is defined: `AbortedTruthfully` of `NoFalseAbort` and
`NoSilentTruncation`, `CountedTruthfully` of `EveryEventCounted` and
`SentWasStored`, `RetriesBounded` of `AttemptBudget` and `PauseWithinBounds`,
`NeverRunsDry` of `LoopNeverEnds` and `SyntheticNeverEnds`, `EntryAccounted` of
`NoLoopGivesTheRest` and `LineNoCounts`, `ReadsBack` of `InstantReadsBack` and
`YearReadsBack`, `DatedInWindow` of `InWindow` and `NeverSkipped`,
`ToldTruthfully` of `WireAgrees` and `LoudestLevel`, `InventoryTrue` of
`InventoryExact` and `ListedOnce`, `SendsOnlyWhereTold` of `NamedServersOnly` and
`FullUrlKept`.

Why these bounds are enough. In `Pipeline` five lines with batches of two give
full batches and a partial last one, a channel of two makes the generator
block, two workers contend for the lock, and one retry makes every branch of
the dispatch loop possible. `Pipeline_live` has one line more than the pipeline
can hold (channel + one batch in flight + one in the generator), so the memory
bound bites. In `Dispatch` the retry counts go past the point where the
back-off reaches its cap. In `RateLimiter` the deficit can exceed the longest
nap, and a single event costs more than one tick's refill. In `Sampling` there
are files below and above the size at which a random entry is tried, of one
line and of lines of one byte. In `Timestamp` the drawn instants are the ends
and the middle of the window with three fractions, of which one has leading
zeros in thousandths and in millionths; the start times make the year, the leap
day and the local day differ between reading and writing, and between the zone
and UTC; two runs are needed to see a format settle. `MaxAsks` and `MaxTime` bound the limiter's
clock, `Lines` the run.

`Reporter` has a full and a partial batch, so that between two loads one worker
can finish a batch and the generator report its count; with retries the run is
`Pipeline`'s. In `Main` each of nine options stands well formed, badly formed or
not at all in each of three places, independently; endpoints come from every set
of origins, with every transport and token; URLs have every path that the tests
of the code tell apart, with and without a scheme; windows lie on both sides of
every limit. The five directories (`Nested`, `Odd`, `Small`, `NoDir`, `Linked`) have
subdirectories in and out of order, one that cannot be listed, links to a directory, to a
file and to nothing, as an entry and as the directory itself, files that
are empty, excluded by name, unreadable by mode, by owner or in the middle.
`MaxChanges = 2` is what it takes to remove a file and put another in its place
between listing and looking.

**Fairness.** `FairSpec` assumes that the generator, each worker and the main
task take a step if they can from some point on: the tokio runtime polls every
task that was woken, a tokio mutex is fair, the limiter's naps and the back-off
end, and each request ends since the HTTP client has a time-out. Nothing else is
assumed: Ctrl-C and panics may happen or not. `SlowSpec`, used for `Doc_workers`
only, takes back the assumption that a receiver answers. In `Main`, `FairSpec` assumes
that the program goes on by itself; that a run of the pipeline ends, here a
single step, is `Termination`. `CommandEnds` names one exception: `count_lines`
counts a failed read as a line and reads on (`discovery.rs:123`), so a
`discover --count` of a file whose reads keep failing never ends. Nothing waits for the
reporter, so `Termination` assumes nothing of it. `ReporterStops` assumes `FairReporterSpec`:
a snapshot once begun is printed, and the reporter leaves if the raised watch stays raised.
Strong fairness is meant there, since each tick takes the reporter away from its `select!`;
`select!` polls its branches in random order and ticks are half a second apart, so the watch is not
overlooked for ever.

**Deadlock** is checked in every run: the only states without a proper step are
those where the program has returned (`Returned`, `Finished`, `Ended`, the limiter's `Horizon`).

### Disagreements with the documentation

Each is a run that TLC ends with a counterexample.

| Run | Property | The code | The documents |
|---|---|---|---|
| `Doc_abort` | `AbortReported` | `aborted` is computed before the drain (`pipeline.rs:429`); an auth failure met while draining exits 0 | README 243-245: 2 for a run aborted by a fatal failure |
| `Doc_workers` | `IdleWorkersHelp` | the receiver's guard lives through the loop body (`pipeline.rs:371`); one request in flight | architecture 490: concurrency controls the requests in flight |
| `Doc_auth` | `AuthConfirmed` | one counter for all retries (`pipeline.rs:222`): a 401 after a retried 503 aborts unconfirmed | README 39-40: one confirmation retry before aborting |
| `Doc_bucket` | `WindowRate` | tokens are never capped (`pipeline.rs:62`) | architecture 490: capacity of about one batch |

Met while modelling and not given a run of their own.

The run: the limiter is asked once
per batch and not for its retries (`pipeline.rs:375`; architecture 544);
`Retry-After` replaces the back-off also when shorter (`pipeline.rs:240`;
transport/mod.rs 21); `line_no` counts from the entry point and is 0 for
synthetic events (`sampling.rs:163`; event.rs 15); batches dropped after the
fatal flag are in no counter (`pipeline.rs:372`; architecture 479 counts them as
`not_sent`); the reporter's `generated` stays 0 until the generator ends
(`pipeline.rs:348`); the memory stated at architecture 476 ignores the minimum
of four batches (`pipeline.rs:262`); a 2xx answer whose body breaks off or cannot be decoded counts the whole batch
as sent, whatever the receiver refused (`hec.rs:112`, `otel.rs:316`, 318; `CountedTruthfully`
names it as its exception); an error of the source ends the run with a warning and exit
code 0 (`pipeline.rs:333`), and so does the loss of every worker (305), as
`NoSilentTruncation` says; a HEC answer with an array longer than the
batch is counted in full (`pipeline.rs:219`, outside `HonestAnswers`); the bytes
of a refused batch are counted (`hec.rs:166`).

Sources and timestamps: a random offset that is the start
of a line skips that line (`sampling.rs:219`), and a file that cannot be read
ends a synthetic run that has others (278); dates without a zone are read as
UTC but written in local time by two formats (`timestamp.rs:469`, 606;
architecture 218); a fraction of 4, 5, 7 or more digits, or of 1 or 2 with
leading zeros, is written as another number (287-290; `FractionRead` says which);
in the first hours of a local new year east of Greenwich a date is given
the year before (359; `SecondRead`, against timestamp.rs 350); a JSON number of
seconds is left alone before 2033 (149); `--recent-window now` is the last hour
(`pipeline.rs:186`; architecture 297: a single instant); a negative offset is
taken for UTC (`timestamp.rs:435`), a short fraction gets longer (287), a comma
becomes a point (292), `+0000` a `Z` (298), milliseconds seconds (211), against
architecture 246, rendering must round-trip the original format (`SettlesDown`
says what is left of it); a date up to a day ahead of now is accepted (360;
architecture 217 and timestamp.rs 350: not in the future); `CRITICAL` is looked
for after `WARN` and `NOTICE` (`event.rs:83`), the exception of `LoudestLevel`.

Settings and entry: a flag is on when its key is in the file, whatever its value,
`false` included (`config.rs:339`; README 203); `--host` does not replace a host
found in a syslog line (`hec.rs:56`; cli.rs 131) and is not used for OTLP
(`otel.rs:143`); `logpushi.seed` is always sent as 0 (`otel.rs:249`); `discover`
and `validate` read neither `LOGPUSHI_LOG_DIR` nor the configuration file
(`main.rs:41`; the table of variables in the README); a standard output that was closed makes the
summary panic, with code 101 after a whole run (`main.rs:281`-323; `ExitCodeTells`);
an error of usage exits
with 2 and a panic with 101, which README 243-245 keeps for aborted runs and does
not name; `--quiet` suppresses the summary too (architecture 577); a `--config`
that names no file is passed over in silence (`config.rs:160`); an empty endpoint
or token is accepted from the command line and the file, and not from the
environment; a value of an unsupported type refuses the whole file, also under a
key that the command line shadows; `--otel-protocol grpc` refuses a run of any
transport; a HEC URL that ends in `/services/collector` gets the path once more
(`hec.rs:74`); `readable` passes over files of mode 0600 that this process owns
(`discovery.rs:104`), and a listed file that does not open makes a replay exit
with 1; `validate --file` compares paths as they are spelled; a window wraps
around at 64 bits, is one hour beyond the longest `Duration`, and panics beyond
the first date of the calendar (`config.rs:183`, `pipeline.rs:184` and 188).

## 4. What is proved

Every safety property that a passing run checks is a theorem. All theorems but `ResultsTrue` are of the form `Spec => []Inv` or
`Spec => [][A]_vars` (or `Spec => Abstract!Spec`) and hold for every value of the
constants that satisfies the named assumption of the module. The `TypeOK` of
each of these modules is a theorem too (`TypeCorrect`, `DispatchTypeCorrect`,
`LimiterTypeCorrect`, `SamplingTypeCorrect`, `MainTypeCorrect`, `TimestampTypeCorrect`).

| Theorem | Module | Says |
|---|---|---|
| `ResultsTrue` | `TransportProofs` | a `BatchResult` splits its batch and claims no more than the receiver stored, for all three transports and every honest answer; a 2xx whose report was lost claims the whole batch |
| `CountedTruthfullyAlways` | `DispatchProofs` | every event of a batch is counted once, and as sent only if stored, or if the report of a 2xx was lost |
| `RetriesBoundedAlways` | `DispatchProofs` | sends within `--retries`, pauses within their bounds |
| `DuplicatesOnlyBlindAlways` | `DispatchProofs` | two copies only after an answer that could not be known |
| `FatalIffLostBatchAlways` | `DispatchProofs` | the fatal flag exactly when documented |
| `OneBatchInFlightAlways` | `PipelineProofs` | one batch in flight, whatever `--workers` |
| `QuietAfterFatalAlways` | `PipelineProofs` | no send starts, no counter moves after fatal |
| `BatchesWellSizedAlways` | `PipelineProofs` | no empty or oversized batch |
| `AbortedTruthfullyAlways` | `PipelineProofs` | `aborted` is never false alarm; a run that does not say so was stopped by no flag: it reached `--lines` or the end of its source, or the source failed, or all workers died |
| `StopsGeneratingAlways` | `PipelineProofs` | at most one event after a stop |
| `NothingLostOrDuplicatedAlways` | `PipelineProofs` | every event in one place, in order |
| `MemoryBoundedAlways` | `PipelineProofs` | at most `(QueueCap + 2) * BatchSize` events in memory |
| `CleanRunAddsUpAlways` | `PipelineProofs` | if one worker lives to the end nothing is left behind; at the end of a clean run the counters account for every event |
| `KeepsLedgerAlways` | `PipelineProofs` | `Pipeline` implements `Ledger` |
| `LinesGrowAlways` | `PipelineProofs` | no number of a line falls below the line before, nor the summary below the last line |
| `LineAddsUpAlways` | `PipelineProofs` | a line never shows more sent and failed than generated, once that is shown |
| `RateBoundAlways` | `RateLimiterProofs` | granted at most a batch plus rate times time |
| `NapsAreTightAlways` | `RateLimiterProofs` | nobody sleeps through its tokens |
| `NeverRunsDryAlways` | `SamplingProofs` | no source ends by bad luck |
| `EntryAccountedAlways` | `SamplingProofs` | `--no-loop` gives all lines from the entry point on; line numbers count from there |
| `InFileOrderAlways` | `SamplingProofs` | a replay gives its lines in order |
| `InventoryTrueAlways` | `MainProofs` | the walk is exact on a corpus at rest, without duplicates and in order on any |
| `ExitCodeTellsAlways` | `MainProofs` | what each exit code says of the events: none sent with 1; the run over with 0, aborted with 2; with 101 none sent, or only the summary missing |
| `ShadowedNeverMattersAlways` | `MainProofs` | a text that another place precedes changes nothing |
| `SendsOnlyWhereToldAlways` | `MainProofs` | events go to servers named for them, and no path is appended twice |
| `RunWellFoundedAlways` | `MainProofs` | what the other modules assume of a run |
| `WindowHonouredAlways` | `MainProofs` | ages lie in the window asked for, whatever the arithmetic does to it |
| `ReportCompleteAlways` | `MainProofs` | a report lists every file asked for, once and in order, with sound numbers |
| `ReadsBackAlways` | `TimestampProofs` | what a run wrote, in any format, is found again and read as the second it stands for, but for the cases of `SecondRead`; and what each width of a fraction is read as |
| `DatedInWindowAlways` | `TimestampProofs` | every event found is dated, and in the window |
| `SettlesDownAlways` | `TimestampProofs` | what one run wrote, the next writes in the same format |
| `ToldTruthfullyAlways` | `TimestampProofs` | both transports send the second, and the digits of the fraction, that the body shows, in every format; and the loudest severity but for `CRITICAL` |

**Transport and dispatch.** The lemmas of `TransportProofs` follow the ways
through `send`: a failure claims nothing, a report is split by what it lists.
`CountsSplit` is what the proofs about batches rest on: of `n` events,
`SentCount + FailedCount = n`. The invariant of a call, `CallInv`, ties the
counters to the retry counter (`stats.retried = conf.n * attempt`,
`calls = attempt` while the call is open) and to the last answer when it is
over; `BudgetInv` has the one case in which the counter passes `--retries`, the
confirmation of an authentication error.

**Pipeline.** The inductive invariant is built in layers, each proved inductive
on top of the one before:

1. `TypeInv`: `TypeOK`, and `generated < Lines` wherever a line may still be
   read: `0..Lines` alone is not inductive.
2. `WorkInv`: a worker is busy exactly when it holds the lock; only a busy
   worker has a batch; none is past the fatal test once the flag is up. The
   first of these is why `Finish` can raise the flag: no other worker can be
   past the test at that moment.
3. `ShapeInv`: where the generator is determines what its buffer and its
   pending batch may be; sizes of all batches.
4. `FlagInv`: who raised the watch, why the generator left its loop, and that
   the flags are tested once per event. The two parts of `AbortedTruthfully`
   follow from it.
5. `OrderInv`: the state read as one line of events, from the counters through
   the worker's hands, the channel and the pending batch to the buffer. Each
   action is one of six moves on the line (`BufferTaken`, `BatchQueued`,
   `EventGenerated`, `BatchReceived`, `BatchAccounted`, `LineFrame`), a lemma
   each.
6. `RoomInv`: the distance between any two batches of the channel (`Span`).
   The length of the channel's content is not inductive without it, since the
   batch that leaves may be a short one.
7. `DrainInv` (`PipelineProofs`): a worker that returned saw the channel closed and
   empty, whatever was dropped is on record, and the generator keeps nothing
   back unless no worker is left to take it. With `OrderInv` it gives `CleanRunAddsUp`.

`KeepsLedgerAlways` maps each step of `Pipeline` to a step of `Ledger` or a
stutter, one lemma for each task; that events in the worker's hands are open in
the ledger (`OpenEvents`) needs `OrderInv`. `LinesGrowAlways` needs more than
that the counters only grow (`StatsGrow`): `LineInv` puts each counter already
loaded between the last line and the counter itself. `LineAddsUpAlways` needs
`TallyInv` on top: once a nonzero `generated` was loaded the generator is done
and its count final, so that what is loaded later cannot pass it.

**Rate limiter.** Its invariant is an account: `tokens` plus the cost of what
was granted equals the capacity plus the refill up to `last`.

**Sources.** `ReplayInv` says where the reader is in terms of the events given
since the entry point, or since it went back to the start. That the recursive
function `Begin` gives the offset of each line is shown with the least line at
which it would not (`LeastOf`): the prover cannot instantiate the induction theorems,
but it can use the existence of a least number.

**Discovery.** What the walk has met and is not done with (`MetOnce`) is an
antichain of paths below the root: nothing in it is below anything else. Reading
a directory replaces it by its children (`ChildrenApart`), and that reads
nothing from the disk but the listing, so that others may change the disk at
will. On a corpus at rest `AtRest` adds that every file still to be found lies
below a directory waiting to be read. That `Sorted` sorts is proved from
`Before` being a total order on paths, by counting what comes before each file.

**Entry.** `ProgramInv` says that where the program is tells what it has done
(`PhaseInv`), that the configuration is the one of the input and the URL the one
of the configuration (`ConfigInv`). The rest is about operators: an option has
one text at most (`ResolveSingle`), every variable belongs to one option
(`VariableOfOne`), and a file entry at the end is found under its key only
(`AppendedEntry`). In `ReportInv` the files reported and those left are, in a row,
all that was asked for.

**Timestamps.** The invariant (`Inv` of `TimestampProofs`) says what a written line
is: some timestamp that was found, rendered with the time of the last event
(`Written`). `TypeOK` and `ReadsBack` together are not inductive, since nothing in
them says that a zone or a fraction is one that the program writes, which is what
`SettlesDown` needs. With it every property is a fact about one rendering of one
timestamp, shown form by form (`RenderIso`, `RenderClf`, `RenderEpoch`, `RenderLocal`,
`RenderNoYear`; `Shown` for what a reader sees). `OffsetBack`, `FractionBack` and
`FractionReadBack` say how far the parsers and printers of offsets and fractions are inverse. The calendar is proved, not
assumed: every second lies in one year (`YearExists`, `YearIsThis`), a second
printed without its year is the same second in that year (`PlaceInYear`), and the
same day a year later is at least 365 days away (`NextYear`); hence the year that
`resolve_no_year` picks is the right one (`YearBack`), or the one before while the
local year is ahead (`YearEarly`). `LoudestOf` goes through the
table of keywords.

**Assumptions on constants.** `PipelineAssumption`: finitely many workers, at
least one, positive sizes. `DispatchAssumption`, `RateLimiterAssumption`,
`SamplingAssumption`: sizes and numbers are numbers, lines are not empty.
`SettingsAssumption`: the limits of a window are in the order they have in Rust
and chrono, and the marks for odd texts are none of the texts.
`InvocationsAssumption`: an input is one that clap and serde can hand over (a
number where a number is parsed, a URL that is a list of pieces), and the disk
holds nodes at paths. Nothing is assumed of the transport's answers beyond
`HonestAnswers`, of the schedule, or of what others do to the files.

`TimestampAssumption`: the times considered lie between 2001 and 2037, numbers of
seconds in a line below 2^31 (`LastNumber`: the code takes larger ones, up to 8e12 thousandths), an offset of
the local zone is less than a day, a line has a timestamp of one of the forms
(`Stamps`), and no window reaches back before 3 March 1973, where an epoch has
nine digits: of an older instant the code writes an epoch that it does not find
again. `WireAssumption`: of the words of a line only the keywords of severity count.

**Only model-checked.** Liveness (`Termination`, `ReporterStops`, `CommandEnds`), which is out of the
prover's reach.

## 5. What is not modelled

- The contents of events and their encoding (the fields of HEC envelopes and OTLP
  records but for time and severity, protobuf, gzip), TLS, headers; the dataset
  family of an event, a table of file names.
- The grammar of the command line (clap) and of JSON (serde); the redaction of
  URLs and tokens in what is printed.
- Summer time: the local zone of `Timestamp` has one offset all year. What the
  regular expressions accept around a timestamp. Instants before 1970 or after
  2037, and negative numbers in JSON.
- The encoding-error and blank-line counters of `build_event`; the timestamp
  counters are the sums of `ts_detected` and `ts_year_inferred` over the events.
- The counters a progress line does not show, its rates, and the rendering of the
  summary.
- A directory's listing as several system calls: it is listed at one moment.
- `--rate inf` with no time elapsed, where the refill is NaN and the conversion to
  a `Duration` panics: `RateLimiter` has finite rates. A `--batch-size` near
  `usize::MAX`, which panics in `Vec::with_capacity`: sizes of memory are left out.
- A second Ctrl-C: the signal task waits for one.
- A standard error that is closed: what is written there does not panic in the model.
- Random numbers: any number of the range they are drawn from.
- Reordering of the relaxed loads and additions: `Reporter` loads in program order
  from counters that all tasks see alike. The summary is taken when every task is
  joined, where no reordering is possible.
- Receivers that lie: `HonestAnswers` covers all statuses, lost requests, lost
  answers and lost bodies, but a per-event report that arrives is that of what was stored. The transports' reading of
  odd bodies is in `HecReport` and `OtelReport`.

## 6. Plan

What is left:

1. The lemmas that the proofs of several modules keep needing, in one place:
   least numbers (`SamplingProofs`, `MainProofs`), sums over sequences
   (`PipelineProofs`).
2. That each task of a run terminates once it is told to, as action properties
   that can be proved: a measure that every step of a stopped run lowers.
