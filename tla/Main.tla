--------------------------------- MODULE Main ---------------------------------
(***************************************************************************)
(* src/main.rs: one invocation of the program, from its command line to    *)
(* its exit code.  The commands discover and validate walk the corpus and  *)
(* read it; replay and synthetic-today resolve their settings, open their  *)
(* source, build their transport and run the pipeline, of which only the   *)
(* end is seen here (Pipeline has the rest).                               *)
(***************************************************************************)
EXTENDS Settings, Corpus

CONSTANTS
  Invocations,  \* commands with their command line, environment and file, and what is on disk
  NewPath, NewNode  \* a node that may appear during the walk

\* What stands for an option in any of the three places.
Texts(in, o) ==
  Given(in.cli, o) \cup Given(in.env, o)
    \cup {e.value : e \in {f \in {in.file.entries[k] : k \in DOMAIN in.file.entries} : f.key = o}}

\* Whatever is typed: a number is one, of a window as of a size, and a URL has pieces.
IsInput(in) ==
  /\ in = [cmd |-> in.cmd, cli |-> in.cli, env |-> in.env, file |-> in.file]
  /\ in.file = [state |-> in.file.state, entries |-> in.file.entries]
  /\ in.file.entries \in Seq({in.file.entries[k] : k \in DOMAIN in.file.entries})
  /\ in.cmd \in {"discover", "validate", "replay", "synthetic-today"}
  /\ \A o \in DOMAIN in.cli : in.cli[o] # Unsupported
  /\ \A o \in DOMAIN in.env : in.env[o] # Unsupported
  /\ \A o \in {"lines", "batch_size", "workers"} :
       Texts(in, o) \subseteq Nat \cup {Empty, Garbage, Unsupported}
  /\ Given(in.cli, "sample") \subseteq Nat
  /\ \A v \in Texts(in, "recent_window") : v = Unsupported \/ (IsSpan(v) => v.num \in Nat)
  /\ \A o \in {"endpoint", "otel_endpoint", "hec_endpoint"} :
       \A v \in Texts(in, o) : v \in {Empty, Unsupported} \/ (v # <<>> /\ v \in Seq(UrlText))

ASSUME InvocationsAssumption ==
  /\ \A i \in Invocations :
       /\ IsInput(i.in)
       /\ (\A p \in DOMAIN i.disk : IsPath(p)) /\ i.disk \in [DOMAIN i.disk -> Nodes]
  /\ IsPath(NewPath) /\ NewNode \in Nodes

VARIABLES
  in,       \* the input of Settings, with its command
  phase,    \* where the program is
  cfg,      \* the configuration, once it is resolved
  url,      \* where the transport sends to
  left,     \* discover, validate: files still to be read
  report,   \* discover: lines counted; validate: the samples
  ran,      \* history: the pipeline was started
  aborted,  \* Summary.aborted
  exit      \* the exit code, None before

programVars == <<in, phase, cfg, url, left, report, ran, aborted, exit>>
vars == <<programVars, corpusVars>>

None == -1
Simulation == in.cmd \in {"replay", "synthetic-today"}

\* The program ends, maybe by a panic: that is code 101.
Ends(code) == phase' = "ended" /\ exit' = code
Goes(to) == phase' = to /\ UNCHANGED exit
----------------------------------------------------------------------------
(* The command line. *)

\* clap parses what is typed: an option that takes a number takes only that, and a path
\* is not empty.
UsageError ==
  \/ \E o \in Numbers : Given(in.cli, o) \cap {Empty, Garbage} # {}
  \/ \E o \in {"log_dir", "file"} : Given(in.cli, o) = {Empty}

Usage ==
  /\ phase = "start" /\ UsageError
  /\ Ends(2)
  /\ UNCHANGED <<in, cfg, url, left, report, ran, aborted, corpusVars>>

\* discover and validate look at their own --log-dir only.
OwnDir == IF Given(in.cli, "log_dir") = {} THEN <<"./logs">> ELSE <<in.cli["log_dir"]>>

Survey ==
  /\ phase = "start" /\ ~Simulation /\ ~UsageError
  /\ WalkStarts(OwnDir)
  /\ IF IsDir(OwnDir) THEN Goes("walk") ELSE Ends(1)
  /\ UNCHANGED <<in, cfg, url, left, report, ran, aborted>>

\* resolve_config.
Configure ==
  /\ phase = "start" /\ Simulation /\ ~UsageError
  /\ cfg' = IF ConfigPanics(in) THEN {} ELSE Config(in)
  /\ IF ConfigPanics(in) THEN Ends(101) ELSE IF cfg' = {} THEN Ends(1) ELSE Goes("source")
  /\ UNCHANGED <<in, url, left, report, ran, aborted, corpusVars>>
----------------------------------------------------------------------------
(* discover and validate, after the walk. *)

WalkStep == phase = "walk" /\ Walk /\ UNCHANGED programVars

Opens(p) == IsFile(p) /\ At(p).opens
Typed(o) == o \in DOMAIN in.cli

\* The files that validate --file names: the filter keeps those of this path.
OfPath(p) == [i \in 1..Cardinality({k \in DOMAIN found : found[k] = p}) |-> p]

\* The files to be read: all of them, or those.
Listed ==
  /\ phase = "walk" /\ walk = "done" /\ ~Simulation
  /\ left' = IF Typed("file") THEN OfPath(in.cli["file"]) ELSE found
  /\ IF Typed("file") /\ left' = <<>> THEN Ends(1) ELSE Goes("read")
  /\ UNCHANGED <<in, cfg, url, report, ran, aborted, corpusVars>>

Reading(cmd) == phase = "read" /\ in.cmd = cmd /\ left # <<>>
Reported(entry) == report' = Append(report, entry) /\ left' = Tail(left) /\ UNCHANGED <<phase, exit>>
Uncounted(p) == [path |-> p, lines |-> None]

\* println! panics if there is nobody to read what is printed.
PrintPanics == Ends(101)

\* count_lines of the next file, if asked for.  One that cannot be opened ends the table
\* with an error, and has no number in the JSON output.  The table is printed row by row.
Count ==
  /\ Reading("discover")
  /\ LET p == Head(left) IN
     \/ ~Typed("count") /\ Reported(Uncounted(p))
     \/ Typed("count") /\ Opens(p) /\ ~At(p).breaks /\ Reported([path |-> p, lines |-> Len(At(p).lines)])
     \/ Typed("count") /\ ~Opens(p) /\ Typed("json") /\ Reported(Uncounted(p))
     \/ Typed("count") /\ ~Opens(p) /\ ~Typed("json") /\ Ends(1) /\ UNCHANGED <<left, report>>
     \/ ~Typed("json") /\ PrintPanics /\ UNCHANGED <<left, report>>
  /\ UNCHANGED <<in, cfg, url, ran, aborted, corpusVars>>

\* A failed read is counted as a line, and so is the next one.
Spinning == Reading("discover") /\ Typed("count") /\ Opens(Head(left)) /\ At(Head(left)).breaks
CountsForEver == Spinning /\ UNCHANGED vars

Sample == IF Typed("sample") THEN in.cli["sample"] ELSE 200

\* Mistake: the limit is tested after the line is counted.
FirstLinesOneMore(p) ==
  LET n == Len(At(p).lines) IN SubSeq(At(p).lines, 1, IF n =< Sample THEN n ELSE Sample + 1)
FirstLines(p) ==
  LET n == Len(At(p).lines) IN SubSeq(At(p).lines, 1, IF n < Sample THEN n ELSE Sample)
Number(lines, kinds) == Cardinality({i \in DOMAIN lines : lines[i] \in kinds})

\* The first lines of the next file: those that are text, those dated, those dated
\* without a year, and the failed reads.
Examine ==
  /\ Reading("validate")
  /\ LET p == Head(left)
         seen == FirstLines(p)
     IN  IF Opens(p)
         THEN Reported([path |-> p, sampled |-> Number(seen, {"plain", "dated", "yearless"}),
                        detected |-> Number(seen, {"dated", "yearless"}),
                        inferred |-> Number(seen, {"yearless"}),
                        errors |-> Number(seen, {"bad"}) + (IF At(p).breaks THEN Sample - Len(seen) ELSE 0)])
         ELSE Reported([path |-> p, sampled |-> 0, detected |-> 0, inferred |-> 0, errors |-> 1])
  /\ UNCHANGED <<in, cfg, url, ran, aborted, corpusVars>>

Printed ==
  /\ phase = "read" /\ left = <<>>
  /\ Ends(0) \/ PrintPanics
  /\ UNCHANGED <<in, cfg, url, left, report, ran, aborted, corpusVars>>
----------------------------------------------------------------------------
(* replay and synthetic-today, once configured. *)

\* ReplaySampler::new opens its file; SyntheticSampler::new only looks at it.
Usable(p) == IF in.cmd = "replay" THEN Opens(p) ELSE IsFile(p)

Pinned ==
  /\ phase = "source"
  /\ \E c \in cfg : \E p \in c.file : IF Usable(p) THEN Goes("build") ELSE Ends(1)
  /\ UNCHANGED <<in, cfg, url, left, report, ran, aborted, corpusVars>>

Search ==
  /\ phase = "source"
  /\ \E c \in cfg : \E dir \in c.log_dir :
       /\ c.file = {} /\ WalkStarts(<<dir>>)
       /\ IF IsDir(<<dir>>) THEN Goes("walk") ELSE Ends(1)
  /\ UNCHANGED <<in, cfg, url, left, report, ran, aborted>>

\* A replay draws its file; a synthetic run keeps them all.
Drawn ==
  /\ phase = "walk" /\ walk = "done" /\ Simulation
  /\ \/ found = <<>> /\ Ends(1)
     \/ in.cmd = "replay" /\ \E i \in DOMAIN found : IF Opens(found[i]) THEN Goes("build") ELSE Ends(1)
     \/ in.cmd # "replay" /\ found # <<>> /\ Goes("build")
  /\ UNCHANGED <<in, cfg, url, left, report, ran, aborted, corpusVars>>

\* transport::build; the HTTP client may not come about.
Build ==
  /\ phase = "build"
  /\ \/ Goes("ready") /\ \E c \in cfg : url' = Url(c)
     \/ Ends(1) /\ UNCHANGED url
  /\ UNCHANGED <<in, cfg, left, report, ran, aborted, corpusVars>>

\* pipeline::run takes the window, in either mode, before it does anything.
Run ==
  /\ phase = "ready"
  /\ \E c \in cfg : \E w \in c.recent_window :
       IF SpanPanics(w) THEN Ends(101) /\ UNCHANGED ran ELSE Goes("running") /\ ran' = TRUE
  /\ UNCHANGED <<in, cfg, url, left, report, aborted, corpusVars>>

\* report() prints the summary: with --json in spite of --quiet.
Speaks == \E c \in cfg : "json" \in c.flags \/ "quiet" \notin c.flags

\* Mistake: the outcome is reported and forgotten.
RunEndsWell ==
  /\ phase = "running"
  /\ aborted' \in BOOLEAN /\ (Ends(0) \/ (Speaks /\ PrintPanics))
  /\ UNCHANGED <<in, cfg, url, left, report, ran, corpusVars>>

\* The run is over, and its summary printed.
RunEnds ==
  /\ phase = "running"
  /\ aborted' \in BOOLEAN
  /\ Ends(IF aborted' THEN 2 ELSE 0) \/ (Speaks /\ PrintPanics)
  /\ UNCHANGED <<in, cfg, url, left, report, ran, corpusVars>>
----------------------------------------------------------------------------
Others == phase = "walk" /\ Change(NewPath, NewNode) /\ UNCHANGED programVars
Ended == phase = "ended" /\ UNCHANGED vars

Init ==
  /\ \E i \in Invocations : in = i.in /\ disk = i.disk
  /\ phase = "start" /\ cfg = {} /\ url = {} /\ left = <<>> /\ report = <<>>
  /\ ran = FALSE /\ aborted = FALSE /\ exit = None
  /\ CorpusInit

Program ==
  \/ Usage \/ Survey \/ Configure \/ WalkStep
  \/ Listed \/ Count \/ Examine \/ Printed
  \/ Pinned \/ Search \/ Drawn \/ Build \/ Run \/ RunEnds

Next == Program \/ CountsForEver \/ Others \/ Ended

Spec == Init /\ [][Next]_vars

\* The program goes on by itself, and a run of the pipeline ends.
FairSpec == Spec /\ WF_vars(Program)
----------------------------------------------------------------------------
\* Type invariant.
TypeOK ==
  /\ phase \in {"start", "source", "walk", "read", "build", "ready", "running", "ended"}
  /\ exit \in {None, 0, 1, 2, 101} /\ (phase = "ended" <=> exit # None)
  /\ Cardinality(cfg) =< 1 /\ Cardinality(url) =< 1
  /\ ran \in BOOLEAN /\ aborted \in BOOLEAN
  /\ CorpusTypes

\* A text in a place that another one precedes never matters, not even if it could not be
\* parsed or would not be valid: the command line before the environment before the file.
\* (A JSON value of an unsupported type is no text: it refuses the file wherever it stands.)
Outcome(i) == <<Config(i), ConfigPanics(i)>>
Rivals(o) == {Garbage, Empty} \cup (IF o \in Numbers THEN {0} ELSE {})
WithVar(env, x, v) == [y \in DOMAIN env \cup {x} |-> IF y = x THEN v ELSE env[y]]
ShadowedNeverMatters ==
  phase = "start" /\ Simulation =>
    \A o \in Options : \A v \in Rivals(o) :
      /\ Typed(o) =>
           \A x \in EnvVar(o, Transport(in)) : Outcome([in EXCEPT !.env = WithVar(@, x, v)]) = Outcome(in)
      /\ Typed(o) \/ FromEnv(in, o, Transport(in)) # {} =>
           Outcome([in EXCEPT !.file.entries = Append(@, [key |-> o, value |-> v])]) = Outcome(in)

\* Events go to no server but one that was named for their transport or for any: never to
\* that of the other transport's variable, which may be a production system.
NamedEndpoints(c) ==
  Given(in.cli, "endpoint") \cup FromFile(in, "endpoint")
    \cup Given(in.env, IF c.transport = {"otel"} THEN "otel_endpoint" ELSE "hec_endpoint")
NamedServersOnly ==
  ran => \A c \in cfg :
    /\ c.transport # {"stdout"} => url # {}
    /\ \A u \in url : \E e \in NamedEndpoints(c) : Under(u, Trim(Pieces(e)))

\* The URL a transport builds is the one it builds from that URL: a full URL is left alone
\* and no path is appended twice.  An OTLP endpoint without a scheme is outside this.
FullUrlKept ==
  \A c \in cfg : \A u \in url :
    IF c.transport = {"hec"} THEN HecUrl(u) = u ELSE (u[1] \in WithColon /\ u[2] = Empty => OtelUrl(u) = u)

\* Events go where they were told to: to a server that was named, at the URL that was meant.
SendsOnlyWhereTold == NamedServersOnly /\ FullUrlKept

\* What Pipeline, RateLimiter and the transports take for granted holds of every run:
\* sizes are positive, the rate is a rate, and what build() expects to be there is there.
RunWellFounded ==
  ran => \A c \in cfg :
    /\ \A o \in {"workers", "batch_size", "lines"} : \E n \in c[o] : n \in Nat /\ n > 0
    /\ c.retries # {} /\ c.timeout # {} /\ c.rate \cap {Negative, NaN} = {}
    /\ c.transport = {"hec"} => c.endpoint # {} /\ c.hec_token # {}
    /\ c.transport = {"otel"} => c.endpoint # {} /\ c.otel_protocol = {"http"}

\* The exit code tells what became of the events: with 1 none were sent, with 0 the run came
\* to its end, with 2 it was aborted (or the command line was not understood).  After a
\* panic, 101, none were sent either, or all was done and only the summary could not be
\* printed; under --quiet without --json the former.
ExitCodeTells ==
  phase = "ended" /\ Simulation =>
    CASE exit = 0   -> ran /\ ~aborted
      [] exit = 2   -> (ran /\ aborted) \/ UsageError
      [] exit = 101 -> ran => Speaks
      [] OTHER      -> ~ran

\* No event is dated before the window that was asked for, nor in the future, however long
\* the window; one that 64 bits of nanoseconds can hold is used to its full length.
WindowHonoured ==
  ran => \A c \in cfg : \A v \in Text(in, "recent_window") : IsSpan(v) =>
    LET asked == v.num * UnitSeconds[v.unit]
        ages == UNION {OldestAndNewest(w) : w \in c.recent_window}
    IN  (\A a \in ages : 0 =< a /\ a =< asked) /\ (asked =< MaxNanos => asked \in ages)

\* A command that succeeds has reported on every file asked for, once and in order; a
\* sample has no more lines and errors than were to be read, nor more dates than lines.
ReportComplete ==
  /\ exit = 0 /\ ~Simulation =>
       [i \in DOMAIN report |-> report[i].path] = (IF Typed("file") THEN <<in.cli["file"]>> ELSE found)
  /\ in.cmd = "validate" => \A i \in DOMAIN report : LET r == report[i] IN
       /\ r.inferred =< r.detected /\ r.detected =< r.sampled
       /\ r.sampled + r.errors =< (IF Opens(r.path) THEN Sample ELSE 1)

\* Every invocation ends, links that lead back up and directories that cannot be read
\* notwithstanding, but for a line count of a file whose reads fail.
CommandEnds == <>(phase = "ended" \/ Spinning)
===============================================================================
