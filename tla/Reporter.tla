------------------------------- MODULE Reporter -------------------------------
(***************************************************************************)
(* The progress reporter (src/pipeline.rs, Stats::snapshot in              *)
(* src/stats.rs) beside the run of Pipeline.  It loads the shared counters *)
(* one after the other, while workers and generator go on, and prints what *)
(* it loaded.  It leaves when the shutdown watch changes; nobody waits for *)
(* it.  Of the counters it loads only those it prints are kept.            *)
(***************************************************************************)
EXTENDS Pipeline

CONSTANT Quiet  \* --quiet

ASSUME ReporterAssumption == Quiet \in BOOLEAN

VARIABLES
  rep,     \* where the reporter is: "select", "sent", "failed" (to be loaded next) or "done"
  loaded,  \* the snapshot being taken
  line     \* the last line printed

reporterVars == <<rep, loaded, line>>

Blank == [generated |-> 0, sent |-> 0, failed |-> 0]

ReporterInit == rep = "select" /\ loaded = Blank /\ line = Blank

\* A tick; the first comes at once.  The snapshot begins.
LoadGenerated ==
  /\ rep = "select" /\ ~Quiet
  /\ rep' = "sent" /\ loaded' = [loaded EXCEPT !.generated = stats.generated]
  /\ UNCHANGED <<line, vars>>

\* Mistake: the counter is taken, not read.
LoadSentSwap ==
  /\ rep = "sent"
  /\ rep' = "failed" /\ loaded' = [loaded EXCEPT !.sent = stats.sent]
  /\ stats' = [stats EXCEPT !.sent = 0]
  /\ UNCHANGED <<line, genVars, queue, workerVars, fatal, shutdown, mainVars>>

LoadSent ==
  /\ rep = "sent"
  /\ rep' = "failed" /\ loaded' = [loaded EXCEPT !.sent = stats.sent]
  /\ UNCHANGED <<line, vars>>

\* The last counter, and the line.
PrintLine ==
  /\ rep = "failed"
  /\ rep' = "select" /\ loaded' = Blank /\ line' = [loaded EXCEPT !.failed = stats.failed]
  /\ UNCHANGED vars

\* The other branch of select!: Ctrl-C or the main task has raised the watch.
Leave ==
  /\ rep = "select" /\ shutdown
  /\ rep' = "done"
  /\ UNCHANGED <<loaded, line, vars>>

Report == LoadGenerated \/ LoadSent \/ PrintLine \/ Leave

ReporterNext == Report \/ (Next /\ UNCHANGED reporterVars)

ReporterSpec == Init /\ ReporterInit /\ [][ReporterNext]_<<vars, reporterVars>>

\* Beside the fairness of the run's own tasks: a snapshot once begun is printed, and
\* select! does not overlook for ever that the watch has changed.
FairReporterSpec ==
  /\ ReporterSpec /\ Fairness
  /\ WF_reporterVars(LoadSent \/ PrintLine) /\ SF_reporterVars(Leave)
-------------------------------------------------------------------------------
\* Though its counters are read at three moments, a line that shows what was generated never
\* shows more sent and failed than that: the generator adds its count once, after its last event.
LineAddsUp == line.generated # 0 => line.sent + line.failed =< line.generated

\* No counter goes back from one line to the next, nor from the last line to the summary,
\* which is taken of the counters when the main task is done.
LinesGrow ==
  /\ [][\A c \in DOMAIN line : line[c] =< line'[c]]_line
  /\ [](main = "done" => \A c \in DOMAIN line : line[c] =< stats[c])

\* Nobody joins the reporter, so the watch must reach it: whatever ends the run, a signal, a
\* fatal error, dead workers or the last line, the reporter stops as well as the run.  (The
\* process may end first, which stops it too.)
ReporterStops == <>(main = "done" /\ rep = "done")
===============================================================================
