------------------------------ MODULE MainProofs ------------------------------
(***************************************************************************)
(* Theorems about an invocation of the program: for every command line,    *)
(* environment, configuration file and log directory, and whatever others  *)
(* do to the directory during the walk.                                    *)
(***************************************************************************)
EXTENDS Main, CorpusProofs

\* At most one element: a value that may be missing.
Single(S) == \A x, y \in S : x = y

LEMMA SingleCardinality ==
  ASSUME NEW S, Single(S)
  PROVE  Cardinality(S) =< 1
<1>1. CASE S = {}
  BY <1>1, FS_EmptySet
<1>2. CASE S # {}
  <2>1. PICK x : S = {x}
    BY <1>2 DEF Single
  <2>2. QED
    BY <2>1, FS_Singleton
<1>3. QED
  BY <1>1, <1>2

\* What is drawn from a single value by something that gives at most one is single.
LEMMA SingleUnion ==
  ASSUME NEW S, Single(S), NEW F(_), \A x \in S : Single(F(x))
  PROVE  Single(UNION {F(x) : x \in S})
BY DEF Single
-------------------------------------------------------------------------------
(* The merged configuration: a value, if there is one, is one. *)

LEMMA GivenSingle == \A place, key : Single(Given(place, key))
BY DEF Given, Single

LEMMA EnvVarSingle == \A o, t : Single(EnvVar(o, t))
BY DEF EnvVar, Single

LEMMA FromEnvSingle ==
  ASSUME NEW in_, NEW o, NEW t
  PROVE  Single(FromEnv(in_, o, t))
<1> SUFFICES ASSUME NEW x \in FromEnv(in_, o, t), NEW y \in FromEnv(in_, o, t)
             PROVE  x = y
  BY DEF Single
<1>1. PICK v \in EnvVar(o, t) : x \in Given(in_.env, v)
  BY DEF FromEnv
<1>2. PICK w \in EnvVar(o, t) : y \in Given(in_.env, w)
  BY DEF FromEnv
<1>3. v = w
  BY EnvVarSingle DEF Single
<1>4. QED
  BY <1>1, <1>2, <1>3, GivenSingle DEF Single

LEMMA FromFileSingle ==
  ASSUME NEW in_, NEW S, in_.file.entries \in Seq(S), NEW o
  PROVE  Single(FromFile(in_, o))
<1> DEFINE es == in_.file.entries
<1> DEFINE hits == {i \in DOMAIN es : es[i].key = o}
<1>1. hits \subseteq Nat
  OBVIOUS
<1>2. \A i, j \in {h \in hits : \A k \in hits : k =< h} : i = j
  BY <1>1
<1> HIDE DEF hits
<1>3. FromFile(in_, o) \subseteq {es[i].value : i \in {h \in hits : \A k \in hits : k =< h}}
  BY DEF FromFile, hits
<1> HIDE DEF es
<1>4. QED
  BY <1>2, <1>3 DEF Single

LEMMA DefaultSingle == \A o : Single(Default(o))
BY DEF Default, Single

LEMMA ResolveSingle ==
  ASSUME NEW in_, NEW S, in_.file.entries \in Seq(S), NEW o, NEW t
  PROVE  Single(Resolve(in_, o, t))
BY GivenSingle, FromEnvSingle, FromFileSingle, DefaultSingle DEF Resolve

LEMMA MeaningSingle == \A o, v : Single(Meaning(o, v))
<1> SUFFICES ASSUME NEW o, NEW v PROVE Single(Meaning(o, v))
  OBVIOUS
<1>1. Single(ParseWindow(v))
  BY DEF ParseWindow, Single
<1>2. QED
  BY <1>1 DEF Meaning, Single

LEMMA MergedSingle ==
  ASSUME NEW in_, NEW S, in_.file.entries \in Seq(S), NEW o \in Options
  PROVE  Single(Merged(in_)[o])
<1>1. o \notin {"mode", "flags"}
  BY DEF Options, Numbers, WithVariable
<1>2. Merged(in_)[o] = UNION {Meaning(o, v) : v \in Text(in_, o)}
  BY <1>1 DEF Merged
<1>3. Single(Text(in_, o))
  BY ResolveSingle DEF Text
<1>4. QED
  BY <1>2, <1>3, MeaningSingle DEF Single

\* One URL at most is built.
LEMMA UrlSingle ==
  ASSUME NEW in_, NEW S, in_.file.entries \in Seq(S)
  PROVE  Single(Url(Merged(in_)))
<1>1. "endpoint" \in Options
  BY DEF Options
<1>2. Single(Merged(in_)["endpoint"])
  BY <1>1, MergedSingle
<1>3. QED
  BY <1>2 DEF Url, Single
-------------------------------------------------------------------------------
(* The program. *)

Phases == {"start", "source", "walk", "read", "build", "ready", "running", "ended"}

\* Where the program is tells what it has done.
PhaseInv ==
  /\ phase \in Phases /\ exit \in {None, 0, 1, 2, 101} /\ (phase = "ended" <=> exit # None)
  /\ ran \in BOOLEAN /\ aborted \in BOOLEAN
  /\ phase \in {"start", "source"} => walk = "idle"
  /\ phase = "read" => ~Simulation
  /\ phase \in {"source", "build", "ready", "running"} => Simulation
  /\ phase \notin {"running", "ended"} => ~ran /\ ~aborted
  /\ phase = "running" => ran /\ ~aborted

\* There is no configuration but the one that was asked for, no URL but that of
\* the configuration, and no run with a window that reaches beyond the calendar.
ConfigInv ==
  /\ cfg \subseteq Config(in)
  /\ url # {} => phase \in {"ready", "running", "ended"} /\ \E c \in cfg : url = Url(c)
  /\ phase \in {"ready", "running"} => \A c \in cfg : url = Url(c)
  /\ ran => \A c \in cfg : url = Url(c) /\ \A w \in c.recent_window : ~SpanPanics(w)

ProgramInv == IsInput(in) /\ CorpusInv /\ PhaseInv /\ ConfigInv /\ ExitCodeTells

LEMMA InputEntries ==
  ASSUME IsInput(in)
  PROVE  \E S : in.file.entries \in Seq(S)
BY DEF IsInput

LEMMA ConfigSingle ==
  ASSUME ConfigInv, IsInput(in)
  PROVE  /\ Single(cfg) /\ \A c \in cfg : c = Merged(in)
         /\ \A c \in cfg : Single(c.recent_window)
<1>1. PICK S : in.file.entries \in Seq(S)
  BY InputEntries
<1>2. \A c \in cfg : c = Merged(in)
  BY DEF ConfigInv, Config
<1>3. "recent_window" \in Options
  BY DEF Options
<1>4. Single(Merged(in)["recent_window"])
  BY <1>1, <1>3, MergedSingle
<1>5. QED
  BY <1>2, <1>4 DEF Single

LEMMA ProgramInit == Init => ProgramInv
<1> SUFFICES ASSUME Init PROVE ProgramInv
  OBVIOUS
<1>1. PICK i \in Invocations : in = i.in /\ disk = i.disk
  BY DEF Init
<1>2. /\ IsInput(in) /\ disk \in [DOMAIN disk -> Nodes]
      /\ \A p \in DOMAIN disk : IsPath(p)
  BY <1>1, InvocationsAssumption
<1>3. DiskInv
  BY <1>2, PathOf DEF DiskInv
<1>4. CorpusInv
  BY <1>3, CorpusStarts DEF Init
<1>5. /\ phase = "start" /\ cfg = {} /\ url = {} /\ ran = FALSE /\ aborted = FALSE /\ exit = None
      /\ walk = "idle"
  BY DEF Init, CorpusInit
<1>6. PhaseInv
  BY <1>5 DEF PhaseInv, Phases
<1>7. ConfigInv
  BY <1>5 DEF ConfigInv
<1>8. ExitCodeTells
  BY <1>5 DEF ExitCodeTells
<1>9. QED
  BY <1>2, <1>4, <1>6, <1>7, <1>8 DEF ProgramInv

\* A step that leaves the configuration, the URL and the run alone.
LEMMA QuietConfig ==
  ASSUME ConfigInv, UNCHANGED <<in, cfg, url, ran>>,
         phase' \in {"ready", "running"} => phase \in {"ready", "running"},
         phase \in {"ready", "running", "ended"} => phase' \in {"ready", "running", "ended"}
  PROVE  ConfigInv'
BY DEF ConfigInv

LEMMA UsageStep == ProgramInv /\ Usage => ProgramInv'
<1> SUFFICES ASSUME ProgramInv, Usage PROVE ProgramInv'
  OBVIOUS
<1>1. /\ phase = "start" /\ UsageError /\ phase' = "ended" /\ exit' = 2
      /\ UNCHANGED <<in, cfg, url, left, report, ran, aborted, corpusVars>>
  BY DEF Usage, Ends
<1>2. CorpusInv'
  BY <1>1, CorpusStays DEF ProgramInv
<1>3. PhaseInv'
  BY <1>1 DEF ProgramInv, PhaseInv, Phases, None
<1>4. ConfigInv'
  BY <1>1, QuietConfig DEF ProgramInv
<1>5. UsageError'
  BY <1>1 DEF UsageError, Given
<1>6. ExitCodeTells'
  BY <1>1, <1>5 DEF ExitCodeTells
<1>7. QED
  BY <1>1, <1>2, <1>3, <1>4, <1>6 DEF ProgramInv

LEMMA SurveyStep == ProgramInv /\ Survey => ProgramInv'
<1> SUFFICES ASSUME ProgramInv, Survey PROVE ProgramInv'
  OBVIOUS
<1>1. /\ phase = "start" /\ ~Simulation /\ WalkStarts(OwnDir)
      /\ \/ phase' = "walk" /\ exit' = exit
         \/ phase' = "ended" /\ exit' = 1
      /\ UNCHANGED <<in, cfg, url, left, report, ran, aborted>>
  BY DEF Survey, Ends, Goes
<1>2. CorpusInv'
  BY <1>1, WalkStartsStep DEF ProgramInv, PhaseInv
<1>3. PhaseInv'
  BY <1>1 DEF ProgramInv, PhaseInv, Phases, None, Simulation
<1>4. ConfigInv'
  BY <1>1, QuietConfig DEF ProgramInv
<1>5. ExitCodeTells'
  BY <1>1 DEF ExitCodeTells, Simulation
<1>6. QED
  BY <1>1, <1>2, <1>3, <1>4, <1>5 DEF ProgramInv

LEMMA ConfigureStep == ProgramInv /\ Configure => ProgramInv'
<1> SUFFICES ASSUME ProgramInv, Configure PROVE ProgramInv'
  OBVIOUS
<1>1. /\ phase = "start" /\ Simulation
      /\ cfg' = IF ConfigPanics(in) THEN {} ELSE Config(in)
      /\ \/ phase' = "source" /\ exit' = exit
         \/ phase' = "ended" /\ exit' \in {1, 101}
      /\ UNCHANGED <<in, url, left, report, ran, aborted, corpusVars>>
  BY DEF Configure, Ends, Goes
<1>2. CorpusInv'
  BY <1>1, CorpusStays DEF ProgramInv
<1>3. PhaseInv'
  BY <1>1 DEF ProgramInv, PhaseInv, Phases, None, Simulation, corpusVars
<1>4. ran = FALSE
  BY <1>1 DEF ProgramInv, PhaseInv
<1>5. url = {}
  BY <1>1 DEF ProgramInv, ConfigInv
<1>6. ConfigInv'
  BY <1>1, <1>4, <1>5 DEF ConfigInv
<1>7. ExitCodeTells'
  BY <1>1, <1>4 DEF ExitCodeTells
<1>8. QED
  BY <1>1, <1>2, <1>3, <1>6, <1>7 DEF ProgramInv

\* The walk, and what others do meanwhile.
LEMMA WalkingStep ==
  ASSUME ProgramInv, phase = "walk", UNCHANGED programVars, Walk \/ Change(NewPath, NewNode)
  PROVE  ProgramInv'
<1>1. UNCHANGED <<in, phase, cfg, url, ran, aborted, exit>>
  BY DEF programVars
<1>2. CorpusInv'
  BY WalkStepKeeps, ChangeStep, InvocationsAssumption DEF ProgramInv
<1>3. PhaseInv'
  BY <1>1 DEF ProgramInv, PhaseInv, Simulation
<1>4. ConfigInv'
  BY <1>1, QuietConfig DEF ProgramInv
<1>5. ExitCodeTells'
  BY <1>1 DEF ProgramInv, ExitCodeTells
<1>6. QED
  BY <1>1, <1>2, <1>3, <1>4, <1>5 DEF ProgramInv

\* A step of discover or validate after the walk.
LEMMA SurveyGoesOn ==
  ASSUME ProgramInv, ~Simulation, phase \in {"walk", "read"},
         UNCHANGED <<in, cfg, url, ran, aborted, corpusVars>>,
         \/ phase' = "read" /\ exit' = exit
         \/ phase' = "ended" /\ exit' \in {0, 1, 101}
  PROVE  ProgramInv'
<1>1. CorpusInv'
  BY CorpusStays DEF ProgramInv
<1>2. PhaseInv'
  BY DEF ProgramInv, PhaseInv, Phases, None, Simulation
<1>3. ConfigInv'
  BY QuietConfig DEF ProgramInv
<1>4. ExitCodeTells'
  BY DEF ExitCodeTells, Simulation
<1>5. QED
  BY <1>1, <1>2, <1>3, <1>4 DEF ProgramInv

LEMMA SurveySteps == ProgramInv /\ (Listed \/ Count \/ Examine \/ Printed) => ProgramInv'
<1> SUFFICES ASSUME ProgramInv, Listed \/ Count \/ Examine \/ Printed PROVE ProgramInv'
  OBVIOUS
<1>1. phase = "read" => ~Simulation
  BY DEF ProgramInv, PhaseInv
<1>2. CASE Listed
  <2>1. /\ phase = "walk" /\ ~Simulation
        /\ (phase' = "ended" /\ exit' = 1) \/ (phase' = "read" /\ exit' = exit)
        /\ UNCHANGED <<in, cfg, url, report, ran, aborted, corpusVars>>
    BY <1>2 DEF Listed, Ends, Goes
  <2>2. QED
    BY <2>1, SurveyGoesOn
<1>3. CASE Count
  <2>1. /\ phase = "read"
        /\ (phase' = "ended" /\ exit' \in {1, 101}) \/ (phase' = phase /\ exit' = exit)
        /\ UNCHANGED <<in, cfg, url, ran, aborted, corpusVars>>
    BY <1>3 DEF Count, Reading, Reported, Ends, PrintPanics
  <2>2. QED
    BY <1>1, <2>1, SurveyGoesOn
<1>4. CASE Examine
  <2>1. /\ phase = "read" /\ phase' = phase /\ exit' = exit
        /\ UNCHANGED <<in, cfg, url, ran, aborted, corpusVars>>
    BY <1>4 DEF Examine, Reading, Reported
  <2>2. QED
    BY <1>1, <2>1, SurveyGoesOn
<1>5. CASE Printed
  <2>1. /\ phase = "read" /\ phase' = "ended" /\ exit' \in {0, 101}
        /\ UNCHANGED <<in, cfg, url, ran, aborted, corpusVars>>
    BY <1>5 DEF Printed, Ends, PrintPanics
  <2>2. QED
    BY <1>1, <2>1, SurveyGoesOn
<1>6. QED
  BY <1>2, <1>3, <1>4, <1>5

\* A step of replay or synthetic-today before the run: on to the next phase, or the end.
LEMMA SimulationGoesOn ==
  ASSUME ProgramInv, Simulation, phase \in {"source", "walk"},
         UNCHANGED <<in, cfg, url, ran, aborted>>, CorpusInv',
         \/ phase' = "build" /\ exit' = exit
         \/ phase' = "walk" /\ exit' = exit
         \/ phase' = "ended" /\ exit' = 1
  PROVE  ProgramInv'
<1>1. ran = FALSE /\ aborted = FALSE
  BY DEF ProgramInv, PhaseInv
<1>2. PhaseInv'
  BY <1>1 DEF ProgramInv, PhaseInv, Phases, None, Simulation
<1>3. ConfigInv'
  BY QuietConfig DEF ProgramInv
<1>4. ExitCodeTells'
  BY <1>1 DEF ExitCodeTells, Simulation
<1>5. QED
  BY <1>2, <1>3, <1>4 DEF ProgramInv

LEMMA SourceSteps == ProgramInv /\ (Pinned \/ Search \/ Drawn) => ProgramInv'
<1> SUFFICES ASSUME ProgramInv, Pinned \/ Search \/ Drawn PROVE ProgramInv'
  OBVIOUS
<1>1. phase = "source" => Simulation /\ walk = "idle"
  BY DEF ProgramInv, PhaseInv
<1>2. CASE Pinned
  <2>1. /\ phase = "source" /\ ((phase' = "ended" /\ exit' = 1) \/ (phase' = "build" /\ exit' = exit))
        /\ UNCHANGED <<in, cfg, url, ran, aborted, corpusVars>>
    BY <1>2 DEF Pinned, Ends, Goes
  <2>2. CorpusInv'
    BY <2>1, CorpusStays DEF ProgramInv
  <2>3. QED
    BY <1>1, <2>1, <2>2, SimulationGoesOn
<1>3. CASE Search
  <2>1. /\ phase = "source" /\ ((phase' = "ended" /\ exit' = 1) \/ (phase' = "walk" /\ exit' = exit))
        /\ UNCHANGED <<in, cfg, url, ran, aborted>>
        /\ \E dir : WalkStarts(dir)
    BY <1>3 DEF Search, Ends, Goes
  <2>2. CorpusInv'
    BY <1>1, <2>1, WalkStartsStep DEF ProgramInv
  <2>3. QED
    BY <1>1, <2>1, <2>2, SimulationGoesOn
<1>4. CASE Drawn
  <2>1. /\ phase = "walk" /\ Simulation
        /\ (phase' = "ended" /\ exit' = 1) \/ (phase' = "build" /\ exit' = exit)
        /\ UNCHANGED <<in, cfg, url, ran, aborted, corpusVars>>
    BY <1>4 DEF Drawn, Ends, Goes
  <2>2. CorpusInv'
    BY <2>1, CorpusStays DEF ProgramInv
  <2>3. QED
    BY <2>1, <2>2, SimulationGoesOn
<1>5. QED
  BY <1>2, <1>3, <1>4

\* Steps of a run, which leave the corpus and the configuration alone.
LEMMA RunSteps == ProgramInv /\ (Build \/ Run \/ RunEnds) => ProgramInv'
<1> SUFFICES ASSUME ProgramInv, Build \/ Run \/ RunEnds PROVE ProgramInv'
  OBVIOUS
<1>1. /\ phase \in {"build", "ready", "running"} /\ Simulation
      /\ UNCHANGED <<in, cfg, left, report, corpusVars>>
  BY DEF Build, Run, RunEnds, ProgramInv, PhaseInv
<1>2. CorpusInv'
  BY <1>1, CorpusStays DEF ProgramInv
<1>3. IsInput(in)' /\ Simulation' /\ Single(cfg)
  BY <1>1, ConfigSingle DEF ProgramInv, Simulation
<1>4. CASE Build
  <2>1. ran = FALSE /\ aborted = FALSE /\ ran' = FALSE /\ aborted' = FALSE /\ phase = "build" /\ url = {}
    BY <1>4 DEF Build, ProgramInv, PhaseInv, ConfigInv
  <2>2. \/ phase' = "ready" /\ exit' = exit /\ \E c \in cfg : url' = Url(c)
        \/ phase' = "ended" /\ exit' = 1 /\ url' = url
    BY <1>4 DEF Build, Ends, Goes
  <2>3. PhaseInv'
    <3>1. exit = None
      BY <2>1 DEF ProgramInv, PhaseInv
    <3>2. CASE phase' = "ready"
      BY <1>1, <1>3, <2>1, <2>2, <3>1, <3>2 DEF PhaseInv, Phases, None
    <3>3. CASE phase' = "ended"
      <4>1. exit' = 1 /\ exit' # None /\ (ran' = FALSE) /\ (aborted' = FALSE)
        BY <2>1, <2>2, <3>3 DEF None
      <4>2. QED
        BY <3>3, <4>1 DEF PhaseInv, Phases
    <3>4. QED
      BY <2>2, <3>2, <3>3
  <2>4. phase' = "ready" => \A c \in cfg : url' = Url(c)
    BY <1>3, <2>2 DEF Single
  <2>5. ConfigInv'
    BY <1>1, <2>1, <2>2, <2>4 DEF ProgramInv, ConfigInv
  <2>6. ExitCodeTells'
    BY <2>1, <2>2 DEF ExitCodeTells, None, ProgramInv, PhaseInv
  <2>7. QED
    BY <1>2, <1>3, <2>3, <2>5, <2>6 DEF ProgramInv
<1>5. CASE Run
  <2>1. ran = FALSE /\ aborted = FALSE /\ aborted' = FALSE /\ url' = url /\ phase = "ready"
    BY <1>5 DEF Run, ProgramInv, PhaseInv
  <2>2. PICK c \in cfg : \E w \in c.recent_window :
          IF SpanPanics(w) THEN Ends(101) /\ UNCHANGED ran ELSE Goes("running") /\ ran' = TRUE
    BY <1>5 DEF Run
  <2>3. PICK w \in c.recent_window :
          IF SpanPanics(w) THEN Ends(101) /\ UNCHANGED ran ELSE Goes("running") /\ ran' = TRUE
    BY <2>2
  <2>4. \/ phase' = "ended" /\ exit' = 101 /\ ran' = FALSE
        \/ phase' = "running" /\ exit' = exit /\ ran' = TRUE /\ ~SpanPanics(w)
    BY <2>1, <2>3 DEF Ends, Goes
  <2>5. PhaseInv'
    <3>1. exit = None
      BY <2>1 DEF ProgramInv, PhaseInv
    <3>2. CASE phase' = "running"
      BY <1>1, <1>3, <2>1, <2>4, <3>1, <3>2 DEF PhaseInv, Phases, None
    <3>3. CASE phase' = "ended"
      <4>1. exit' = 101 /\ exit' # None /\ (ran' = FALSE) /\ (aborted' = FALSE)
        BY <2>1, <2>4, <3>3 DEF None
      <4>2. QED
        BY <3>3, <4>1 DEF PhaseInv, Phases
    <3>4. QED
      BY <2>4, <3>2, <3>3
  <2>6. ran' => \A d \in cfg : \A v \in d.recent_window : ~SpanPanics(v)
    <3>1. SUFFICES ASSUME ran', NEW d \in cfg, NEW v \in d.recent_window PROVE ~SpanPanics(v)
      OBVIOUS
    <3>2. d = c
      BY <1>3 DEF Single
    <3>3. v = w
      BY <3>2, ConfigSingle DEF ProgramInv, Single
    <3>4. QED
      BY <2>4, <3>1, <3>3
  <2>7. ConfigInv'
    BY <1>1, <2>1, <2>4, <2>6 DEF ProgramInv, ConfigInv
  <2>8. ExitCodeTells'
    BY <2>4 DEF ExitCodeTells
  <2>9. QED
    BY <1>2, <1>3, <2>5, <2>7, <2>8 DEF ProgramInv
<1>6. CASE RunEnds
  <2>1. /\ phase = "running" /\ aborted' \in BOOLEAN /\ phase' = "ended"
        /\ exit' = (IF aborted' THEN 2 ELSE 0) \/ (exit' = 101 /\ Speaks)
        /\ ran' = ran /\ url' = url /\ ran
    BY <1>6 DEF RunEnds, Ends, PrintPanics, ProgramInv, PhaseInv
  <2>2. PhaseInv'
    BY <1>1, <2>1 DEF ProgramInv, PhaseInv, Phases, None
  <2>3. ConfigInv'
    BY <1>1, <2>1 DEF ProgramInv, ConfigInv
  <2>4. ExitCodeTells'
    <3>1. Speaks => Speaks'
      BY <1>1 DEF Speaks
    <3>2. QED
      BY <2>1, <3>1 DEF ExitCodeTells
  <2>5. QED
    BY <1>2, <1>3, <2>2, <2>3, <2>4 DEF ProgramInv
<1>7. QED
  BY <1>4, <1>5, <1>6

LEMMA ProgramStep == ProgramInv /\ [Next]_vars => ProgramInv'
<1> SUFFICES ASSUME ProgramInv, [Next]_vars PROVE ProgramInv'
  OBVIOUS
<1>1. CASE Program
  <2>1. CASE WalkStep
    BY <2>1, WalkingStep DEF WalkStep
  <2>2. QED
    BY <1>1, <2>1, UsageStep, SurveyStep, ConfigureStep, SurveySteps, SourceSteps, RunSteps DEF Program
<1>2. CASE Others
  BY <1>2, WalkingStep DEF Others
<1>3. CASE UNCHANGED vars
  <2>1. UNCHANGED programVars /\ UNCHANGED corpusVars
    BY <1>3 DEF vars
  <2>2. CorpusInv'
    BY <2>1, CorpusStays DEF ProgramInv
  <2>3. UNCHANGED <<in, phase, cfg, url, ran, aborted, exit, walk>>
    BY <2>1 DEF programVars, corpusVars
  <2>4. PhaseInv' /\ ConfigInv'
    BY <2>3 DEF ProgramInv, PhaseInv, ConfigInv, Simulation
  <2>5. ExitCodeTells'
    BY <2>3 DEF ProgramInv, ExitCodeTells, Simulation, UsageError, Given, Speaks
  <2>6. QED
    BY <2>2, <2>3, <2>4, <2>5 DEF ProgramInv
<1>4. QED
  BY <1>1, <1>2, <1>3 DEF Next, CountsForEver, Ended

LEMMA ProgramAlways == Spec => []ProgramInv
BY ProgramInit, ProgramStep, PTL DEF Spec

\* Every state of an invocation is one of those it may be in (TypeOK), at most one
\* configuration and at most one URL included.
THEOREM MainTypeCorrect == Spec => []TypeOK
<1>1. ProgramInv => TypeOK
  <2> SUFFICES ASSUME ProgramInv PROVE TypeOK
    OBVIOUS
  <2>1. Cardinality(cfg) =< 1
    BY ConfigSingle, SingleCardinality DEF ProgramInv
  <2>2. Single(url)
    <3>1. PICK S : in.file.entries \in Seq(S)
      BY InputEntries DEF ProgramInv
    <3>2. url = {} \/ url = Url(Merged(in))
      BY ConfigSingle DEF ProgramInv, ConfigInv
    <3>3. QED
      BY <3>1, <3>2, UrlSingle DEF Single
  <2>3. Cardinality(url) =< 1
    BY <2>2, SingleCardinality
  <2>4. CorpusTypes
    BY CorpusTyped DEF ProgramInv
  <2>5. QED
    BY <2>1, <2>3, <2>4 DEF ProgramInv, PhaseInv, Phases, TypeOK
<1>2. QED
  BY <1>1, ProgramAlways, PTL

\* The exit code says what became of the events of a simulation: none were sent
\* with 1 or 101, the run came to its end with 0, it was aborted with 2.
THEOREM ExitCodeTellsAlways == Spec => []ExitCodeTells
<1>1. ProgramInv => ExitCodeTells
  BY DEF ProgramInv
<1>2. QED
  BY <1>1, ProgramAlways, PTL
-------------------------------------------------------------------------------
(* What a run may take for granted. *)

\* Where the text of an option comes from.
LEMMA TextOrigin ==
  ASSUME NEW in_, IsInput(in_), FileLoads(in_), NEW o, NEW t, NEW v \in Resolve(in_, o, t)
  PROVE  \/ v \in Default(o)
         \/ v # Unsupported /\ \E x \in {o} \cup EnvVar(o, t) : v \in Texts(in_, x)
<1>1. CASE v \in Given(in_.cli, o)
  BY <1>1 DEF Given, Texts, IsInput
<1>2. CASE v \in FromEnv(in_, o, t)
  <2>1. PICK x \in EnvVar(o, t) : v \in Given(in_.env, x)
    BY <1>2 DEF FromEnv
  <2>2. v # Unsupported
    BY <2>1 DEF Given, IsInput
  <2>3. QED
    BY <2>1, <2>2 DEF Texts
<1>3. CASE v \in FromFile(in_, o)
  <2>1. in_.file.state # "absent"
    BY <1>3 DEF FromFile
  <2>2. PICK i \in DOMAIN in_.file.entries : in_.file.entries[i].key = o /\ v = in_.file.entries[i].value
    BY <1>3 DEF FromFile
  <2>3. v # Unsupported
    BY <2>1, <2>2 DEF FileLoads
  <2>4. QED
    BY <2>2, <2>3 DEF Texts
<1>4. QED
  BY <1>1, <1>2, <1>3 DEF Resolve

\* An option with a default always has a text.
LEMMA TextExists ==
  ASSUME NEW in_, NEW o, NEW t, Default(o) # {}
  PROVE  Resolve(in_, o, t) # {}
BY DEF Resolve

\* The configuration of an input, option by option.
LEMMA MergedOption ==
  ASSUME NEW in_, NEW o \in Options
  PROVE  Merged(in_)[o] = UNION {Meaning(o, v) : v \in Text(in_, o)}
BY DEF Merged, Options, Numbers, WithVariable

LEMMA SizesPositive ==
  ASSUME NEW in_, IsInput(in_), NEW c \in Config(in_), NEW o \in {"workers", "batch_size", "lines"},
         NEW n \in c[o]
  PROVE  n \in Nat /\ n > 0
<1>1. c = Merged(in_) /\ FileLoads(in_) /\ Valid(c)
  BY DEF Config
<1>2. o \in Options /\ o \in Numbers
  BY DEF Options, Numbers
<1>3. PICK v \in Text(in_, o) : n \in Meaning(o, v)
  BY <1>1, <1>2, MergedOption
<1>4. n = v /\ v \notin {Empty, Garbage}
  BY <1>2, <1>3 DEF Meaning
<1>5. EnvVar(o, Transport(in_)) \subseteq {o}
  BY DEF EnvVar
<1>6. v \in Default(o) \/ (v # Unsupported /\ v \in Texts(in_, o))
  BY <1>1, <1>5, TextOrigin DEF Text
<1>7. Default(o) \subseteq Nat
  BY DEF Default
<1>8. Texts(in_, o) \subseteq Nat \cup {Empty, Garbage, Unsupported}
  BY DEF IsInput
<1>9. n \in Nat
  BY <1>4, <1>6, <1>7, <1>8
<1>10. n # 0
  BY <1>1 DEF Valid
<1>11. QED
  BY <1>9, <1>10

LEMMA AlwaysThere ==
  ASSUME NEW in_, NEW c \in Config(in_), NEW o \in {"retries", "timeout", "workers", "batch_size", "lines"}
  PROVE  c[o] # {}
<1>1. c = Merged(in_) /\ Parses(in_)
  BY DEF Config
<1>2. o \in Options
  BY DEF Options, Numbers
<1>3. Default(o) # {}
  BY DEF Default
<1>4. PICK v \in Text(in_, o) : TRUE
  BY <1>3, TextExists DEF Text
<1>5. Meaning(o, v) # {}
  BY <1>1, <1>2 DEF Parses
<1>6. QED
  BY <1>1, <1>2, <1>4, <1>5, MergedOption

\* What Pipeline, RateLimiter and the transports take for granted holds of every
\* run that Config::validate lets through.
THEOREM RunWellFoundedAlways == Spec => []RunWellFounded
<1>1. ProgramInv => RunWellFounded
  <2> SUFFICES ASSUME ProgramInv, NEW c \in cfg
               PROVE  /\ \A o \in {"workers", "batch_size", "lines"} : \E n \in c[o] : n \in Nat /\ n > 0
                      /\ c.retries # {} /\ c.timeout # {} /\ c.rate \cap {Negative, NaN} = {}
                      /\ c.transport = {"hec"} => c.endpoint # {} /\ c.hec_token # {}
                      /\ c.transport = {"otel"} => c.endpoint # {} /\ c.otel_protocol = {"http"}
    BY DEF RunWellFounded
  <2>1. c \in Config(in) /\ Valid(c) /\ IsInput(in)
    BY DEF ProgramInv, ConfigInv, Config
  <2>2. \A o \in {"workers", "batch_size", "lines"} : \A n \in c[o] : n \in Nat /\ n > 0
    BY <2>1, SizesPositive
  <2>3. c.retries # {} /\ c.timeout # {}
    BY <2>1, AlwaysThere
  <2>4. \A o \in {"workers", "batch_size", "lines"} : c[o] # {}
    BY <2>1, AlwaysThere
  <2>5. QED
    BY <2>1, <2>2, <2>3, <2>4 DEF Valid
<1>2. QED
  BY <1>1, ProgramAlways, PTL

LEMMA Remainder ==
  ASSUME NEW a \in Nat, NEW m \in Nat \ {0}
  PROVE  a % m \in Nat /\ a % m < m /\ a % m =< a /\ (a < m => a % m = a)
OBVIOUS

\* The ages that a window of so many seconds gives, once chrono has cut it.
LEMMA AgesOfSpan ==
  ASSUME NEW asked \in Nat, NEW w, w.kind = "seconds", w.seconds = asked % U64, ~SpanPanics(w)
  PROVE  /\ \A a \in OldestAndNewest(w) : 0 =< a /\ a =< asked
         /\ asked =< MaxNanos => asked \in OldestAndNewest(w)
<1> DEFINE s == asked % U64
<1>1. /\ U64 \in Nat \ {0} /\ MaxDelta \in Nat /\ MaxDate \in Nat /\ MaxNanos \in Nat
      /\ 3600 =< MaxDelta /\ MaxDelta < U64 /\ MaxNanos =< MaxDelta
  BY SettingsAssumption
<1>2. s \in Nat /\ s =< asked /\ (asked < U64 => s = asked)
  BY <1>1, Remainder
<1> HIDE DEF s
<1>3. Length(w) = IF s > MaxDelta THEN 3600 ELSE s
  BY DEF Length, s
<1>4. Length(w) \in Nat /\ Length(w) =< asked
  BY <1>1, <1>2, <1>3
<1>5. asked =< MaxNanos => Length(w) = asked
  BY <1>1, <1>2, <1>3
<1>6. OldestAndNewest(w) = IF Length(w) > MaxNanos \/ Length(w) = 0 THEN {Length(w)} ELSE {1, Length(w)}
  BY DEF OldestAndNewest
<1>7. QED
  BY <1>1, <1>4, <1>5, <1>6

\* The window of a configuration is the one its text stands for.
LEMMA WindowOf ==
  ASSUME NEW in_, IsInput(in_), NEW c \in Config(in_), NEW v \in Text(in_, "recent_window"), IsSpan(v)
  PROVE  /\ v.num \in Nat /\ v.unit \in DOMAIN UnitSeconds
         /\ c.recent_window = {[kind |-> "seconds", seconds |-> (v.num * UnitSeconds[v.unit]) % U64]}
<1>1. c = Merged(in_) /\ Parses(in_) /\ FileLoads(in_) /\ "recent_window" \in Options
  BY DEF Config, Options
<1>2. PICK S : in_.file.entries \in Seq(S)
  BY DEF IsInput
<1>3. Single(Text(in_, "recent_window"))
  BY <1>2, ResolveSingle DEF Text
<1>4. c.recent_window = UNION {Meaning("recent_window", u) : u \in Text(in_, "recent_window")}
  BY <1>1, MergedOption
<1>5. c.recent_window = Meaning("recent_window", v)
  BY <1>3, <1>4 DEF Single
<1>6. Meaning("recent_window", v) = ParseWindow(v)
  BY DEF Meaning, Numbers
<1>7. ParseWindow(v) # {}
  BY <1>1, <1>6 DEF Parses
<1>8. v.unit \in DOMAIN UnitSeconds
  BY <1>7 DEF ParseWindow, IsSpan
<1>9. ParseWindow(v) = {[kind |-> "seconds", seconds |-> (v.num * UnitSeconds[v.unit]) % U64]}
  BY <1>8 DEF ParseWindow, IsSpan
<1>10. v.num \in Nat
  <2>1. EnvVar("recent_window", Transport(in_)) = {}
    BY DEF EnvVar, WithVariable
  <2>2. v \in Default("recent_window") \/ (v # Unsupported /\ v \in Texts(in_, "recent_window"))
    BY <1>1, <2>1, TextOrigin DEF Text
  <2>3. v \in Default("recent_window") => v.num = 1
    BY DEF Default
  <2>4. QED
    BY <2>2, <2>3 DEF IsInput
<1>11. QED
  BY <1>5, <1>6, <1>8, <1>9, <1>10

\* No event is dated before the window asked for or in the future, whatever the
\* product by the unit, the calendar and the nanoseconds make of the window.
THEOREM WindowHonouredAlways == Spec => []WindowHonoured
<1>1. ProgramInv => WindowHonoured
  <2> SUFFICES ASSUME ProgramInv, ran, NEW c \in cfg, NEW v \in Text(in, "recent_window"), IsSpan(v)
               PROVE  LET asked == v.num * UnitSeconds[v.unit]
                          ages == UNION {OldestAndNewest(w) : w \in c.recent_window}
                      IN  (\A a \in ages : 0 =< a /\ a =< asked) /\ (asked =< MaxNanos => asked \in ages)
    BY DEF WindowHonoured
  <2> DEFINE asked == v.num * UnitSeconds[v.unit]
  <2> DEFINE w == [kind |-> "seconds", seconds |-> asked % U64]
  <2>1. c \in Config(in) /\ IsInput(in) /\ \A x \in c.recent_window : ~SpanPanics(x)
    BY DEF ProgramInv, ConfigInv
  <2>2. v.num \in Nat /\ v.unit \in DOMAIN UnitSeconds /\ c.recent_window = {w}
    BY <2>1, WindowOf
  <2>3. asked \in Nat
    <3>1. UnitSeconds[v.unit] \in Nat
      BY <2>2 DEF UnitSeconds
    <3>2. QED
      BY <2>2, <3>1
  <2>4. w.kind = "seconds" /\ w.seconds = asked % U64 /\ ~SpanPanics(w)
    BY <2>1, <2>2
  <2> HIDE DEF asked, w
  <2>5. /\ \A a \in OldestAndNewest(w) : 0 =< a /\ a =< asked
        /\ asked =< MaxNanos => asked \in OldestAndNewest(w)
    BY <2>3, <2>4, AgesOfSpan
  <2>6. UNION {OldestAndNewest(x) : x \in c.recent_window} = OldestAndNewest(w)
    BY <2>2
  <2>7. QED
    BY <2>5, <2>6 DEF asked
<1>2. QED
  BY <1>1, ProgramAlways, PTL
-------------------------------------------------------------------------------
(* Where events are sent. *)

\* What is left of a URL whose slashes at the end are cut off.
IsBase(b) == b \in Seq(UrlText) /\ Len(b) >= 1 /\ (b[Len(b)] # Empty \/ b = <<Empty>>)

LEMMA TrimBase ==
  ASSUME NEW u \in Seq(UrlText)
  PROVE  IsBase(Trim(u))
<1> DEFINE full == {i \in 1..Len(u) : u[i] # Empty}
<1>1. Len(u) \in Nat /\ full \subseteq 0..Len(u) /\ full \subseteq 1..Len(u)
  OBVIOUS
<1>2. CASE full = {}
  <2>1. Trim(u) = <<Empty>>
    BY <1>2 DEF Trim
  <2>2. <<Empty>> \in Seq(UrlText) /\ Len(<<Empty>>) = 1
    <3>1. Empty \in UrlText
      BY SettingsAssumption
    <3>2. QED
      BY <3>1
  <2>3. QED
    BY <2>1, <2>2 DEF IsBase
<1>3. CASE full # {}
  <2> DEFINE m == CHOOSE i \in full : \A j \in full : j =< i
  <2>1. \E i \in full : \A j \in full : j =< i
    BY <1>1, <1>3, GreatestOf
  <2>2. m \in full
    BY <2>1
  <2>3. Trim(u) = SubSeq(u, 1, m)
    BY <1>3 DEF Trim
  <2>4. m \in 1..Len(u) /\ m \in Nat /\ u[m] # Empty
    BY <2>2
  <2> HIDE DEF m
  <2>5. \A i \in 1..m : u[i] \in UrlText
    BY <2>4
  <2>6. /\ SubSeq(u, 1, m) \in Seq(UrlText) /\ Len(SubSeq(u, 1, m)) = m
        /\ SubSeq(u, 1, m)[m] = u[m]
    BY <2>4, <2>5, SubSeqProperties
  <2>7. QED
    BY <2>3, <2>4, <2>6 DEF IsBase
<1>4. QED
  BY <1>2, <1>3

\* A URL that ends with no slash stays as it is.
LEMMA TrimKept ==
  ASSUME NEW u \in Seq(UrlText), Len(u) >= 1, u[Len(u)] # Empty
  PROVE  Trim(Pieces(u)) = u
<1> DEFINE full == {i \in 1..Len(u) : u[i] # Empty}
<1>1. Len(u) \in Nat /\ Len(u) \in full /\ full \subseteq 1..Len(u)
  OBVIOUS
<1> DEFINE m == CHOOSE i \in full : \A j \in full : j =< i
<1>2. \E i \in full : \A j \in full : j =< i
  BY <1>1
<1>3. m \in full /\ \A j \in full : j =< m
  BY <1>2
<1>4. Trim(u) = SubSeq(u, 1, m)
  BY <1>1 DEF Trim
<1> HIDE DEF m
<1>5. m = Len(u)
  <2>1. m \in 1..Len(u) /\ Len(u) =< m
    BY <1>1, <1>3
  <2>2. QED
    BY <1>1, <2>1
<1>6. Trim(u) = u
  BY <1>4, <1>5, SubSeqFull
<1>7. u # Empty
  BY SettingsAssumption
<1>8. QED
  BY <1>6, <1>7 DEF Pieces

\* Either transport builds a URL below the one it was given, which begins with
\* the same pieces.
LEMMA UrlBelow ==
  ASSUME NEW base, IsBase(base), NEW path \in Seq(UrlText)
  PROVE  Under(base \o path, base) /\ Under(base, base)
<1>1. base \in Seq(UrlText) /\ Len(base) \in Nat /\ Len(base) \in 1..Len(base)
  BY DEF IsBase
<1>2. SubSeq(base, 1, Len(base)) = base
  BY <1>1, SubSeqFull
<1>3. SubSeq(base \o path, 1, Len(base)) = SubSeq(base, 1, Len(base))
  <2>1. 1 \in 1..Len(base)
    BY <1>1
  <2>2. QED
    BY <1>1, <2>1, SubSeqOfConcat1
<1>4. Len(base \o path) >= Len(base)
  BY <1>1
<1>5. QED
  BY <1>1, <1>2, <1>3, <1>4 DEF Under

OtelPath == <<"v1", "logs">>
HecPath == <<"services", "collector", "event">>

LEMMA PathTypes ==
  /\ OtelPath \in Seq(UrlText) /\ Len(OtelPath) = 2 /\ OtelPath[1] = "v1" /\ OtelPath[2] = "logs"
  /\ HecPath \in Seq(UrlText) /\ Len(HecPath) = 3
  /\ HecPath[1] = "services" /\ HecPath[2] = "collector" /\ HecPath[3] = "event"
<1>1. {"v1", "logs", "services", "collector", "event"} \subseteq UrlText
  BY SettingsAssumption
<1>2. QED
  BY <1>1 DEF OtelPath, HecPath

LEMMA Joined ==
  ASSUME NEW s \in Seq(UrlText), NEW t \in Seq(UrlText)
  PROVE  /\ s \o t \in Seq(UrlText) /\ Len(s \o t) = Len(s) + Len(t)
         /\ \A k \in 1..Len(s) : (s \o t)[k] = s[k]
         /\ \A k \in 1..Len(t) : (s \o t)[Len(s) + k] = t[k]
<1>1. Len(s) \in Nat /\ Len(t) \in Nat
  OBVIOUS
<1>2. /\ s \o t \in Seq(UrlText) /\ Len(s \o t) = Len(s) + Len(t)
      /\ \A i \in 1..(Len(s) + Len(t)) : (s \o t)[i] = IF i <= Len(s) THEN s[i] ELSE t[i - Len(s)]
  BY ConcatProperties
<1>3. ASSUME NEW k \in 1..Len(s) PROVE (s \o t)[k] = s[k]
  BY <1>1, <1>2
<1>4. ASSUME NEW k \in 1..Len(t) PROVE (s \o t)[Len(s) + k] = t[k]
  <2>1. Len(s) + k \in 1..(Len(s) + Len(t)) /\ ~(Len(s) + k =< Len(s)) /\ (Len(s) + k) - Len(s) = k
    BY <1>1
  <2>2. QED
    BY <1>2, <2>1
<1>5. QED
  BY <1>2, <1>3, <1>4

\* The event collector's URL: given back, it stays as it is.
LEMMA HecUrlKept ==
  ASSUME NEW e, IsBase(Trim(Pieces(e)))
  PROVE  Under(HecUrl(e), Trim(Pieces(e))) /\ HecUrl(HecUrl(e)) = HecUrl(e)
<1> DEFINE base == Trim(Pieces(e))
<1> DEFINE u == HecUrl(e)
<1> DEFINE Full(b) == \E i \in 2..(Len(b) - 2) : b[i] = "services" /\ b[i + 1] = "collector"
<1>1. u = IF Full(base) THEN base ELSE base \o HecPath
  BY DEF HecUrl, HecPath
<1>2. HecUrl(u) = IF Full(Trim(Pieces(u))) THEN Trim(Pieces(u)) ELSE Trim(Pieces(u)) \o HecPath
  BY DEF HecUrl, HecPath
<1>3. IsBase(base)
  OBVIOUS
<1> HIDE DEF base, u
<1>4. base \in Seq(UrlText) /\ Len(base) \in Nat /\ Len(base) >= 1
  BY <1>3 DEF IsBase
<1>5. u \in Seq(UrlText) /\ Len(u) >= 1 /\ u[Len(u)] # Empty /\ Full(u)
  <2>1. CASE Full(base)
    <3>1. Len(base) # 1
      BY <1>4, <2>1
    <3>2. base # <<Empty>>
      BY <3>1
    <3>3. QED
      BY <1>1, <1>3, <1>4, <2>1, <3>2 DEF IsBase
  <2>2. CASE ~Full(base)
    <3>1. /\ u = base \o HecPath /\ u \in Seq(UrlText) /\ Len(u) = Len(base) + 3
          /\ u[Len(base) + 1] = "services" /\ u[Len(base) + 2] = "collector" /\ u[Len(base) + 3] = "event"
      <4>1. u = base \o HecPath
        BY <1>1, <2>2
      <4>2. u \in Seq(UrlText) /\ Len(u) = Len(base) + 3
        BY <1>4, <4>1, PathTypes, Joined
      <4>3. \A k \in 1..3 : (base \o HecPath)[Len(base) + k] = HecPath[k]
        BY <1>4, PathTypes, Joined
      <4>4. QED
        BY <4>1, <4>2, <4>3, PathTypes
    <3>2. Len(base) + 1 \in 2..(Len(u) - 2) /\ (Len(base) + 1) + 1 = Len(base) + 2
      BY <1>4, <3>1
    <3>3. Full(u)
      BY <3>1, <3>2
    <3>4. "event" # Empty
      BY SettingsAssumption
    <3>5. QED
      BY <1>4, <3>1, <3>3, <3>4
  <2>3. QED
    BY <2>1, <2>2
<1>6. Trim(Pieces(u)) = u
  BY <1>5, TrimKept
<1>7. HecUrl(u) = u
  BY <1>2, <1>5, <1>6
<1>8. Under(u, base)
  BY <1>1, <1>3, PathTypes, UrlBelow
<1>9. QED
  BY <1>7, <1>8 DEF u, base

LEMMA AtLeast ==
  ASSUME NEW n \in Nat, n >= 1, n # 1
  PROVE  2 \in 1..n /\ (n # 2 => n >= 3)
OBVIOUS

\* The collector's URL of OTLP, if it has a scheme: given back, it stays as it is.
LEMMA OtelUrlKept ==
  ASSUME NEW e, IsBase(Trim(Pieces(e)))
  PROVE  /\ Under(OtelUrl(e), Trim(Pieces(e)))
         /\ LET u == OtelUrl(e) IN u[1] \in WithColon /\ u[2] = Empty => OtelUrl(u) = u
<1> DEFINE base == Trim(Pieces(e))
<1> DEFINE u == OtelUrl(e)
<1>1. u = IF HasPath(base) THEN base ELSE base \o OtelPath
  BY DEF OtelUrl, OtelPath
<1>2. OtelUrl(u) = IF HasPath(Trim(Pieces(u))) THEN Trim(Pieces(u)) ELSE Trim(Pieces(u)) \o OtelPath
  BY DEF OtelUrl, OtelPath
<1>3. IsBase(base)
  OBVIOUS
<1> HIDE DEF base, u
<1>4. base \in Seq(UrlText) /\ Len(base) \in Nat /\ Len(base) >= 1
  BY <1>3 DEF IsBase
<1>5. ASSUME u[1] \in WithColon, u[2] = Empty
      PROVE  u \in Seq(UrlText) /\ Len(u) >= 1 /\ u[Len(u)] # Empty /\ HasPath(u)
  <2>1. CASE HasPath(base)
    <3>1. Len(base) # 1
      BY <1>4, <2>1 DEF HasPath
    <3>2. base # <<Empty>>
      BY <3>1
    <3>3. QED
      BY <1>1, <1>3, <1>4, <2>1, <3>2 DEF IsBase
  <2>2. CASE ~HasPath(base)
    <3>1. u = base \o OtelPath
      BY <1>1, <2>2
    <3>2. u \in Seq(UrlText) /\ Len(u) = Len(base) + 2
      BY <1>4, <3>1, PathTypes, Joined
    <3>3. /\ \A k \in 1..Len(base) : (base \o OtelPath)[k] = base[k]
          /\ \A k \in 1..2 : (base \o OtelPath)[Len(base) + k] = OtelPath[k]
      BY <1>4, PathTypes, Joined
    <3>4. u[Len(base) + 1] = "v1" /\ u[Len(base) + 2] = "logs"
      <4>1. 1 \in 1..2 /\ 2 \in 1..2
        OBVIOUS
      <4>2. QED
        BY <3>1, <3>3, <4>1, PathTypes
    <3>5. "v1" # Empty /\ "logs" # Empty
      BY SettingsAssumption
    <3>6. Len(base) # 1
      <4>1. ASSUME Len(base) = 1 PROVE u[2] = "v1"
        <5>1. Len(base) + 1 = 2
          BY <4>1
        <5>2. QED
          BY <3>4, <5>1
      <4>2. QED
        BY <1>5, <3>5, <4>1
    <3>7. Len(base) # 2
      <4>1. 2 \in 1..Len(base)
        BY <1>4, <3>6, AtLeast
      <4>2. base[2] = Empty
        BY <1>5, <3>1, <3>3, <4>1
      <4>3. base # <<Empty>>
        BY <3>6
      <4>4. QED
        BY <1>3, <4>2, <4>3 DEF IsBase
    <3>8. 1 \in 1..(Len(u) - 3)
      <4>1. Len(base) >= 3
        BY <1>4, <3>6, <3>7, AtLeast
      <4>2. Len(u) - 3 \in Nat /\ Len(u) - 3 >= 1
        BY <1>4, <3>2, <4>1
      <4>3. QED
        BY <4>2
    <3>9. HasPath(u)
      BY <1>5, <3>8 DEF HasPath
    <3>10. QED
      BY <1>4, <3>2, <3>4, <3>5, <3>9
  <2>3. QED
    BY <2>1, <2>2
<1>6. ASSUME u[1] \in WithColon, u[2] = Empty
      PROVE  OtelUrl(u) = u
  <2>1. Trim(Pieces(u)) = u
    BY <1>5, <1>6, TrimKept
  <2>2. QED
    BY <1>2, <1>5, <1>6, <2>1
<1>7. Under(u, base)
  BY <1>1, <1>3, PathTypes, UrlBelow
<1>8. QED
  BY <1>6, <1>7 DEF u, base

\* The transport of a configuration, and that of the text it comes from.
LEMMA TransportOf ==
  ASSUME NEW in_, IsInput(in_), NEW c \in Config(in_)
  PROVE  /\ c.transport = Transport(in_)
         /\ c.transport \in {{"stdout"}, {"otel"}, {"hec"}}
<1>1. c = Merged(in_) /\ Parses(in_) /\ "transport" \in Options
  BY DEF Config, Options, WithVariable
<1>2. PICK S : in_.file.entries \in Seq(S)
  BY DEF IsInput
<1>3. Text(in_, "transport") = Resolve(in_, "transport", {})
  BY DEF Text, Resolve, FromEnv, EnvVar
<1>4. c.transport = UNION {Meaning("transport", v) : v \in Text(in_, "transport")}
  BY <1>1, MergedOption
<1>5. c.transport = Transport(in_)
  BY <1>3, <1>4 DEF Transport
<1>6. Default("transport") # {}
  BY DEF Default
<1>7. PICK v \in Text(in_, "transport") : Meaning("transport", v) # {}
  BY <1>1, <1>6, TextExists DEF Parses, Text
<1>8. Meaning("transport", v) = {v} \cap {"stdout", "otel", "hec"}
  BY DEF Meaning, Numbers
<1>9. Single(Text(in_, "transport"))
  BY <1>2, ResolveSingle DEF Text
<1>10. c.transport = {v} \cap {"stdout", "otel", "hec"}
  BY <1>4, <1>7, <1>8, <1>9 DEF Single
<1>11. QED
  BY <1>5, <1>7, <1>8, <1>10

\* A configured endpoint was named: on the command line, in the file, or in the
\* variable of this transport.  It has pieces, unless it is the empty text.
LEMMA EndpointOf ==
  ASSUME IsInput(in), NEW c \in Config(in), NEW e \in c.endpoint, c.transport # {"stdout"}
  PROVE  e \in NamedEndpoints(c) /\ IsBase(Trim(Pieces(e)))
<1>1. c = Merged(in) /\ FileLoads(in) /\ "endpoint" \in Options
  BY DEF Config, Options
<1>2. PICK v \in Text(in, "endpoint") : e \in Meaning("endpoint", v)
  BY <1>1, MergedOption
<1>3. e \in Resolve(in, "endpoint", c.transport)
  <2>1. Meaning("endpoint", v) = {v}
    BY DEF Meaning, Numbers
  <2>2. c.transport = Transport(in)
    BY TransportOf
  <2>3. QED
    BY <1>2, <2>1, <2>2 DEF Text
<1>4. c.transport = {"otel"} \/ c.transport = {"hec"}
  BY TransportOf
<1>5. EnvVar("endpoint", c.transport) = {IF c.transport = {"otel"} THEN "otel_endpoint" ELSE "hec_endpoint"}
  <2>1. {"otel"} # {"hec"}
    OBVIOUS
  <2>2. QED
    BY <1>4, <2>1 DEF EnvVar
<1>6. Default("endpoint") = {}
  BY DEF Default
<1>7. e \in NamedEndpoints(c)
  BY <1>3, <1>5, <1>6 DEF Resolve, FromEnv, NamedEndpoints
<1>8. e = Empty \/ (e # <<>> /\ e \in Seq(UrlText))
  <2>1. e # Unsupported /\ \E x \in {"endpoint"} \cup EnvVar("endpoint", c.transport) : e \in Texts(in, x)
    BY <1>1, <1>3, <1>6, TextOrigin
  <2>2. QED
    BY <1>5, <2>1 DEF IsInput
<1>9. Pieces(e) \in Seq(UrlText)
  <2>1. <<Empty>> \in Seq(UrlText)
    BY SettingsAssumption
  <2>2. QED
    BY <1>8, <2>1 DEF Pieces
<1>10. QED
  BY <1>7, <1>9, TrimBase

\* Events go to a server that was named for their transport or for any, at a
\* URL that is left alone when it is given back.
THEOREM SendsOnlyWhereToldAlways == Spec => []SendsOnlyWhereTold
<1>1. ProgramInv => NamedServersOnly
  <2> SUFFICES ASSUME ProgramInv, ran, NEW c \in cfg
               PROVE  /\ c.transport # {"stdout"} => url # {}
                      /\ \A u \in url : \E e \in NamedEndpoints(c) : Under(u, Trim(Pieces(e)))
    BY DEF NamedServersOnly
  <2>1. IsInput(in) /\ c \in Config(in) /\ Valid(c) /\ url = Url(c)
    BY DEF ProgramInv, ConfigInv, Config
  <2>2. c.transport \in {{"stdout"}, {"otel"}, {"hec"}}
    BY <2>1, TransportOf
  <2>3. {"stdout"} # {"otel"} /\ {"stdout"} # {"hec"} /\ {"otel"} # {"hec"}
    OBVIOUS
  <2>4. url = IF c.transport = {"otel"} THEN {OtelUrl(e) : e \in c.endpoint}
              ELSE IF c.transport = {"hec"} THEN {HecUrl(e) : e \in c.endpoint} ELSE {}
    BY <2>1, <2>3 DEF Url
  <2>5. c.transport # {"stdout"} => c.endpoint # {}
    BY <2>1 DEF Valid
  <2>6. c.transport # {"stdout"} => url # {}
    BY <2>2, <2>3, <2>4, <2>5
  <2>7. ASSUME NEW u \in url
        PROVE  \E e \in NamedEndpoints(c) : Under(u, Trim(Pieces(e)))
    <3>1. PICK e \in c.endpoint : /\ u = OtelUrl(e) \/ u = HecUrl(e)
                                  /\ c.transport # {"stdout"}
      BY <2>3, <2>4, <2>7
    <3>2. e \in NamedEndpoints(c) /\ IsBase(Trim(Pieces(e)))
      BY <2>1, <3>1, EndpointOf
    <3>3. Under(u, Trim(Pieces(e)))
      BY <3>1, <3>2, OtelUrlKept, HecUrlKept
    <3>4. QED
      BY <3>2, <3>3
  <2>8. QED
    BY <2>6, <2>7
<1>2. ProgramInv => FullUrlKept
  <2> SUFFICES ASSUME ProgramInv, NEW c \in cfg, NEW u \in url
               PROVE  IF c.transport = {"hec"} THEN HecUrl(u) = u
                      ELSE (u[1] \in WithColon /\ u[2] = Empty => OtelUrl(u) = u)
    BY DEF FullUrlKept
  <2>1. IsInput(in) /\ c \in Config(in) /\ url = Url(c)
    BY ConfigSingle DEF ProgramInv, ConfigInv
  <2>2. {"stdout"} # {"otel"} /\ {"stdout"} # {"hec"} /\ {"otel"} # {"hec"}
    OBVIOUS
  <2>3. url = IF c.transport = {"otel"} THEN {OtelUrl(e) : e \in c.endpoint}
              ELSE IF c.transport = {"hec"} THEN {HecUrl(e) : e \in c.endpoint} ELSE {}
    BY <2>1, <2>2 DEF Url
  <2>4. PICK e \in c.endpoint :
          /\ c.transport # {"stdout"}
          /\ u = IF c.transport = {"hec"} THEN HecUrl(e) ELSE OtelUrl(e)
    BY <2>2, <2>3
  <2>5. IsBase(Trim(Pieces(e)))
    BY <2>1, <2>4, EndpointOf
  <2>6. QED
    BY <2>4, <2>5, HecUrlKept, OtelUrlKept
<1>3. ProgramInv => SendsOnlyWhereTold
  BY <1>1, <1>2 DEF SendsOnlyWhereTold
<1>4. QED
  BY <1>3, ProgramAlways, PTL
-------------------------------------------------------------------------------
(* Precedence. *)

\* All that the outcome of an input depends on.
LEMMA OutcomeOf ==
  ASSUME NEW i, NEW j, i.cmd = j.cmd, FileLoads(i) <=> FileLoads(j), FlagsOn(i) = FlagsOn(j),
         Resolve(i, "transport", {}) = Resolve(j, "transport", {}),
         \A p \in Options : Resolve(i, p, Transport(i)) = Resolve(j, p, Transport(i))
  PROVE  Outcome(i) = Outcome(j)
<1>1. Transport(i) = Transport(j)
  BY DEF Transport
<1>2. \A p \in Options : Text(i, p) = Text(j, p)
  BY <1>1 DEF Text
<1>3. Merged(i) = Merged(j)
  <2>1. \A p \in Options \cup {"mode", "flags"} :
          (IF p = "mode" THEN {i.cmd} ELSE IF p = "flags" THEN FlagsOn(i)
           ELSE UNION {Meaning(p, v) : v \in Text(i, p)})
          = (IF p = "mode" THEN {j.cmd} ELSE IF p = "flags" THEN FlagsOn(j)
             ELSE UNION {Meaning(p, v) : v \in Text(j, p)})
    BY <1>2
  <2>2. QED
    BY <2>1 DEF Merged
<1>4. Parses(i) <=> Parses(j)
  BY <1>2 DEF Parses
<1>5. Config(i) = Config(j)
  BY <1>3, <1>4 DEF Config
<1>6. "recent_window" \in Options
  BY DEF Options
<1>7. ConfigPanics(i) <=> ConfigPanics(j)
  BY <1>1, <1>2, <1>6 DEF ConfigPanics
<1>8. ConfigPanics(i) = ConfigPanics(j)
  <2>1. ConfigPanics(i) \in BOOLEAN /\ ConfigPanics(j) \in BOOLEAN
    BY DEF ConfigPanics
  <2> HIDE DEF ConfigPanics
  <2>2. QED
    BY <1>7, <2>1
<1>9. QED
  BY <1>5, <1>8 DEF Outcome

\* Every variable belongs to one option.
LEMMA VariableOfOne ==
  ASSUME NEW o \in Options, NEW p \in Options, o # p, NEW t, NEW x \in EnvVar(o, t)
  PROVE  x \notin EnvVar(p, t)
BY DEF EnvVar, WithVariable

\* A variable of an option that is typed.
LEMMA VariableShadowed ==
  ASSUME IsInput(in), NEW o \in Options, Typed(o), NEW x \in EnvVar(o, Transport(in)), NEW v
  PROVE  Outcome([in EXCEPT !.env = WithVar(@, x, v)]) = Outcome(in)
<1> DEFINE j == [in EXCEPT !.env = WithVar(@, x, v)]
<1>1. j.cmd = in.cmd /\ j.cli = in.cli /\ j.file = in.file /\ j.env = WithVar(in.env, x, v)
  BY DEF IsInput
<1> HIDE DEF j
<1>2. \A y : y # x => Given(j.env, y) = Given(in.env, y)
  BY <1>1 DEF WithVar, Given
<1>3. \A p : FromFile(j, p) = FromFile(in, p)
  BY <1>1 DEF FromFile
<1>4. FileLoads(j) <=> FileLoads(in)
  BY <1>1 DEF FileLoads
<1>5. FlagsOn(j) = FlagsOn(in)
  BY <1>1, <1>3 DEF FlagsOn
<1>6. ASSUME NEW p, NEW t, p = o \/ x \notin EnvVar(p, t)
      PROVE  Resolve(in, p, t) = Resolve(j, p, t)
  <2>1. CASE p = o
    <3>1. Given(in.cli, p) # {}
      BY <2>1 DEF Typed, Given
    <3>2. QED
      BY <1>1, <3>1 DEF Resolve
  <2>2. CASE x \notin EnvVar(p, t)
    <3>1. FromEnv(j, p, t) = FromEnv(in, p, t)
      BY <1>2, <2>2 DEF FromEnv
    <3>2. QED
      BY <1>1, <1>3, <3>1 DEF Resolve
  <2>3. QED
    BY <1>6, <2>1, <2>2
<1>7. \A p \in Options : Resolve(in, p, Transport(in)) = Resolve(j, p, Transport(in))
  BY <1>6, VariableOfOne
<1>8. Resolve(in, "transport", {}) = Resolve(j, "transport", {})
  <2>1. EnvVar("transport", {}) = {"transport"}
    BY DEF EnvVar, WithVariable
  <2>2. x = "transport" => o = "transport"
    BY DEF EnvVar
  <2>3. QED
    BY <1>6, <2>1, <2>2
<1>9. QED
  BY <1>1, <1>4, <1>5, <1>7, <1>8, OutcomeOf DEF j

\* Another key at the end of a file is found under that key only.
LEMMA AppendedEntry ==
  ASSUME NEW S, NEW entries \in Seq(S), NEW e
  PROVE  /\ DOMAIN entries \subseteq DOMAIN Append(entries, e)
         /\ \A k \in DOMAIN entries : Append(entries, e)[k] = entries[k]
         /\ \A k \in DOMAIN Append(entries, e) \ DOMAIN entries : Append(entries, e)[k] = e
         /\ DOMAIN Append(entries, e) \ DOMAIN entries # {}
<1>1. entries \in Seq(S \cup {e})
  OBVIOUS
<1>2. QED
  BY <1>1, AppendProperties

\* An entry for an option that is typed, or has its variable.
LEMMA EntryShadowed ==
  ASSUME IsInput(in), NEW o \in Options, NEW v, v # Unsupported,
         Typed(o) \/ FromEnv(in, o, Transport(in)) # {}
  PROVE  Outcome([in EXCEPT !.file.entries = Append(@, [key |-> o, value |-> v])]) = Outcome(in)
<1> DEFINE e == [key |-> o, value |-> v]
           more == Append(in.file.entries, e)
           j == [in EXCEPT !.file.entries = Append(@, [key |-> o, value |-> v])]
<1>1. j.cmd = in.cmd /\ j.cli = in.cli /\ j.env = in.env /\ j.file.state = in.file.state /\ j.file.entries = more
  BY DEF IsInput
<1>2. /\ DOMAIN in.file.entries \subseteq DOMAIN more
      /\ \A k \in DOMAIN in.file.entries : more[k] = in.file.entries[k]
      /\ \A k \in DOMAIN more \ DOMAIN in.file.entries : more[k] = e
      /\ DOMAIN more \ DOMAIN in.file.entries # {}
  BY AppendedEntry DEF IsInput
<1>3. e.key = o /\ e.value = v
  OBVIOUS
<1> HIDE DEF j, more, e
<1>4. FileLoads(j) <=> FileLoads(in)
  BY <1>1, <1>2, <1>3 DEF FileLoads
<1>5. ASSUME NEW p, p # o
      PROVE  FromFile(j, p) = FromFile(in, p)
  <2> DEFINE hits == {k \in DOMAIN in.file.entries : in.file.entries[k].key = p}
             hitsj == {k \in DOMAIN more : more[k].key = p}
  <2>1. hitsj = hits /\ \A k \in hits : more[k] = in.file.entries[k]
    BY <1>2, <1>3, <1>5
  <2>2. FromFile(in, p) = IF in.file.state = "absent" THEN {}
          ELSE {in.file.entries[k].value : k \in {a \in hits : \A b \in hits : b =< a}}
    BY DEF FromFile
  <2>3. FromFile(j, p) = IF in.file.state = "absent" THEN {}
          ELSE {more[k].value : k \in {a \in hitsj : \A b \in hitsj : b =< a}}
    BY <1>1 DEF FromFile
  <2> HIDE DEF hits, hitsj
  <2>4. QED
    BY <2>1, <2>2, <2>3
<1>6. FlagsOn(j) = FlagsOn(in)
  <2>1. o \notin Flags
    BY DEF Flags, Options, Numbers, WithVariable
  <2>2. \A f \in Flags : FromFile(j, f) = FromFile(in, f)
    BY <1>5, <2>1
  <2>3. QED
    BY <1>1, <2>2 DEF FlagsOn
<1>7. ASSUME NEW p, NEW t, p # o \/ Typed(o) \/ FromEnv(in, o, t) # {}
      PROVE  Resolve(in, p, t) = Resolve(j, p, t)
  <2>1. FromEnv(j, p, t) = FromEnv(in, p, t)
    BY <1>1 DEF FromEnv
  <2>2. CASE p # o
    BY <1>1, <1>5, <2>1, <2>2 DEF Resolve
  <2>3. CASE p = o /\ Typed(o)
    <3>1. Given(in.cli, p) # {}
      BY <2>3 DEF Typed, Given
    <3>2. QED
      BY <1>1, <3>1 DEF Resolve
  <2>4. CASE p = o /\ FromEnv(in, o, t) # {}
    BY <1>1, <2>1, <2>4 DEF Resolve
  <2>5. QED
    BY <1>7, <2>2, <2>3, <2>4
<1>8. \A p \in Options : Resolve(in, p, Transport(in)) = Resolve(j, p, Transport(in))
  BY <1>7
<1>9. Resolve(in, "transport", {}) = Resolve(j, "transport", {})
  <2>1. EnvVar("transport", {}) = EnvVar("transport", Transport(in))
    BY DEF EnvVar
  <2>2. FromEnv(in, "transport", {}) = FromEnv(in, "transport", Transport(in))
    BY <2>1 DEF FromEnv
  <2>3. QED
    BY <1>7, <2>2
<1>10. QED
  BY <1>1, <1>4, <1>6, <1>8, <1>9, OutcomeOf DEF j

\* A text in a place that another one precedes does not change what becomes of a run.
THEOREM ShadowedNeverMattersAlways == Spec => []ShadowedNeverMatters
<1>1. \A o : \A v \in Rivals(o) : v # Unsupported
  BY SettingsAssumption DEF Rivals
<1>2. ProgramInv => ShadowedNeverMatters
  BY <1>1, VariableShadowed, EntryShadowed DEF ShadowedNeverMatters, ProgramInv
<1>3. QED
  BY <1>2, ProgramAlways, PTL
-------------------------------------------------------------------------------
(* The inventory. *)

LEMMA ExactStep == ProgramInv /\ ExactInv /\ [Next]_vars => ExactInv'
<1> SUFFICES ASSUME ProgramInv, ExactInv, [Next]_vars PROVE ExactInv'
  OBVIOUS
<1>1. CorpusInv /\ (phase \in {"start", "source"} => walk = "idle")
  BY DEF ProgramInv, PhaseInv
<1>2. CASE Survey \/ Search
  BY <1>1, <1>2, ExactStarts DEF Survey, Search
<1>3. CASE WalkStep
  BY <1>1, <1>3, ExactWalk DEF WalkStep
<1>4. CASE Others
  BY <1>1, <1>4, ExactChange DEF Others
<1>5. CASE \/ Usage \/ Configure \/ Listed \/ Count \/ Examine \/ Printed
           \/ Pinned \/ Drawn \/ Build \/ Run \/ RunEnds
  BY <1>5, ExactStays DEF Usage, Configure, Listed, Count, Examine, Printed, Pinned, Drawn, Build, Run, RunEnds
<1>6. CASE UNCHANGED vars
  BY <1>6, ExactStays DEF vars
<1>7. QED
  BY <1>2, <1>3, <1>4, <1>5, <1>6 DEF Next, Program, CountsForEver, Ended

\* The walk finds every file it should, whatever the tree, and none twice and all
\* in order, whatever others do to the tree during the walk.
THEOREM InventoryTrueAlways == Spec => []InventoryTrue
<1>1. Init => ExactInv
  BY DEF Init, CorpusInit, ExactInv
<1>2. ProgramInv /\ ExactInv => InventoryTrue
  BY InventoryKept DEF ProgramInv
<1>3. Spec => [](ProgramInv /\ ExactInv)
  BY <1>1, ProgramInit, ProgramStep, ExactStep, PTL DEF Spec
<1>4. QED
  BY <1>2, <1>3, PTL
-------------------------------------------------------------------------------
(* The reports. *)

Asked == Paths \cup Given(in.cli, "file")
Listing == IF Typed("file") THEN <<in.cli["file"]>> ELSE found
Reports ==
  [path : Asked, lines : Int]
    \cup [path : Asked, sampled : Nat, detected : Nat, inferred : Nat, errors : Nat]
Sound(r) ==
  /\ r.inferred =< r.detected /\ r.detected =< r.sampled
  /\ r.sampled + r.errors =< (IF Opens(r.path) THEN Sample ELSE 1)

\* What is reported and what is left are, in a row, all that was asked for.
ReportInv ==
  /\ report \in Seq(Reports) /\ left \in Seq(Asked)
  /\ phase \notin {"read", "ended"} => report = <<>>
  /\ phase = "read" \/ (exit = 0 /\ ~Simulation) =>
       /\ Len(report) + Len(left) = Len(Listing)
       /\ \A i \in 1..Len(report) : report[i].path = Listing[i]
       /\ \A i \in 1..Len(left) : left[i] = Listing[Len(report) + i]
  /\ exit = 0 /\ ~Simulation => left = <<>>
  /\ in.cmd = "validate" => \A i \in DOMAIN report : Sound(report[i])

\* A step before the reading, or beside it.
LEMMA NothingReported ==
  ASSUME ReportInv, UNCHANGED <<in, left, report>>, phase \notin {"read", "ended"},
         phase' # "read", exit' = 0 => Simulation
  PROVE  ReportInv'
<1>1. report = <<>> /\ report' = <<>> /\ Asked' = Asked /\ (Simulation' <=> Simulation)
  BY DEF ReportInv, Asked, Simulation
<1>2. Reports' = Reports
  BY <1>1 DEF Reports
<1>3. DOMAIN report' = {}
  BY <1>1
<1>4. QED
  BY <1>1, <1>2, <1>3 DEF ReportInv

LEMMA ListingTyped == CorpusInv => Listing \in Seq(Asked)
<1> SUFFICES ASSUME CorpusInv PROVE Listing \in Seq(Asked)
  OBVIOUS
<1>1. CASE Typed("file")
  <2>1. in.cli["file"] \in Asked
    BY <1>1 DEF Typed, Asked, Given
  <2>2. QED
    BY <1>1, <2>1 DEF Listing
<1>2. CASE ~Typed("file")
  <2>1. found \in Seq(Paths)
    BY DEF CorpusInv, WalkInv
  <2>2. found \in Seq(Asked)
    BY <2>1, SeqMonotonic DEF Asked
  <2>3. QED
    BY <1>2, <2>2 DEF Listing
<1>3. QED
  BY <1>1, <1>2

\* A file that is named is listed once or not at all.
LEMMA OfPathOnce ==
  ASSUME CorpusInv, NEW p
  PROVE  OfPath(p) = <<>> \/ OfPath(p) = <<p>>
<1> DEFINE K == {k \in DOMAIN found : found[k] = p}
<1>1. \A k, l \in K : k = l
  BY DEF CorpusInv, MetOnce, IsInjective
<1>2. CASE K = {}
  <2>1. Cardinality(K) = 0
    BY <1>2, FS_EmptySet
  <2>2. OfPath(p) = [i \in 1..Cardinality(K) |-> p]
    BY DEF OfPath
  <2> HIDE DEF K
  <2>3. QED
    BY <2>1, <2>2
<1>3. CASE K # {}
  <2>1. PICK k : k \in K
    BY <1>3
  <2>2. K = {k}
    BY <1>1, <2>1
  <2>3. Cardinality(K) = 1
    BY <2>2, FS_Singleton
  <2>4. OfPath(p) = [i \in 1..Cardinality(K) |-> p]
    BY DEF OfPath
  <2> HIDE DEF K
  <2>5. QED
    BY <2>3, <2>4
<1>4. QED
  BY <1>2, <1>3

LEMMA ListedStep == ProgramInv /\ ReportInv /\ Listed => ReportInv'
<1> SUFFICES ASSUME ProgramInv, ReportInv, Listed PROVE ReportInv'
  OBVIOUS
<1>1. /\ phase = "walk" /\ ~Simulation /\ UNCHANGED <<in, report, corpusVars>>
      /\ left' = (IF Typed("file") THEN OfPath(in.cli["file"]) ELSE found)
      /\ \/ Typed("file") /\ left' = <<>> /\ phase' = "ended" /\ exit' = 1
         \/ ~(Typed("file") /\ left' = <<>>) /\ phase' = "read" /\ exit' = exit
  BY DEF Listed, Ends, Goes
<1>2. report = <<>> /\ exit # 0
  BY <1>1 DEF ReportInv, ProgramInv, PhaseInv, None
<1>3. /\ Asked' = Asked /\ Listing' = Listing
      /\ report' = <<>> /\ exit' # 0
  BY <1>1, <1>2 DEF Asked, Listing, Typed, Given, corpusVars
<1>4. Listing \in Seq(Asked) /\ <<>> \in Seq(Asked)
  BY ListingTyped, EmptySeqs DEF ProgramInv
<1>5. left' = Listing \/ (left' = <<>> /\ phase' = "ended")
  <2>1. CASE Typed("file")
    BY <1>1, <2>1, OfPathOnce DEF ProgramInv, Listing
  <2>2. CASE ~Typed("file")
    BY <1>1, <2>2 DEF Listing
  <2>3. QED
    BY <2>1, <2>2
<1>6. left' \in Seq(Asked) /\ report' \in Seq(Reports') /\ DOMAIN report' = {} /\ Len(report') = 0
  <2>1. left' \in Seq(Asked)
    BY <1>4, <1>5
  <2>2. <<>> \in Seq(Reports') /\ DOMAIN report' = {} /\ Len(report') = 0
    BY <1>3, EmptySeqs
  <2>3. QED
    BY <1>3, <2>1, <2>2
<1>7. phase' = "read" => /\ Len(report') + Len(left') = Len(Listing)
                         /\ \A i \in 1..Len(report') : report'[i].path = Listing[i]
                         /\ \A i \in 1..Len(left') : left'[i] = Listing[Len(report') + i]
  BY <1>4, <1>5, <1>6
<1>8. QED
  BY <1>1, <1>3, <1>6, <1>7 DEF ReportInv

\* The next file is reported.
LEMMA ReportedStep ==
  ASSUME ProgramInv, ReportInv, phase = "read", left # <<>>,
         UNCHANGED <<in, phase, exit, corpusVars>>,
         NEW r \in Reports, r.path = Head(left), in.cmd = "validate" => Sound(r),
         report' = Append(report, r), left' = Tail(left)
  PROVE  ReportInv'
<1>1. Asked' = Asked /\ Listing' = Listing /\ Reports' = Reports
  BY DEF Asked, Listing, Typed, Given, corpusVars, Reports
<1>2. /\ report \in Seq(Reports) /\ left \in Seq(Asked)
      /\ Len(report) + Len(left) = Len(Listing)
      /\ \A i \in 1..Len(report) : report[i].path = Listing[i]
      /\ \A i \in 1..Len(left) : left[i] = Listing[Len(report) + i]
  BY DEF ReportInv
<1>3. /\ report' \in Seq(Reports) /\ Len(report') = Len(report) + 1 /\ Len(report) \in Nat
      /\ \A i \in 1..Len(report) : report'[i] = report[i]
      /\ report'[Len(report) + 1] = r
  BY <1>2
<1>4. /\ left' \in Seq(Asked) /\ Len(left') = Len(left) - 1 /\ Len(left) \in Nat /\ Len(left) >= 1
      /\ \A i \in 1..Len(left') : left'[i] = left[i + 1]
      /\ Head(left) = left[1]
  BY <1>2
<1>5. Len(report') + Len(left') = Len(Listing)
  BY <1>2, <1>3, <1>4
<1>6. ASSUME NEW i \in 1..Len(report') PROVE report'[i].path = Listing[i]
  <2>1. i \in 1..Len(report) \/ i = Len(report) + 1
    BY <1>3
  <2>2. r.path = Listing[Len(report) + 1]
    BY <1>2, <1>4
  <2>3. QED
    BY <1>2, <1>3, <2>1, <2>2
<1>7. ASSUME NEW i \in 1..Len(left') PROVE left'[i] = Listing[Len(report') + i]
  <2>1. i + 1 \in 1..Len(left) /\ Len(report) + (i + 1) = Len(report') + i
    BY <1>3, <1>4
  <2>2. QED
    BY <1>2, <1>4, <2>1
<1>8. exit # 0
  BY DEF ProgramInv, PhaseInv, None
<1>9. in.cmd = "validate" => \A i \in DOMAIN report' : Sound(report[i])'
  <2> SUFFICES ASSUME in.cmd = "validate", NEW i \in DOMAIN report' PROVE Sound(report[i])'
    OBVIOUS
  <2>1. \A q : (Opens(q)' <=> Opens(q))
    BY DEF Opens, IsFile, Exists, At, corpusVars
  <2>2. Sample' = Sample
    BY DEF Sample, Typed
  <2>3. i \in 1..Len(report) \/ i = Len(report) + 1
    BY <1>3
  <2>4. Sound(report'[i])
    BY <1>2, <1>3, <2>3 DEF ReportInv
  <2>5. QED
    BY <2>1, <2>2, <2>4 DEF Sound
<1>10. QED
  BY <1>1, <1>3, <1>4, <1>5, <1>6, <1>7, <1>8, <1>9 DEF ReportInv

\* What is counted in a sequence of lines.
LEMMA NumberOf ==
  ASSUME NEW S, NEW lines \in Seq(S), NEW K
  PROVE  /\ Number(lines, K) \in Nat
         /\ \A L \in SUBSET K : Number(lines, L) =< Number(lines, K)
<1> DEFINE Of(J) == {i \in DOMAIN lines : lines[i] \in J}
<1>1. IsFiniteSet(DOMAIN lines)
  <2>1. DOMAIN lines = 1..Len(lines) /\ Len(lines) \in Nat
    OBVIOUS
  <2>2. QED
    BY <2>1, FS_Interval
<1>2. Of(K) \subseteq DOMAIN lines
  OBVIOUS
<1>3. \A L \in SUBSET K : Of(L) \subseteq Of(K)
  OBVIOUS
<1> HIDE DEF Of
<1>4. IsFiniteSet(Of(K))
  BY <1>1, <1>2, FS_Subset
<1>5. Cardinality(Of(K)) \in Nat /\ \A L \in SUBSET K : Cardinality(Of(L)) =< Cardinality(Of(K))
  BY <1>3, <1>4, FS_CardinalityType, FS_Subset
<1>6. QED
  BY <1>5 DEF Number, Of

\* Lines of different kinds are no more than all lines.
LEMMA NumbersApart ==
  ASSUME NEW S, NEW lines \in Seq(S), NEW K, NEW L, K \cap L = {}
  PROVE  Number(lines, K) + Number(lines, L) =< Len(lines)
<1> DEFINE Of(J) == {i \in DOMAIN lines : lines[i] \in J}
<1>1. DOMAIN lines = 1..Len(lines) /\ Len(lines) \in Nat
  OBVIOUS
<1>2. IsFiniteSet(1..Len(lines)) /\ Cardinality(1..Len(lines)) = Len(lines)
  BY <1>1, FS_Interval
<1>3. /\ Of(K) \subseteq 1..Len(lines) /\ Of(L) \subseteq 1..Len(lines)
      /\ Of(K) \cap Of(L) = {} /\ Of(K) \cup Of(L) \subseteq 1..Len(lines)
  BY <1>1
<1>4. Number(lines, K) = Cardinality(Of(K)) /\ Number(lines, L) = Cardinality(Of(L))
  BY DEF Number
<1> HIDE DEF Of
<1>5. IsFiniteSet(Of(K)) /\ IsFiniteSet(Of(L))
  BY <1>2, <1>3, FS_Subset
<1>6. Cardinality(Of(K)) \in Nat /\ Cardinality(Of(L)) \in Nat
  BY <1>5, FS_CardinalityType
<1>7. Cardinality(Of(K) \cup Of(L)) = Cardinality(Of(K)) + Cardinality(Of(L))
  <2>1. Cardinality(Of(K) \cup Of(L)) = Cardinality(Of(K)) + Cardinality(Of(L)) - Cardinality(Of(K) \cap Of(L))
    BY <1>5, FS_Union
  <2>2. Cardinality(Of(K) \cap Of(L)) = 0
    BY <1>3, FS_EmptySet
  <2>3. QED
    BY <1>6, <2>1, <2>2
<1>8. Cardinality(Of(K) \cup Of(L)) =< Len(lines)
  BY <1>2, <1>3, FS_Subset
<1>9. QED
  BY <1>4, <1>7, <1>8

\* The lines of a file that can be opened, and how many of them are read.
LineKinds == {"plain", "dated", "yearless", "bad"}

LEMMA LinesRead ==
  ASSUME ProgramInv, NEW p, Opens(p)
  PROVE  /\ At(p).lines \in Seq(LineKinds) /\ Sample \in Nat
         /\ FirstLines(p) \in Seq(LineKinds) /\ Len(FirstLines(p)) =< Sample
<1>1. At(p) \in Targets \cup {Nowhere} /\ At(p).kind = "file"
  <2>1. disk[p] \in Nodes /\ At(p).kind = "file"
    BY DEF Opens, IsFile, Exists, At, ProgramInv, CorpusInv, DiskInv
  <2>2. QED
    BY <2>1 DEF At, Nodes, Targets
<1>2. At(p).lines \in Seq(LineKinds)
  BY <1>1 DEF Targets, Nowhere, LineKinds
<1>3. Sample \in Nat
  BY DEF Sample, Typed, Given, ProgramInv, IsInput
<1> DEFINE lines == At(p).lines
           n == IF Len(lines) < Sample THEN Len(lines) ELSE Sample
<1>4. n \in Nat /\ n =< Len(lines) /\ n =< Sample /\ \A i \in 1..n : lines[i] \in LineKinds
  BY <1>2, <1>3
<1>5. FirstLines(p) = SubSeq(lines, 1, n)
  BY DEF FirstLines
<1> HIDE DEF lines, n
<1>6. FirstLines(p) \in Seq(LineKinds) /\ Len(FirstLines(p)) = (IF 1 =< n THEN n - 1 + 1 ELSE 0)
  BY <1>4, <1>5, SubSeqProperties
<1>7. QED
  BY <1>2, <1>3, <1>4, <1>6 DEF lines

\* The file to be read next is one of those asked for.
LEMMA NextAsked ==
  ASSUME ReportInv, left # <<>>
  PROVE  Head(left) \in Asked
BY DEF ReportInv

LEMMA ExamineStep == ProgramInv /\ ReportInv /\ Examine => ReportInv'
<1> SUFFICES ASSUME ProgramInv, ReportInv, Examine PROVE ReportInv'
  OBVIOUS
<1> DEFINE p == Head(left)
           seen == FirstLines(p)
           broken == IF At(p).breaks THEN Sample - Len(seen) ELSE 0
           sample == [path |-> p, sampled |-> Number(seen, {"plain", "dated", "yearless"}),
                      detected |-> Number(seen, {"dated", "yearless"}),
                      inferred |-> Number(seen, {"yearless"}),
                      errors |-> Number(seen, {"bad"}) + broken]
           none == [path |-> p, sampled |-> 0, detected |-> 0, inferred |-> 0, errors |-> 1]
<1>1. /\ phase = "read" /\ left # <<>> /\ UNCHANGED <<in, phase, exit, corpusVars>> /\ left' = Tail(left)
      /\ report' = Append(report, IF Opens(p) THEN sample ELSE none)
  BY DEF Examine, Reading, Reported
<1>2. p \in Asked
  BY <1>1, NextAsked
<1>3. ASSUME Opens(p)
      PROVE  sample \in Reports /\ Sound(sample)
  <2>1. seen \in Seq(LineKinds) /\ Sample \in Nat /\ Len(seen) =< Sample /\ Len(seen) \in Nat
    BY <1>3, LinesRead
  <2>2. broken \in Nat /\ broken =< Sample - Len(seen)
    BY <2>1
  <2> HIDE DEF seen, broken
  <2> DEFINE sampled == Number(seen, {"plain", "dated", "yearless"})
             detected == Number(seen, {"dated", "yearless"})
             inferred == Number(seen, {"yearless"})
             bad == Number(seen, {"bad"})
  <2>3. /\ sampled \in Nat /\ detected \in Nat /\ inferred \in Nat /\ bad \in Nat
        /\ inferred =< detected /\ detected =< sampled
    BY <2>1, NumberOf
  <2>4. sampled + bad =< Len(seen)
    BY <2>1, NumbersApart
  <2> HIDE DEF sampled, detected, inferred, bad
  <2>5. sample = [path |-> p, sampled |-> sampled, detected |-> detected, inferred |-> inferred,
                  errors |-> bad + broken]
    BY DEF sampled, detected, inferred, bad
  <2> HIDE DEF sample, p
  <2>6. sample \in Reports
    BY <1>2, <2>2, <2>3, <2>5 DEF Reports
  <2>7. Sound(sample)
    BY <1>3, <2>1, <2>2, <2>3, <2>4, <2>5 DEF Sound
  <2>8. QED
    BY <2>6, <2>7
<1>4. ASSUME ~Opens(p)
      PROVE  none \in Reports /\ Sound(none)
  BY <1>2, <1>4 DEF Reports, Sound
<1>5. sample.path = p /\ none.path = p
  OBVIOUS
<1> HIDE DEF sample, none, p
<1>6. CASE Opens(p)
  BY <1>1, <1>3, <1>5, <1>6, ReportedStep DEF p
<1>7. CASE ~Opens(p)
  BY <1>1, <1>4, <1>5, <1>7, ReportedStep DEF p
<1>8. QED
  BY <1>6, <1>7

\* A command that ends with an error while it reads.
LEMMA ReadingFails ==
  ASSUME ProgramInv, ReportInv, phase = "read", phase' = "ended", exit' \in {1, 101},
         UNCHANGED <<in, left, report, corpusVars>>
  PROVE  ReportInv'
<1>1. Asked' = Asked /\ Reports' = Reports
  BY DEF Asked, Reports, corpusVars
<1>2. (\A q : Opens(q)' <=> Opens(q)) /\ Sample' = Sample
  BY DEF Opens, IsFile, Exists, At, corpusVars, Sample, Typed
<1>3. in.cmd = "validate" => \A i \in DOMAIN report : Sound(report[i])'
  BY <1>2 DEF ReportInv, Sound
<1>4. QED
  BY <1>1, <1>3 DEF ReportInv

LEMMA CountStep == ProgramInv /\ ReportInv /\ Count => ReportInv'
<1> SUFFICES ASSUME ProgramInv, ReportInv, Count PROVE ReportInv'
  OBVIOUS
<1> DEFINE p == Head(left)
           counted == [path |-> p, lines |-> Len(At(p).lines)]
<1>1. /\ phase = "read" /\ left # <<>> /\ in.cmd = "discover" /\ UNCHANGED <<in, corpusVars>>
      /\ \/ Reported(Uncounted(p))
         \/ Opens(p) /\ Reported(counted)
         \/ (Ends(1) \/ Ends(101)) /\ UNCHANGED <<left, report>>
  BY DEF Count, Reading, PrintPanics
<1>2. p \in Asked
  BY <1>1, NextAsked
<1>3. Uncounted(p) \in Reports /\ Uncounted(p).path = p
  BY <1>2 DEF Uncounted, Reports, None
<1>4. counted.path = p /\ (Opens(p) => counted \in Reports)
  <2>1. Opens(p) => Len(At(p).lines) \in Int
    BY LinesRead
  <2>2. QED
    BY <1>2, <2>1 DEF Reports
<1> HIDE DEF counted
<1>5. CASE Reported(Uncounted(p))
  BY <1>1, <1>3, <1>5, ReportedStep DEF Reported
<1>6. CASE Opens(p) /\ Reported(counted)
  BY <1>1, <1>4, <1>6, ReportedStep DEF Reported
<1>7. CASE (Ends(1) \/ Ends(101)) /\ UNCHANGED <<left, report>>
  BY <1>1, <1>7, ReadingFails DEF Ends
<1>8. QED
  BY <1>1, <1>5, <1>6, <1>7

LEMMA PrintedStep == ProgramInv /\ ReportInv /\ Printed => ReportInv'
<1> SUFFICES ASSUME ProgramInv, ReportInv, Printed PROVE ReportInv'
  OBVIOUS
<1>1. /\ phase = "read" /\ left = <<>> /\ phase' = "ended" /\ exit' \in {0, 101}
      /\ UNCHANGED <<in, left, report, corpusVars>>
  BY DEF Printed, Ends, PrintPanics
<1>2. Asked' = Asked /\ Reports' = Reports /\ Listing' = Listing
  BY <1>1 DEF Asked, Reports, Listing, Typed, corpusVars
<1>3. (\A q : Opens(q)' <=> Opens(q)) /\ Sample' = Sample
  BY <1>1 DEF Opens, IsFile, Exists, At, corpusVars, Sample, Typed
<1>4. in.cmd = "validate" => \A i \in DOMAIN report : Sound(report[i])'
  <2>1. in.cmd = "validate" => \A i \in DOMAIN report : Sound(report[i])
    BY DEF ReportInv
  <2>2. report' = report
    BY <1>1
  <2>3. QED
    BY <1>3, <2>1, <2>2 DEF Sound
<1>5. QED
  BY <1>1, <1>2, <1>4 DEF ReportInv

\* Nothing but the reading touches the reports.
LEMMA OtherReports ==
  ProgramInv /\ ReportInv
    /\ (\/ Usage \/ Survey \/ Configure \/ WalkStep \/ Others
        \/ Pinned \/ Search \/ Drawn \/ Build \/ Run \/ RunEnds) => ReportInv'
<1> SUFFICES ASSUME ProgramInv, ReportInv,
                    \/ Usage \/ Survey \/ Configure \/ WalkStep \/ Others
                    \/ Pinned \/ Search \/ Drawn \/ Build \/ Run \/ RunEnds
             PROVE  ReportInv'
  OBVIOUS
<1>1. /\ phase \in {"source", "build", "ready", "running"} => Simulation
      /\ phase # "ended" => exit = None
  BY DEF ProgramInv, PhaseInv
<1>2. CASE Usage \/ Survey \/ Configure
  <2>1. /\ UNCHANGED <<in, left, report>> /\ phase \notin {"read", "ended"}
        /\ phase' # "read" /\ exit' # 0
    BY <1>1, <1>2 DEF Usage, Survey, Configure, Ends, Goes, None
  <2>2. QED
    BY <2>1, NothingReported
<1>3. CASE WalkStep \/ Others
  <2>1. /\ UNCHANGED <<in, left, report>> /\ phase = "walk" /\ phase' = "walk" /\ exit' # 0
    BY <1>1, <1>3 DEF WalkStep, Others, programVars, None
  <2>2. QED
    BY <2>1, NothingReported
<1>4. CASE Pinned \/ Search \/ Drawn
  <2>1. /\ UNCHANGED <<in, left, report>> /\ phase \in {"source", "walk"}
        /\ \/ phase' = "ended" /\ exit' = 1
           \/ phase' \in {"build", "walk"} /\ exit' = exit
    BY <1>4 DEF Pinned, Search, Drawn, Ends, Goes
  <2>2. exit' # 0
    BY <1>1, <2>1 DEF None
  <2>3. QED
    BY <2>1, <2>2, NothingReported
<1>5. CASE Build \/ Run \/ RunEnds
  <2>1. /\ UNCHANGED <<in, left, report>> /\ phase \in {"build", "ready", "running"}
        /\ phase' # "read"
    BY <1>5 DEF Build, Run, RunEnds, PrintPanics, Ends, Goes
  <2>2. QED
    BY <1>1, <2>1, NothingReported
<1>6. QED
  BY <1>2, <1>3, <1>4, <1>5

LEMMA ReportStep == ProgramInv /\ ReportInv /\ [Next]_vars => ReportInv'
<1> SUFFICES ASSUME ProgramInv, ReportInv, [Next]_vars PROVE ReportInv'
  OBVIOUS
<1>1. CASE UNCHANGED vars
  <2>1. UNCHANGED <<in, phase, left, report, exit, disk, found>>
    BY <1>1 DEF vars, programVars, corpusVars
  <2>2. Asked' = Asked /\ Reports' = Reports /\ Listing' = Listing
    BY <2>1 DEF Asked, Reports, Listing, Typed
  <2>3. (\A q : Opens(q)' <=> Opens(q)) /\ Sample' = Sample
    BY <2>1 DEF Opens, IsFile, Exists, At, Sample, Typed
  <2>4. in.cmd = "validate" => \A i \in DOMAIN report : Sound(report[i])'
    <3>1. in.cmd = "validate" => \A i \in DOMAIN report : Sound(report[i])
      BY DEF ReportInv
    <3>2. QED
      BY <2>1, <2>3, <3>1 DEF Sound
  <2>5. QED
    BY <2>1, <2>2, <2>4 DEF ReportInv, Simulation
<1>2. CASE Listed
  BY <1>2, ListedStep
<1>3. CASE Count
  BY <1>3, CountStep
<1>4. CASE Examine
  BY <1>4, ExamineStep
<1>5. CASE Printed
  BY <1>5, PrintedStep
<1>6. CASE \/ Usage \/ Survey \/ Configure \/ WalkStep \/ Others
           \/ Pinned \/ Search \/ Drawn \/ Build \/ Run \/ RunEnds
  BY <1>6, OtherReports
<1>7. QED
  BY <1>1, <1>2, <1>3, <1>4, <1>5, <1>6 DEF Next, Program, CountsForEver, Ended

LEMMA ReportInit == Init => ReportInv
<1> SUFFICES ASSUME Init PROVE ReportInv
  OBVIOUS
<1>1. phase = "start" /\ left = <<>> /\ report = <<>> /\ exit # 0
  BY DEF Init, None
<1>2. report \in Seq(Reports) /\ left \in Seq(Asked) /\ DOMAIN report = {}
  BY <1>1, EmptySeqs
<1>3. QED
  BY <1>1, <1>2 DEF ReportInv

\* A command that succeeds has reported on every file asked for, once and in order,
\* and no sample claims more than there was to be read.
THEOREM ReportCompleteAlways == Spec => []ReportComplete
<1>1. ProgramInv /\ ReportInv => ReportComplete
  <2> SUFFICES ASSUME ProgramInv, ReportInv PROVE ReportComplete
    OBVIOUS
  <2>1. ASSUME exit = 0, ~Simulation
        PROVE  [i \in DOMAIN report |-> report[i].path] = Listing
    <3>1. /\ report \in Seq(Reports) /\ Len(report) + Len(left) = Len(Listing) /\ left = <<>>
          /\ \A i \in 1..Len(report) : report[i].path = Listing[i]
      BY <2>1 DEF ReportInv
    <3>2. Listing \in Seq(Asked)
      BY ListingTyped DEF ProgramInv
    <3>3. Len(report) = Len(Listing) /\ DOMAIN report = 1..Len(report)
      BY <3>1, <3>2
    <3>4. Listing = [i \in 1..Len(Listing) |-> Listing[i]]
      BY <3>2
    <3>5. QED
      BY <3>1, <3>3, <3>4
  <2>2. in.cmd = "validate" => \A i \in DOMAIN report : Sound(report[i])
    BY DEF ReportInv
  <2>3. QED
    BY <2>1, <2>2 DEF ReportComplete, Listing, Sound
<1>2. Spec => [](ProgramInv /\ ReportInv)
  BY ProgramInit, ProgramStep, ReportInit, ReportStep, PTL DEF Spec
<1>3. QED
  BY <1>1, <1>2, PTL
===============================================================================
