--------------------------------- MODULE Wire ---------------------------------
(***************************************************************************)
(* What a receiver is told of an event beside its body: the time in a HEC  *)
(* envelope (src/transport/hec.rs) and in an OTLP record                   *)
(* (src/transport/otel.rs), and the severity (src/event.rs).  The body is  *)
(* the line that Timestamp writes; the keywords of severity in it are its  *)
(* `words', which no rewriting touches.                                    *)
(***************************************************************************)
EXTENDS Timestamp

\* The time sent is that of the event, or else the time it was made at.
\* Mistake: it is always the latter.
TimeSentObserved(e, observed) == observed
TimeSent(e, observed) == IF e.timestamp = NoTimestamp THEN observed ELSE e.timestamp

\* hec_time: seconds and thousandths; OTLP has nanoseconds.
HecTime(t) == [sec |-> t.sec, milli |-> t.micro \div 1000]
OtlpTime(t) == t

\* detect_severity: keywords in the order they are looked for, and their levels.
\* Mistake: in another order.
PatternsMild ==
  <<<<"INFO", "INFO">>, <<"NOTICE", "NOTICE">>, <<"FATAL", "FATAL">>, <<"ERROR", "ERROR">>, <<"ERR:", "ERROR">>,
    <<"error", "ERROR">>, <<"WARN", "WARN">>, <<"WRN", "WARN">>, <<"CRITICAL", "CRITICAL">>, <<"DEBUG", "DEBUG">>,
    <<"TRACE", "TRACE">>, <<"VERBOSE", "VERBOSE">>>>
Patterns ==
  <<<<"FATAL", "FATAL">>, <<"ERROR", "ERROR">>, <<"ERR:", "ERROR">>, <<"error", "ERROR">>, <<"WARN", "WARN">>,
    <<"WRN", "WARN">>, <<"NOTICE", "NOTICE">>, <<"CRITICAL", "CRITICAL">>, <<"INFO", "INFO">>, <<"DEBUG", "DEBUG">>,
    <<"TRACE", "TRACE">>, <<"VERBOSE", "VERBOSE">>>>
Keywords == {Patterns[i][1] : i \in DOMAIN Patterns}

ASSUME WireAssumption == \A l \in Sources : l.words \subseteq Keywords

\* The level of the first keyword that is there; INFO is sent if none is.
Severity(words) ==
  LET hits == {i \in DOMAIN Patterns : Patterns[i][1] \in words}
  IN  IF hits = {} THEN "INFO" ELSE Patterns[CHOOSE i \in hits : \A j \in hits : i =< j][2]

SeverityNumber(level) ==
  CASE level \in {"DEBUG", "TRACE", "VERBOSE"} -> 5
    [] level = "WARN"                          -> 13
    [] level = "ERROR"                         -> 17
    [] level \in {"CRITICAL", "FATAL"}         -> 21
    [] OTHER                                   -> 9
----------------------------------------------------------------------------
(* What a reader of the body sees, whatever this program would read in it. *)

SignedOffset(z, loc) ==
  CASE z.kind = "none" -> loc
    [] z.kind = "Z"    -> 0
    [] z.kind = "num"  -> (IF z.sign = "-" THEN -1 ELSE 1) * (z.hours * 3600 + z.mins * 60)

\* A date without a zone is one of the local zone.
ShowsSecond(t, sec, loc) ==
  CASE t.form \in {"iso", "clf"}       -> t.wall - SignedOffset(t.zone, loc) = sec
    [] t.form \in {"ctf", "healthapp"} -> t.wall - loc = sec
    [] t.form \in {"epoch", "number"}  -> t.sec = sec
    [] YearInferred(t)                 -> t.place = Place(sec + loc)

\* The digits after the point, in the forms that have them: a number of thousandths if they
\* are at most three, of millionths beyond.
ShowsFraction(t, micro) ==
  /\ t.form = "iso" /\ t.frac.width \in 1..3 => t.frac.value = micro \div 1000
  /\ t.form = "iso" /\ t.frac.width \in 4..9 => t.frac.value = micro
  /\ t.form \in {"number", "healthapp", "android"} => t.milli = micro \div 1000

\* Both transports tell of a rewritten event the second that stands in its body, whatever the
\* form and the zone, and the thousandths or millionths that stand there if any do; the time
\* at which the event was made is not sent in its place.  That ISO digits of another number
\* than three or six mean another fraction to a reader is left to ReadsBack.
WireAgrees ==
  Rewritten =>
    \A d \in {0, 3600} : \A u \in Micros :
      LET sent == TimeSent(event, At(anchor + d, u)) IN
      /\ ShowsSecond(line.ts, HecTime(sent).sec, local)
      /\ ShowsSecond(line.ts, OtlpTime(sent).sec, local)
      /\ ShowsFraction(line.ts, OtlpTime(sent).micro)
      /\ HecTime(sent).milli = OtlpTime(sent).micro \div 1000

\* No keyword of a line stands for more than the severity sent with it, but for CRITICAL,
\* which is looked for after WARN and NOTICE.
LoudestLevel ==
  \A w \in line.words \ {"CRITICAL"} :
    SeverityNumber(Severity({w})) =< SeverityNumber(Severity(line.words))

\* What a receiver is told beside the body agrees with the body.
ToldTruthfully == WireAgrees /\ LoudestLevel
===============================================================================
