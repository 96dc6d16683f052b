------------------------------ MODULE Timestamp ------------------------------
(***************************************************************************)
(* The timestamp of a line, src/timestamp.rs, and what build_event of      *)
(* src/pipeline.rs makes of it: found, read, moved into the recent window  *)
(* and written back in its place.                                          *)
(*                                                                         *)
(* A date and time printed in full is the number of seconds it stands for  *)
(* (`wall'); one without a year is a day of a leap year and a second of    *)
(* that day.  What the patterns tell apart is kept: the digits of the      *)
(* fraction, the form of the zone, the unit of an epoch.  Years run from   *)
(* 1970 to 2037, and the local zone has one offset all year.               *)
(*                                                                         *)
(* Each run of the program reads the line that the run before it wrote.    *)
(***************************************************************************)
EXTENDS Integers

CONSTANTS
  LocalOffsets, \* offsets of the local zone from UTC, in seconds
  Starts,       \* when the first run may start
  Ages,         \* times that may pass after a run
  Windows,      \* values of --recent-window
  Micros,       \* microseconds that may be drawn
  Sources,      \* lines that may stand in the log file at first
  Runs,         \* most runs
  Horizon       \* end of the time considered

Day == 86400
LastEpoch == 2145916800
Ten == [n \in 0..9 |-> 10^n]
Millionths == 0..(Ten[6] - 1)
LastNumber == 2147483647 \* epochs considered: below the 8e12 thousandths that a JSON field may hold
NineDigits == 100000000  \* no window reaches further back than epochs of nine digits

\* What a timestamp is, in every line that is found or written: a fraction has no more
\* digits than it is wide, a day is one of a leap year.
NoZone == [kind |-> "none"]
Zulu == [kind |-> "Z"]
Offsets == [kind : {"num"}, sign : {"+", "-"}, hours : Nat, mins : Nat, style : {"hhmm", "hh:mm", "hh"}]
Fractions == {f \in [width : 0..9, value : Nat, point : {".", ","}] : f.value < Ten[f.width]}
Places == [day : 0..365, second : 0..(Day - 1)]
Stamps ==
  [form : {"iso"}, wall : Int, frac : Fractions, zone : {NoZone, Zulu} \cup Offsets]
    \cup [form : {"clf"}, wall : Int, zone : Offsets]
    \cup [form : {"ctf"}, wall : Int] \cup [form : {"healthapp"}, wall : Int, milli : 0..999]
    \cup [form : {"epoch", "number"}, unit : {"s", "ms"}, sec : 0..LastNumber, milli : 0..999]
    \cup [form : {"syslog", "proxifier", "android"}, place : Places, milli : 0..999]
    \cup [form : {"none"}]

ASSUME TimestampAssumption ==
  /\ LocalOffsets \subseteq (-Day + 1)..(Day - 1)
  /\ Horizon \in Day..(LastEpoch - Day) /\ Starts \subseteq 1000000000..Horizon
  /\ Ages \subseteq Nat \ {0} /\ Runs \in Nat
  /\ Windows \subseteq [kind : {"today", "now"}] \cup [kind : {"seconds"}, seconds : 0..Horizon]
  /\ \A w \in Windows : w.kind = "seconds" => \A s \in Starts : s - w.seconds >= NineDigits
  /\ Micros \subseteq Millionths /\ 0 \in Micros
  /\ Sources \subseteq [where : {"plain", "field", "other"}, ts : Stamps, words : SUBSET STRING]

VARIABLES
  local,   \* offset of the local zone
  window,  \* Config.recent_window
  now,     \* Utc::now()
  line,    \* the line in the log file: where its timestamp stands, the timestamp, what else Wire reads
  anchor,  \* when the last run started
  mode,    \* Config.mode of the last run
  event,   \* the fields of the last Event that concern time
  runs     \* history: runs so far

vars == <<local, window, now, line, anchor, mode, event, runs>>
----------------------------------------------------------------------------
(* The calendar, as far as the program uses it. *)

YearStart(y) == Day * (365 * (y - 1970) + (y - 1969) \div 4)
YearOf(s) == CHOOSE y \in 1969..2038 : YearStart(y) =< s /\ s < YearStart(y + 1)
IsLeap(y) == y % 4 = 0
Feb29 == 59

HasDay(y, day) == IsLeap(y) \/ day # Feb29
InYear(y, place) ==
  YearStart(y) + place.second
    + Day * (IF IsLeap(y) \/ place.day < Feb29 THEN place.day ELSE place.day - 1)

\* Day of a leap year and second of that day: what a format without a year prints.
Place(wall) ==
  LET y == YearOf(wall)
      d == (wall - YearStart(y)) \div Day
  IN  [day |-> IF IsLeap(y) \/ d < Feb29 THEN d ELSE d + 1, second |-> wall % Day]
----------------------------------------------------------------------------
(* Zones and fractions. *)

Numeric(sign, hours, mins, style) ==
  [kind |-> "num", sign |-> sign, hours |-> hours, mins |-> mins, style |-> style]

\* parse_offset: the factor of a leading minus is 0; +hh alone is refused.
ValidOffset(z) ==
  z.kind = "num" => z.style # "hh" /\ z.hours =< 23 /\ z.mins =< 59
ParseOffset(z) ==
  IF z.kind = "num" /\ z.sign = "+" THEN z.hours * 3600 + z.mins * 60 ELSE 0
ZoneOffset(z, loc) == IF z.kind = "none" THEN loc ELSE ParseOffset(z)

\* Mistakes: the minutes left out; the sign the wrong way round.
OffToTokenHours(secs) ==
  LET size == IF secs < 0 THEN -secs ELSE secs IN
  Numeric(IF secs < 0 THEN "-" ELSE "+", size \div 3600, 0, "hhmm")
OffToTokenSwapped(secs) ==
  LET size == IF secs < 0 THEN -secs ELSE secs IN
  Numeric(IF secs > 0 THEN "-" ELSE "+", size \div 3600, (size % 3600) \div 60, "hhmm")

OffToToken(secs) ==
  LET size == IF secs < 0 THEN -secs ELSE secs IN
  Numeric(IF secs < 0 THEN "-" ELSE "+", size \div 3600, (size % 3600) \div 60, "hhmm")

\* A fraction has `width' digits of number `value' after `point'; none if width is 0.
ReadFraction(f) ==
  IF f.width >= 6 THEN f.value \div Ten[f.width - 6] ELSE f.value * Ten[6 - f.width]

Digits(v) == CHOOSE d \in 1..6 : v < Ten[d] /\ (d = 1 \/ v >= Ten[d - 1])

\* Mistake: the format width taken for the number of digits.
WriteFractionNarrow(f, micro) ==
  [f EXCEPT !.value = IF f.width =< 3 THEN micro \div 1000 ELSE micro, !.point = "."]

\* The format width is only a least width, and what it pads is thousandths or millionths.
WriteFraction(f, micro) ==
  LET value == IF f.width =< 3 THEN micro \div 1000 ELSE micro
      width == IF f.width > Digits(value) THEN f.width ELSE Digits(value)
  IN  IF f.width = 0 THEN f ELSE [width |-> width, value |-> value, point |-> "."]
----------------------------------------------------------------------------
(* The detectors: what is found, and the instant it is read as. *)

At(sec, micro) == [sec |-> sec, micro |-> micro]

Plausible(t) == IF t.unit = "s" THEN t.sec \in 100000000..LastEpoch
                ELSE t.sec >= 1000000000 /\ (t.sec < LastEpoch \/ (t.sec = LastEpoch /\ t.milli = 0))
PlausibleNumber(t) == t.sec >= (IF t.unit = "s" THEN 2000000000 ELSE 2000000)

Detected(t) ==
  CASE t.form \in {"iso", "clf"} -> ValidOffset(t.zone)
    [] t.form = "epoch"          -> Plausible(t)
    [] OTHER                     -> t.form \notin {"none", "number"}

\* Mistake: the year before is not tried.
ResolveNoYearThisOnly(place, at, loc) == InYear(YearOf(at), place) - loc

\* The most recent of two years, with a day in hand; the year 2000 when neither will do.
ResolveNoYear(place, at, loc) ==
  LET this == YearOf(at)
      fit == {y \in {this, this - 1} :
                HasDay(y, place.day) /\ InYear(y, place) - loc =< at + Day}
  IN  IF fit = {} THEN InYear(2000, place)
      ELSE InYear(CHOOSE y \in fit : \A z \in fit : z =< y, place) - loc

Instant(t, at, loc) ==
  CASE t.form = "iso" -> At(t.wall - ZoneOffset(t.zone, loc), ReadFraction(t.frac))
    [] t.form = "clf" -> At(t.wall - ParseOffset(t.zone), 0)
    [] t.form = "ctf" -> At(t.wall, 0)
    [] t.form = "healthapp" -> At(t.wall, t.milli * 1000)
    [] t.form \in {"epoch", "number"} -> At(t.sec, t.milli * 1000)
    [] t.form \in {"syslog", "proxifier", "android"} ->
         At(ResolveNoYear(t.place, at, loc), t.milli * 1000)

YearInferred(t) == t.form \in {"syslog", "proxifier", "android"}
----------------------------------------------------------------------------
(* render: an instant in the format of a timestamp. *)

Render(t, ts, loc) ==
  CASE t.form = "iso" ->
         LET off == ZoneOffset(t.zone, loc) IN
         [t EXCEPT !.wall = ts.sec + off, !.frac = WriteFraction(@, ts.micro),
                   !.zone = IF @ = NoZone THEN NoZone
                            ELSE IF off = 0 THEN Zulu ELSE OffToToken(off)]
    [] t.form = "clf" ->
         LET off == ParseOffset(t.zone) IN
         [t EXCEPT !.wall = ts.sec + off, !.zone = OffToToken(off)]
    [] t.form = "ctf" -> [t EXCEPT !.wall = ts.sec + loc]
    [] t.form = "healthapp" -> [t EXCEPT !.wall = ts.sec + loc, !.milli = ts.micro \div 1000]
    [] t.form = "epoch" -> [t EXCEPT !.unit = "s", !.sec = ts.sec, !.milli = 0]
    [] t.form = "number" -> [t EXCEPT !.unit = "ms", !.sec = ts.sec, !.milli = ts.micro \div 1000]
    [] YearInferred(t) ->
         [t EXCEPT !.place = Place(ts.sec + loc),
                   !.milli = IF t.form = "android" THEN ts.micro \div 1000 ELSE 0]
----------------------------------------------------------------------------
(* A timestamp stands in a plain line, in a field of a JSON line with one  *)
(* of the known names, or in another field.  Quoted, an epoch is no longer *)
(* between blanks and a syslog date no longer at the start of the line.    *)

InLine(l) ==
  Detected(l.ts) /\ (l.where # "plain" => l.ts.form \notin {"epoch", "syslog"})
InField(l) ==
  l.where = "field" /\ (IF l.ts.form = "number" THEN PlausibleNumber(l.ts) ELSE Detected(l.ts))
\* Mistake: a JSON line is left alone when its field is of no use.
TransformableJsonOnly(l) == IF l.where = "plain" THEN InLine(l) ELSE InField(l)

\* transform_json, or else transform.
Transformable(l) == InField(l) \/ InLine(l)
----------------------------------------------------------------------------
(* The recent window, and one event a run. *)

\* Mistake: midnight in UTC.
WindowStartUtc(w, at, loc) ==
  CASE w.kind = "today"   -> at - (at % Day)
    [] w.kind = "now"     -> at - 3600
    [] w.kind = "seconds" -> at - w.seconds

WindowStart(w, at, loc) ==
  CASE w.kind = "today"   -> at - ((at + loc) % Day)
    [] w.kind = "now"     -> at - 3600
    [] w.kind = "seconds" -> at - w.seconds

\* The ends and the middle of the window stand for every instant in it.
Drawn(start, at) ==
  IF start = at THEN {At(at, 0)}
  ELSE {At(s, u) : s \in {start, (start \div 2) + (at \div 2), at - 1}, u \in Micros}

NoTimestamp == At(-1, 0)
Built(ts) == [timestamp |-> ts, ts_detected |-> InLine(line),
              ts_year_inferred |-> InLine(line) /\ YearInferred(line.ts)]

Start(m) ==
  /\ runs < Runs /\ runs' = runs + 1
  /\ mode' = m /\ anchor' = now /\ UNCHANGED <<local, window, now>>

Replay == Start("replay") /\ event' = Built(NoTimestamp) /\ UNCHANGED line

Rewrite(ts) ==
  /\ Start("synthetic") /\ Transformable(line)
  /\ event' = Built(ts)
  /\ line' = [line EXCEPT !.ts = Render(@, ts, local)]

PassThrough ==
  /\ Start("synthetic") /\ ~Transformable(line)
  /\ event' = Built(NoTimestamp) /\ UNCHANGED line

\* Time passes, once a run, before the written line is read again.
Age(a) ==
  /\ runs > 0 /\ now = anchor /\ now + a =< Horizon
  /\ now' = now + a /\ UNCHANGED <<local, window, line, anchor, mode, event, runs>>

Finished ==
  /\ runs = Runs /\ (now # anchor \/ \A a \in Ages : now + a > Horizon)
  /\ UNCHANGED vars

Init ==
  /\ local \in LocalOffsets /\ window \in Windows /\ now \in Starts /\ line \in Sources
  /\ anchor = now /\ mode = "replay" /\ runs = 0
  /\ event = [timestamp |-> NoTimestamp, ts_detected |-> FALSE, ts_year_inferred |-> FALSE]

Next ==
  \/ Replay
  \/ \E ts \in Drawn(WindowStart(window, now, local), now) : Rewrite(ts)
  \/ PassThrough
  \/ \E a \in Ages : Age(a)
  \/ Finished

Spec == Init /\ [][Next]_vars
----------------------------------------------------------------------------
Rewritten == event.timestamp # NoTimestamp

\* Type invariant: every line that is written has a timestamp of one of the formats.
TypeOK ==
  /\ local \in LocalOffsets /\ window \in Windows /\ now \in 0..Horizon /\ anchor \in 0..now
  /\ runs \in 0..Runs /\ mode \in {"replay", "synthetic"}
  /\ event.timestamp \in [sec : -1..Horizon, micro : Millionths]
  /\ event.ts_detected \in BOOLEAN /\ (event.ts_year_inferred => event.ts_detected)
  /\ line.where \in {"plain", "field", "other"} /\ line.ts \in Stamps

\* The second that is read of one that was written in the form of `t'.  A date in local
\* time without a zone is taken for UTC; one without its year is a year early while the
\* local year is ahead of that of UTC.
SecondRead(t, sec, at, loc) ==
  LET y == YearOf(sec + loc) IN
  CASE t.form \in {"ctf", "healthapp"}       -> sec + loc
    [] YearInferred(t) /\ y > YearOf(at)     -> sec - (YearStart(y) - YearStart(y - 1))
    [] OTHER                                 -> sec

\* The fraction that is read.  Digits are read by their place but printed as a number of
\* thousandths or millionths: three or six of them are right, two are ten times too many.
FractionRead(t, micro) ==
  CASE t.form = "iso" ->
         (CASE t.frac.width = 0        -> 0
            [] t.frac.width \in 1..3   -> (micro \div 1000) * Ten[6 - t.frac.width]
            [] t.frac.width \in {4, 5} -> micro * Ten[6 - t.frac.width]
            [] t.frac.width \in 6..9   -> micro \div Ten[t.frac.width - 6])
    [] t.form \in {"number", "healthapp", "android"} -> micro - (micro % 1000)
    [] OTHER -> 0

ReadsAs(t, ts, at, loc) == At(SecondRead(t, ts.sec, at, loc), FractionRead(t, ts.micro))

\* What a run wrote in full, the next one finds and reads as the second the event was sent
\* with, whatever the zone; but for ctf and healthapp, which are written in local time
\* and read in UTC (timestamp.rs:468, 606).
InstantReadsBack ==
  Rewritten /\ ~YearInferred(line.ts) =>
    /\ Transformable(line)
    /\ Instant(line.ts, now, local) = ReadsAs(line.ts, event.timestamp, now, local)

\* A date written without its year is found and given the right one again for 364 days, over
\* any new year and leap day, but for the hours in which a local new year has come before
\* that of UTC: those read one year early (timestamp.rs:351-363 tries the years of UTC).
YearReadsBack ==
  Rewritten /\ YearInferred(line.ts) =>
    /\ Transformable(line)
    /\ now - event.timestamp.sec < 364 * Day =>
         Instant(line.ts, now, local) = ReadsAs(line.ts, event.timestamp, now, local)

\* What a run writes, in any form, is found by the next one and read as the second it stands
\* for, with the three exceptions that SecondRead and FractionRead spell out: local dates
\* without a zone, the hours of a local new year, fractions of neither three nor six digits.
ReadsBack == InstantReadsBack /\ YearReadsBack

\* An event is dated within --recent-window before the start of its run; for "today" that
\* is the day of the run in the local zone, whatever the day is in UTC.
InWindow ==
  LET sent == event.timestamp.sec IN
  Rewritten =>
    /\ sent =< anchor
    /\ window.kind = "today" => (sent + local) \div Day = (anchor + local) \div Day
    /\ window.kind = "now" => anchor - sent =< 3600
    /\ window.kind = "seconds" => anchor - sent =< window.seconds

\* An event whose timestamp was found is not sent undated by a synthetic run: if the
\* field of a JSON line is of no use, the rest of the line is searched.
NeverSkipped == mode = "synthetic" /\ event.ts_detected => Rewritten

\* A synthetic run dates every event whose timestamp it finds, and dates it in the window.
DatedInWindow == InWindow /\ NeverSkipped

Format(t) ==
  CASE t.form = "iso" -> [form |-> "iso", zone |-> t.zone, width |-> t.frac.width, point |-> t.frac.point]
    [] t.form = "clf" -> [form |-> "clf", zone |-> t.zone]
    [] t.form \in {"epoch", "number"} -> [form |-> t.form, unit |-> t.unit]
    [] OTHER -> [form |-> t.form]

\* What one run wrote, another writes in the same format, but for a fraction that may get
\* wider: the program is at peace with its own output.
SettlesDown ==
  [][(Rewritten /\ line' # line) =>
       LET old == Format(line.ts)
           new == Format(line'.ts)
       IN  IF old.form = "iso" THEN new.width >= old.width /\ [new EXCEPT !.width = old.width] = old
           ELSE new = old]_vars
===============================================================================
