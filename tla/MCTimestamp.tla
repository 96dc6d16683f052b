----------------------------- MODULE MCTimestamp -----------------------------
(* Small instance of Timestamp and Wire for TLC. *)
EXTENDS Wire

\* Two hours before the new year of 2025 in UTC, half an hour into it, and noon
\* of 29 February 2024.
NewYear == YearStart(2025)
MCStarts == { NewYear - 7200, NewYear + 1800, YearStart(2024) + 59 * Day + 43200 }
MCLocalOffsets == { -18000, 0, 19800 }
MCWindows == { [kind |-> "today"], [kind |-> "now"], [kind |-> "seconds", seconds |-> 2 * Day] }
\* A year less one day and a second is on this side of the limit, a year beyond it.
MCAges == { 3600, 363 * Day, 365 * Day }
MCMicros == { 0, 5005, 123456 }
MCHorizon == YearStart(2027)

Wall == YearStart(2017) + 100 * Day + 5
Frac(width, value) == [width |-> width, value |-> value, point |-> IF width = 3 THEN "," ELSE "."]
Iso(frac, zone) == [form |-> "iso", wall |-> Wall, frac |-> frac, zone |-> zone]
Clf(zone) == [form |-> "clf", wall |-> Wall, zone |-> zone]
Epoch(form, unit, sec, milli) == [form |-> form, unit |-> unit, sec |-> sec, milli |-> milli]
NoYear(form, day, second) ==
  [form |-> form, place |-> [day |-> day, second |-> second], milli |-> 0]

East == Numeric("+", 5, 30, "hhmm")
MCTokens ==
  { Iso(f, NoZone) : f \in {Frac(0, 0), Frac(1, 7), Frac(2, 7), Frac(3, 8), Frac(4, 9), Frac(6, 77), Frac(9, 5)} }
  \cup { Iso(Frac(3, 547), z) : z \in {Zulu, East, Numeric("-", 5, 0, "hhmm"), Numeric("+", 1, 0, "hh:mm"),
                                       Numeric("+", 1, 0, "hh"), Numeric("+", 24, 0, "hhmm")} }
  \cup { Clf(z) : z \in {East, Numeric("+", 0, 0, "hhmm"), Numeric("-", 5, 0, "hhmm"), Numeric("+", 1, 75, "hhmm")} }
  \cup { Epoch("epoch", "s", 99999999, 0), Epoch("epoch", "s", 1117838570, 0), Epoch("epoch", "ms", 1514038530, 7) }
  \cup { [form |-> "ctf", wall |-> Wall], [form |-> "healthapp", wall |-> Wall, milli |-> 606], [form |-> "none"] }
  \cup { NoYear(f, p[1], p[2]) : f \in {"syslog", "proxifier", "android"},
                                 p \in {<<0, 600>>, <<59, 43200>>, <<365, 85800>>} }
Numbers == { Epoch("number", "s", 1700000000, 0), Epoch("number", "s", 2000000001, 0),
             Epoch("number", "ms", 1700000000, 250) }
Quiet == {{}}
MCSources ==
  [where : {"plain", "field"}, ts : MCTokens, words : Quiet] \cup [where : {"field", "other"}, ts : Numbers, words : Quiet]
    \cup [where : {"other"}, ts : {t \in MCTokens : t.form \in {"clf", "epoch", "syslog"}}, words : Quiet]
    \cup [where : {"plain"}, ts : {[form |-> "none"]}, words : {{v, w} : v, w \in Keywords}]
===============================================================================
