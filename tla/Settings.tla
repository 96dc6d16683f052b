------------------------------- MODULE Settings -------------------------------
(***************************************************************************)
(* src/config.rs: what a run is made of, merged from the command line, the *)
(* environment, the configuration file and the defaults, and validated;    *)
(* what transports make of an endpoint; what a run makes of a window.      *)
(*                                                                         *)
(* An input has cli, env and file.  cli and env are functions on the       *)
(* options, or variables, that are given.  file is [state, entries]: the   *)
(* entries in their order, keys with their dashes replaced.  A text that   *)
(* is a number is that number; a window is its number and unit, or a word; *)
(* a URL is what stands between its slashes.  A value that may be missing  *)
(* is a set of at most one element.                                        *)
(*                                                                         *)
(* This is the release build, where integers wrap.  U64, MaxDelta, MaxDate *)
(* and MaxNanos keep the order of their real values: 2^64, the longest     *)
(* chrono::Duration, the distance to chrono's first date, 292 years.       *)
(***************************************************************************)
EXTENDS Integers, Sequences

CONSTANTS
  Empty,                   \* the empty text
  Garbage,                 \* a text with no meaning where it stands
  Unsupported,             \* a JSON value that is not a text, a number or a truth value
  Negative, NaN, Infinity, \* numbers that --rate can be
  UrlText,                 \* what may stand between the slashes of a URL
  WithColon,               \* what of that ends with a colon, as a scheme does
  U64,                     \* one more than the greatest u64
  MaxDelta,                \* longest chrono::Duration, in seconds
  MaxDate,                 \* seconds from now back to the first date
  MaxNanos                 \* seconds whose nanoseconds fit an i64

ASSUME SettingsAssumption ==
  /\ Unsupported \notin {Empty, Garbage, 0}
  /\ Empty \in UrlText /\ {"v1", "logs", "services", "collector", "event"} \subseteq UrlText \ {Empty}
  /\ Empty \notin Seq(UrlText) /\ WithColon \subseteq UrlText \ {Empty}
  /\ U64 \in Nat /\ MaxDelta \in 3600..(U64 - 1) /\ MaxDate \in 3600..MaxDelta /\ MaxNanos \in 3600..MaxDate

Numbers == {"lines", "seed", "batch_size", "workers", "rate", "timeout", "retries"}
Flags == {"insecure", "fail_fast", "quiet", "verbose", "json", "no_loop"}
WithVariable == {"transport", "hec_token", "log_dir", "seed", "batch_size", "workers", "rate",
                 "timeout", "retries", "service_name"}
Options == Numbers \cup WithVariable
             \cup {"endpoint", "recent_window", "start_offset", "otel_protocol", "file", "host",
                   "ts_distribution", "index", "source", "sourcetype"}

Given(place, key) == IF key \in DOMAIN place THEN {place[key]} ELSE {}
----------------------------------------------------------------------------
(* Precedence. *)

\* Mistake: a variable of any transport will do.
EnvVarAny(o, transport) ==
  IF o = "endpoint" THEN {"otel_endpoint", "hec_endpoint"} ELSE {o} \cap WithVariable

\* The variables an option is read from, by the transport in use.
EnvVar(o, transport) ==
  IF o = "endpoint" THEN (CASE transport = {"otel"} -> {"otel_endpoint"}
                            [] transport = {"hec"}  -> {"hec_endpoint"}
                            [] OTHER                -> {})
  ELSE {o} \cap WithVariable

\* A variable set to the empty text is not set.
FromEnv(in, o, transport) == UNION {Given(in.env, v) : v \in EnvVar(o, transport)} \ {Empty}

\* load_config_file: the last of several spellings of a key counts.
FromFile(in, o) ==
  LET hits == {i \in DOMAIN in.file.entries : in.file.entries[i].key = o}
  IN  IF in.file.state = "absent" THEN {}
      ELSE {in.file.entries[i].value : i \in {j \in hits : \A k \in hits : k =< j}}

FileLoads(in) ==
  \/ in.file.state = "absent"
  \/ in.file.state = "object" /\ \A i \in DOMAIN in.file.entries : in.file.entries[i].value # Unsupported

Default(o) ==
  CASE o = "transport" -> {"stdout"}          [] o = "start_offset" -> {"random"}
    [] o = "otel_protocol" -> {"http"}        [] o = "log_dir" -> {"./logs"}
    [] o = "service_name" -> {"logpushi"}     [] o = "ts_distribution" -> {"uniform"}
    [] o \in {"lines", "batch_size"} -> {100} [] o = "workers" -> {4}
    [] o = "rate" -> {0}                      [] o = "timeout" -> {30}
    [] o = "retries" -> {3}                   [] o = "host" -> {Empty}
    [] o = "recent_window" -> {[num |-> 1, unit |-> "h"]}
    [] OTHER -> {}

\* Mistake: the file before the environment.
ResolveFileFirst(in, o, transport) ==
  IF Given(in.cli, o) # {} THEN Given(in.cli, o)
  ELSE IF FromFile(in, o) # {} THEN FromFile(in, o)
  ELSE IF FromEnv(in, o, transport) # {} THEN FromEnv(in, o, transport)
  ELSE Default(o)

\* resolve, resolve_opt and resolve_string: the first place that gives the option.
Resolve(in, o, transport) ==
  IF Given(in.cli, o) # {} THEN Given(in.cli, o)
  ELSE IF FromEnv(in, o, transport) # {} THEN FromEnv(in, o, transport)
  ELSE IF FromFile(in, o) # {} THEN FromFile(in, o)
  ELSE Default(o)
----------------------------------------------------------------------------
(* The meaning of a text: none if it is refused. *)

UnitSeconds == [s |-> 1, m |-> 60, h |-> 3600, d |-> 86400]
IsSpan(v) == v \notin {Empty, Garbage} /\ "unit" \in DOMAIN v

\* Mistake: the unit is checked and forgotten.
ParseWindowSeconds(v) ==
  IF v \in {Empty, Garbage} THEN {}
  ELSE IF ~IsSpan(v) THEN {[kind |-> v.word]}
  ELSE IF v.unit \notin DOMAIN UnitSeconds THEN {}
  ELSE {[kind |-> "seconds", seconds |-> v.num]}

\* The multiplication by the unit wraps.
ParseWindow(v) ==
  IF v \in {Empty, Garbage} THEN {}
  ELSE IF ~IsSpan(v) THEN {[kind |-> v.word]}
  ELSE IF v.unit \notin DOMAIN UnitSeconds THEN {}
  ELSE {[kind |-> "seconds", seconds |-> (v.num * UnitSeconds[v.unit]) % U64]}

\* The text is cut one byte before its end, which is inside a character if
\* that is not ASCII: the slice panics.
WindowPanics(v) == IsSpan(v) /\ v.unit = "wide"

Meaning(o, v) ==
  CASE o = "transport"     -> {v} \cap {"stdout", "otel", "hec"}
    [] o = "start_offset"  -> {v} \cap {"random", "start"}
    [] o = "otel_protocol" -> {v} \cap {"http", "grpc"}
    [] o = "recent_window" -> ParseWindow(v)
    [] o \in Numbers       -> {v} \ {Empty, Garbage}
    [] OTHER               -> {v}
----------------------------------------------------------------------------
(* Config::from_run, then Config::validate. *)

Transport(in) == UNION {Meaning("transport", v) : v \in Resolve(in, "transport", {})}
Text(in, o) == Resolve(in, o, Transport(in))

\* A flag is on when it is given, or its key is in the file, whatever its value.
FlagsOn(in) == {f \in Flags : Given(in.cli, f) # {} \/ FromFile(in, f) # {}}

Merged(in) ==
  [o \in Options \cup {"mode", "flags"} |->
     IF o = "mode" THEN {in.cmd} ELSE IF o = "flags" THEN FlagsOn(in)
     ELSE UNION {Meaning(o, v) : v \in Text(in, o)}]

Parses(in) == \A o \in Options : \A v \in Text(in, o) : Meaning(o, v) # {}

\* Mistake: a HEC run needs no token.
ValidWithoutToken(c) ==
  /\ 0 \notin c.workers \cup c.batch_size \cup c.lines
  /\ c.rate \cap {Negative, NaN} = {}
  /\ c.transport # {"stdout"} => c.endpoint # {}
  /\ c.otel_protocol = {"http"} /\ c.ts_distribution = {"uniform"}

\* With --otel-protocol grpc a run is refused whatever its transport.
Valid(c) ==
  /\ 0 \notin c.workers \cup c.batch_size \cup c.lines
  /\ c.rate \cap {Negative, NaN} = {}
  /\ c.transport # {"stdout"} => c.endpoint # {}
  /\ c.transport = {"hec"} => c.hec_token # {}
  /\ c.otel_protocol = {"http"} /\ c.ts_distribution = {"uniform"}

\* resolve_config: the configuration of a run, if it is not refused.
Config(in) == {c \in {Merged(in)} : FileLoads(in) /\ Parses(in) /\ Valid(c)}

\* from_run comes to the window after the transport and before all the rest.
ConfigPanics(in) ==
  FileLoads(in) /\ Transport(in) # {} /\ \E v \in Text(in, "recent_window") : WindowPanics(v)
----------------------------------------------------------------------------
(* Where the transports post to. *)

Pieces(url) == IF url = Empty THEN <<Empty>> ELSE url

\* trim_end_matches('/')
Trim(url) ==
  LET full == {i \in 1..Len(url) : url[i] # Empty}
  IN  IF full = {} THEN <<Empty>> ELSE SubSeq(url, 1, CHOOSE i \in full : \A j \in full : j =< i)

\* Something stands after the authority, which begins after the first ://.
HasPath(base) ==
  \E i \in 1..(Len(base) - 3) :
    /\ base[i] \in WithColon /\ base[i + 1] = Empty
    /\ \A j \in 1..(i - 1) : ~(base[j] \in WithColon /\ base[j + 1] = Empty)

\* Mistake: the path is appended to every endpoint.
OtelUrlAppended(url) == Trim(Pieces(url)) \o <<"v1", "logs">>

OtelUrl(url) ==
  LET base == Trim(Pieces(url)) IN IF HasPath(base) THEN base ELSE base \o <<"v1", "logs">>

HecUrl(url) ==
  LET base == Trim(Pieces(url)) IN
  IF \E i \in 2..(Len(base) - 2) : base[i] = "services" /\ base[i + 1] = "collector"
  THEN base ELSE base \o <<"services", "collector", "event">>

\* transport::build: where a configuration sends to, if anywhere.
Url(c) ==
  CASE c.transport = {"otel"} -> {OtelUrl(u) : u \in c.endpoint}
    [] c.transport = {"hec"}  -> {HecUrl(u) : u \in c.endpoint}
    [] OTHER                  -> {}
----------------------------------------------------------------------------
(* recent_window_span for a window in seconds, and what build_event draws  *)
(* from it: the ages of events at the start of the run.                    *)

Length(w) == IF w.seconds > MaxDelta THEN 3600 ELSE w.seconds

\* anchor - d leaves the calendar.
SpanPanics(w) == w.kind = "seconds" /\ Length(w) > MaxDate

\* The span in nanoseconds, 0 if that overflows; an offset below it is drawn.
OldestAndNewest(w) ==
  IF w.kind # "seconds" THEN {}
  ELSE IF Length(w) > MaxNanos \/ Length(w) = 0 THEN {Length(w)} ELSE {1, Length(w)}
===============================================================================
