-------------------------------- MODULE MCMain --------------------------------
(* Invocations of the program for TLC. *)
EXTENDS Main, TLC

Nothing == <<>>
NoFile == [state |-> "absent", entries |-> <<>>]
Object(entries) == [state |-> "object", entries |-> entries]
Key(k, v) == [key |-> k, value |-> v]

Input(cmd, cli, env, file) == [cmd |-> cmd, cli |-> cli, env |-> env, file |-> file]

\* A log directory with one file, at which --file points.
Top == <<"./logs">>
Log == <<"./logs", 1>>
Good == File(10, TRUE, TRUE, <<"dated", "plain">>, FALSE)
Small == (Top :> Directory(TRUE)) @@ (Log :> Good)
OnSmall(inputs) == {[in |-> i, disk |-> Small] : i \in inputs}
Pin == "file" :> Log

\* Each of these options in each place: not given, given well, given badly.
Values ==
  [lines |-> <<7, 0>>, workers |-> <<2, 0>>, batch_size |-> <<5, Garbage>>, rate |-> <<Infinity, Negative>>,
   seed |-> <<1, Garbage>>, start_offset |-> <<"start", Garbage>>, ts_distribution |-> <<"uniform", Garbage>>,
   transport |-> <<"stdout", Garbage>>, log_dir |-> <<"./logs", Empty>>]
Place(o, k) == IF k = 0 THEN Nothing ELSE o :> Values[o][k]
InEveryPlace ==
  {Input("replay", Place(o, a) @@ Pin, IF o \in WithVariable THEN Place(o, b) ELSE Nothing,
         IF c = 0 THEN NoFile ELSE Object(<<Key(o, Values[o][c])>>)) :
     o \in DOMAIN Values, a \in 0..2, b \in 0..2, c \in 0..2}

\* Endpoints of different origin, tokens, protocols.
Host(name) == <<"http:", Empty, name>>
Origins == {"cli", "otel_endpoint", "hec_endpoint", "file"}
Endpoints ==
  {Input("replay",
         Pin @@ ("transport" :> t) @@ p
           @@ (IF "cli" \in from THEN "endpoint" :> Host("cli") ELSE Nothing)
           @@ (IF token = "cli" THEN "hec_token" :> "t" ELSE Nothing),
         [v \in from \cap {"otel_endpoint", "hec_endpoint"} |-> Host(v)]
           @@ (IF token = "env" THEN "hec_token" :> "t" ELSE IF token = "empty" THEN "hec_token" :> Empty ELSE Nothing),
         Object((IF "file" \in from THEN <<Key("endpoint", Host("file"))>> ELSE <<>>)
                  \o (IF token = "file" THEN <<Key("hec_token", "t")>> ELSE <<>>))) :
     t \in {"stdout", "otel", "hec"}, from \in SUBSET Origins,
     token \in {"none", "cli", "env", "empty", "file"}, p \in {Nothing, "otel_protocol" :> "grpc"}}

Paths == {<<>>, <<Empty>>, <<"v1", "logs">>, <<"x", Empty>>, <<"services", "collector">>,
          <<"services", "collector", Empty>>, <<"services", "collector", "event">>, <<Empty, "http:", Empty>>}
MCWithColon == {"http:", "ftp:"}
MCUrlText == {"http:", "ftp:", Empty, "cli", "file", "otel_endpoint", "hec_endpoint", "a", "x", "v1", "logs",
              "services", "collector", "event"}
Shapes == {Host("a") \o p : p \in Paths} \cup {<<"a">> \o p : p \in Paths}
            \cup {<<"ftp:", Empty, "a">>, <<"ftp:", Empty, "a", "x">>, Empty}
Urls == {Input("replay", Pin @@ ("transport" :> t) @@ ("endpoint" :> u) @@ ("hec_token" :> "t"), Nothing, NoFile) :
           t \in {"otel", "hec"}, u \in Shapes}

\* Windows on both sides of every limit.
Span(num, unit) == [num |-> num, unit |-> unit]
SomeWindows ==
  {Span(0, "s"), Span(1, "s"), Span(5, "m"), Span(2, "h"), Span(3, "d"), Span(4, "d"), Span(7, "d"), Span(11, "d"),
   Span(13, "d"), Span(3, "x"), Span(3, "wide"), [word |-> "now"], [word |-> "today"], Garbage, Empty}
Windows == {Input(cmd, Pin @@ ("recent_window" :> v), Nothing, NoFile) :
              cmd \in {"replay", "synthetic-today"}, v \in SomeWindows}

\* Files that do not load, keys given twice, flags.
Files ==
  {Input("replay", Pin @@ cli, "workers" :> 2, f) :
     cli \in {Nothing, "lines" :> 5, "lines" :> Garbage, "quiet" :> "given"},
     f \in {[NoFile EXCEPT !.state = s] : s \in {"invalid", "unreadable"}}
             \cup {Object(<<Key("lines", a), Key("lines", b)>>) : a, b \in {3, 0, Unsupported}}
             \cup {Object(<<Key("insecure", "false"), Key("workers", 0)>>)}}

\* What may be on disk.
Plain(lines) == File(10, TRUE, TRUE, lines, FALSE)
Nested ==
  (Top :> Directory(TRUE))
    @@ (Append(Top, 1) :> Directory(TRUE)) @@ (<<"./logs", 1, 1>> :> Plain(<<"dated", "bad", "plain">>))
    @@ (<<"./logs", 1, 2>> :> Directory(TRUE)) @@ (<<"./logs", 1, 2, 1>> :> Good)
    @@ (Append(Top, 2) :> Plain(<<"yearless", "dated">>)) @@ (Append(Top, 3) :> Link(Directory(TRUE)))
    @@ (<<"./logs", 3, 1>> :> Good) @@ (Append(Top, 4) :> Link(Good))
Odd ==
  (Top :> Directory(TRUE))
    @@ (Append(Top, 1) :> Directory(FALSE)) @@ (<<"./logs", 1, 1>> :> Good)
    @@ (Append(Top, 2) :> Directory(TRUE)) @@ (<<"./logs", 2, 1>> :> Good)
    @@ (<<"./logs", 2, 2>> :> File(0, TRUE, TRUE, <<>>, FALSE))
    @@ (Append(Top, 3) :> File(10, FALSE, TRUE, <<"plain">>, FALSE))
    @@ (Append(Top, 4) :> File(10, TRUE, FALSE, <<"plain">>, FALSE))
    @@ (Append(Top, 5) :> File(10, TRUE, TRUE, <<"plain">>, TRUE))
    @@ (Append(Top, 9) :> Plain(<<"dated">>))
NoDir == Log :> Good
Linked == (Top :> Link(Directory(TRUE))) @@ (Log :> Good) @@ (Append(Top, 2) :> Link(Nowhere))
Disks == {Nested, Odd, Small, NoDir, Linked}

Commands ==
  {Input("discover", cli, Nothing, NoFile) :
     cli \in {Nothing, "count" :> "given", ("count" :> "given") @@ ("json" :> "given"), "log_dir" :> "./other",
             "log_dir" :> Empty}}
  \cup {Input("validate", cli, Nothing, NoFile) :
          cli \in {Nothing, "sample" :> 2, "sample" :> 0,
                   ("file" :> <<"./logs", 2>>) @@ ("sample" :> 1), "file" :> <<"./logs", 9>>}}
  \cup {Input(cmd, cli, Nothing, NoFile) :
          cmd \in {"replay", "synthetic-today"}, cli \in {Nothing, "file" :> <<"./logs", 4>>}}

MCInvocations ==
  OnSmall(InEveryPlace \cup Endpoints \cup Urls \cup Windows \cup Files) \cup [in : Commands, disk : Disks]

MCNewPath == <<"./logs", 1, 3>>
MCNewNode == Good
===============================================================================
