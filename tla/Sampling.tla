------------------------------- MODULE Sampling -------------------------------
(***************************************************************************)
(* The event sources of src/sampling.rs: ReplaySampler streams one file,   *)
(* SyntheticSampler jumps to a random byte of a random file for each event.*)
(*                                                                         *)
(* A file is the sequence of its lines' lengths in bytes, terminator       *)
(* included; a line is known by its index.  The random numbers are any     *)
(* numbers in the range the code draws from.  Somebody else may rotate a   *)
(* file during the run: its path then leads to a shorter one, while a      *)
(* reader that is open keeps reading the old one.                          *)
(***************************************************************************)
EXTENDS Integers, Sequences, FiniteSets

CONSTANTS
  Shapes,    \* the non-empty files tried, as sequences of line lengths
  MaxFiles,  \* most files in the log directory
  Lines,     \* --lines: most events asked for
  BigFile,   \* a file longer than this is entered at a random offset, 4096 in the code
  Tries      \* random draws of SyntheticSampler::next before its fallback, 8 in the code

ASSUME SamplingAssumption ==
  /\ Shapes \subseteq Seq(Nat \ {0}) /\ <<>> \notin Shapes
  /\ MaxFiles \in Nat \ {0} /\ Lines \in Nat /\ BigFile \in Nat /\ Tries \in Nat

VARIABLES
  mode,      \* "replay" or "synthetic"
  size,      \* LogFile.size: the sizes found by discovery
  files,     \* what the paths lead to now
  file,      \* replay: the file picked
  wrap,      \* replay: not --no-loop
  entry,     \* replay: index of the line the file was entered at
  reader,    \* replay: the file under the reader
  pos,       \* replay: index of the line under the reader
  line_no,   \* replay: ReplaySampler.line_no
  tries,     \* synthetic: draws made in vain by the current call of next
  state,     \* what next returned last: "line", "none" or "error"
  last,      \* the last event: its file, index and line_no
  given,     \* history: events given
  wrapped,   \* history: the reader has been back to the start
  intact     \* history: no file was rotated

vars == <<mode, size, files, file, wrap, entry, reader, pos, line_no, tries, state, last, given, wrapped,
          intact>>
confVars == <<mode, size, file, wrap, entry>>

\* Where each line begins, the end of the file included.
Begin(f) ==
  LET b[k \in 1..(Len(f) + 1)] == IF k = 1 THEN 0 ELSE b[k - 1] + f[k - 1] IN b
Bytes(f) == Begin(f)[Len(f) + 1]

\* Rng::below, any value it can give.
Below(n) == IF n = 0 THEN {0} ELSE 0..(n - 1)

\* The line under the reader after a seek to `offset' and one read_until that
\* skips the rest of the line there, a whole one if the offset is its first byte.
LineAfter(f, offset) == Cardinality({k \in 1..Len(f) : Begin(f)[k] =< offset}) + 1

\* Should that read fail, an error that is ignored, it is the line the offset is in, of
\* which only the rest comes.
LineAt(f, offset) == {k \in 1..Len(f) : Begin(f)[k] =< offset /\ offset < Begin(f)[k + 1]}
AfterSeek(f, offset) == {LineAfter(f, offset)} \cup LineAt(f, offset)

\* A directory of non-empty files, or an empty file given with --file.
Corpora == (UNION {[1..n -> Shapes] : n \in 1..MaxFiles}) \cup {<< <<>> >>}

\* The offsets ReplaySampler::new may seek to.
SeekOffsets(f) == IF Bytes(f) > BigFile THEN Below(Bytes(f) - 1) ELSE {}

\* The lines a replay may begin with: the first, as well if the seek fails.
Entries(f) == {1} \cup UNION {AfterSeek(f, offset) : offset \in SeekOffsets(f)}

ReplayNew ==
  /\ mode = "replay" /\ wrap \in BOOLEAN /\ file \in DOMAIN files
  /\ reader = files[file] /\ entry \in Entries(reader) /\ pos = entry

SyntheticNew ==
  /\ mode = "synthetic" /\ wrap = FALSE /\ file = 1 /\ entry = 1
  /\ reader = <<>> /\ pos = 1

Init ==
  /\ files \in Corpora
  /\ size = [i \in DOMAIN files |-> Bytes(files[i])]
  /\ ReplayNew \/ SyntheticNew
  /\ line_no = 0 /\ tries = 0 /\ state = "line" /\ given = 0
  /\ last = [file |-> 0, index |-> 0, line_no |-> 0]
  /\ wrapped = FALSE /\ intact = TRUE

\* next is called again only after a line, and at most Lines times.
Asked == state = "line" /\ given < Lines

Give(f, index, number) ==
  /\ last' = [file |-> f, index |-> index, line_no |-> number]
  /\ given' = given + 1
-------------------------------------------------------------------------------
(* ReplaySampler::next *)

AtEof == pos > Len(reader)

ReplayLine ==
  /\ mode = "replay" /\ Asked /\ ~AtEof
  /\ pos' = pos + 1 /\ line_no' = line_no + 1
  /\ Give(file, pos, line_no')
  /\ UNCHANGED <<confVars, files, reader, tries, state, wrapped, intact>>

\* Mutants of ReplayWraps: the line counter is not reset; the first line stays
\* under the reader.
ReplayWrapsCounting ==
  /\ mode = "replay" /\ Asked /\ AtEof /\ wrap /\ files[file] # <<>>
  /\ reader' = files[file] /\ pos' = 2 /\ line_no' = line_no + 1 /\ wrapped' = TRUE
  /\ Give(file, 1, line_no')
  /\ UNCHANGED <<confVars, files, tries, state, intact>>
ReplayWrapsStaying ==
  /\ mode = "replay" /\ Asked /\ AtEof /\ wrap /\ files[file] # <<>>
  /\ reader' = files[file] /\ pos' = 1 /\ line_no' = 1 /\ wrapped' = TRUE
  /\ Give(file, 1, line_no')
  /\ UNCHANGED <<confVars, files, tries, state, intact>>

\* End of file: the path is opened again and its first line read.
ReplayWraps ==
  /\ mode = "replay" /\ Asked /\ AtEof /\ wrap /\ files[file] # <<>>
  /\ reader' = files[file] /\ pos' = 2 /\ line_no' = 1 /\ wrapped' = TRUE
  /\ Give(file, 1, line_no')
  /\ UNCHANGED <<confVars, files, tries, state, intact>>

\* Mutants of ReplayEnds: --no-loop is the only way to go on; the last line is
\* given up with the end of the file.
ReplayEndsAlways ==
  /\ mode = "replay" /\ Asked /\ AtEof
  /\ state' = "none"
  /\ UNCHANGED <<confVars, files, reader, pos, line_no, tries, last, given, wrapped, intact>>
ReplayEndsEarly ==
  /\ mode = "replay" /\ Asked /\ pos >= Len(reader) /\ ~wrap
  /\ state' = "none"
  /\ UNCHANGED <<confVars, files, reader, pos, line_no, tries, last, given, wrapped, intact>>

\* End of file with --no-loop, or of a file with no line.
ReplayEnds ==
  /\ mode = "replay" /\ Asked /\ AtEof /\ (~wrap \/ files[file] = <<>>)
  /\ state' = "none"
  /\ UNCHANGED <<confVars, files, reader, pos, line_no, tries, last, given, wrapped, intact>>
-------------------------------------------------------------------------------
(* SyntheticSampler::next *)

\* read_from: the lines it may read in file i from `offset', past the end if there is none.
ReadFrom(i, offset) == IF offset = 0 THEN {1} ELSE AfterSeek(files[i], offset)
Found(i, index) == size[i] > 0 /\ index =< Len(files[i])

SyntheticGives(i, index) ==
  /\ Found(i, index)
  /\ Give(i, index, 0)
  /\ tries' = 0
  /\ UNCHANGED <<confVars, files, reader, pos, line_no, state, wrapped, intact>>

\* read_at draws an offset by the size discovery found.
SyntheticLine ==
  /\ mode = "synthetic" /\ Asked /\ tries < Tries
  /\ \E i \in DOMAIN files : \E offset \in Below(size[i] - 1) : \E index \in ReadFrom(i, offset) :
       SyntheticGives(i, index)

\* Mutant of SyntheticMiss: one draw too many.
SyntheticMissOneMore ==
  /\ mode = "synthetic" /\ Asked /\ tries =< Tries
  /\ \E i \in DOMAIN files :
       \/ size[i] = 0
       \/ \E offset \in Below(size[i] - 1) : \E index \in ReadFrom(i, offset) : ~Found(i, index)
  /\ tries' = tries + 1
  /\ UNCHANGED <<confVars, files, reader, pos, line_no, state, last, given, wrapped, intact>>

SyntheticMiss ==
  /\ mode = "synthetic" /\ Asked /\ tries < Tries
  /\ \E i \in DOMAIN files :
       \/ size[i] = 0
       \/ \E offset \in Below(size[i] - 1) : \E index \in ReadFrom(i, offset) : ~Found(i, index)
  /\ tries' = tries + 1
  /\ UNCHANGED <<confVars, files, reader, pos, line_no, state, last, given, wrapped, intact>>

\* The fallback reads a random file from its start.
FallbackLine ==
  /\ mode = "synthetic" /\ Asked /\ tries = Tries
  /\ \E i \in DOMAIN files : \E index \in ReadFrom(i, 0) : SyntheticGives(i, index)

\* Mutant of FallbackNone: the fallback draws an offset like the others.
FallbackNoneDrawing ==
  /\ mode = "synthetic" /\ Asked /\ tries = Tries
  /\ \E i \in DOMAIN files : \E offset \in Below(size[i] - 1) :
       \E index \in ReadFrom(i, offset) : ~Found(i, index)
  /\ state' = "none"
  /\ UNCHANGED <<confVars, files, reader, pos, line_no, tries, last, given, wrapped, intact>>

FallbackNone ==
  /\ mode = "synthetic" /\ Asked /\ tries = Tries
  /\ \E i \in DOMAIN files : \E index \in ReadFrom(i, 0) : ~Found(i, index)
  /\ state' = "none"
  /\ UNCHANGED <<confVars, files, reader, pos, line_no, tries, last, given, wrapped, intact>>
-------------------------------------------------------------------------------
\* A read, or opening a file, fails: next returns the error.
ReadFails ==
  /\ Asked
  /\ state' = "error"
  /\ UNCHANGED <<confVars, files, reader, pos, line_no, tries, last, given, wrapped, intact>>

\* A file is rotated, once in a run.
Rotate ==
  /\ intact
  /\ \E i \in DOMAIN files : \E k \in 0..(Len(files[i]) - 1) :
       files' = [files EXCEPT ![i] = SubSeq(@, 1, k)]
  /\ intact' = FALSE
  /\ UNCHANGED <<confVars, reader, pos, line_no, tries, state, last, given, wrapped>>

\* The generator asks no more.
Finished == ~Asked /\ UNCHANGED vars

Next ==
  \/ ReplayLine \/ ReplayWraps \/ ReplayEnds
  \/ SyntheticLine \/ SyntheticMiss \/ FallbackLine \/ FallbackNone
  \/ ReadFails \/ Rotate \/ Finished

Spec == Init /\ [][Next]_vars
-------------------------------------------------------------------------------
\* Type invariant: in particular no call of next draws more than Tries times,
\* and every event given has a file and a line.
TypeOK ==
  /\ mode \in {"replay", "synthetic"} /\ wrap \in BOOLEAN
  /\ file \in DOMAIN files /\ entry \in Nat \ {0} /\ DOMAIN size = DOMAIN files
  /\ pos \in Nat \ {0} /\ line_no \in Nat /\ given \in 0..Lines /\ tries \in 0..Tries
  /\ state \in {"line", "none", "error"}
  /\ last.index \in Nat /\ last.line_no \in Nat
  /\ given > 0 => last.file \in DOMAIN files /\ last.index > 0
  /\ wrapped \in BOOLEAN /\ intact \in BOOLEAN

\* Replay gives the lines in the file's order: each event is the line after the
\* one before, or the first line after the last one when it wraps around.
InFileOrder ==
  [][mode = "replay" /\ given > 0 /\ given' > given =>
       \/ last'.index = last.index + 1
       \/ wrap /\ last'.index = 1 /\ last.index = Len(reader)]_vars

\* A looping replay never runs dry while its file has a line, however short the
\* file and wherever it was entered (architecture "a file with exactly one
\* line still satisfies any count").
LoopNeverEnds == mode = "replay" /\ wrap /\ state = "none" => files[file] = <<>>

\* With --no-loop every line from the entry point on is given, exactly once,
\* before the source says it is exhausted.
NoLoopGivesTheRest ==
  mode = "replay" /\ ~wrap /\ state = "none" => given = Len(reader) + 1 - entry

\* The line number of a replayed event counts from the entry point before the
\* first wrap and is its place in the file after it.
LineNoCounts ==
  mode = "replay" /\ given > 0 =>
    last.line_no = IF wrapped THEN last.index ELSE last.index + 1 - entry

\* A synthetic source never ends while the files are as discovery found them,
\* unless --file names an empty one: the fallback needs no luck.
SyntheticNeverEnds ==
  mode = "synthetic" /\ intact /\ state = "none" => \A i \in DOMAIN size : size[i] = 0

\* No source that has a line to give says it has none: neither a looping replay, nor a
\* synthetic run with bad luck in its draws.
NeverRunsDry == LoopNeverEnds /\ SyntheticNeverEnds

\* The entry point is accounted for, in the number of events as in the number of each.
EntryAccounted == NoLoopGivesTheRest /\ LineNoCounts
===============================================================================
