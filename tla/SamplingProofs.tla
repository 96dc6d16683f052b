---------------------------- MODULE SamplingProofs ----------------------------
(***************************************************************************)
(* Theorems about the event sources, for any number of files of any        *)
(* lengths, any --lines and any number of draws.                           *)
(*                                                                         *)
(* Begin is a recursive function over the lines of a file.  What it gives  *)
(* is shown without an induction rule, by a smallest counterexample.       *)
(***************************************************************************)
EXTENDS Sampling, FiniteSetTheorems, WellFoundedInduction, TLAPS

Lengths == Nat \ {0}

\* A set of numbers that is not empty has a smallest one.
LEMMA LeastOf ==
  ASSUME NEW S \in SUBSET Nat, S # {}
  PROVE  \E m \in S : \A k \in S : m =< k
<1> DEFINE R == OpToRel(<, Nat)
<1>1. IsWellFoundedOn(R, Nat)
  BY NatLessThanWellFounded
<1>2. \A x, y \in Nat : <<x, y>> \in R <=> x < y
  BY DEF OpToRel
<1> HIDE DEF R
<1>3. PICK m \in S : \A y \in S : ~(<<y, m>> \in R)
  BY <1>1, WFMin
<1>4. SUFFICES ASSUME NEW k \in S PROVE m =< k
  BY <1>3
<1>5. m \in Nat /\ k \in Nat
  OBVIOUS
<1>6. ~(k < m)
  BY <1>2, <1>3, <1>5
<1>7. QED
  BY <1>5, <1>6

\* b is the function that Begin asks for, over the first n lines.
Recurs(b, f, n) == b = [k \in 1..n |-> IF k = 1 THEN 0 ELSE b[k - 1] + f[k - 1]]

LEMMA RecursExists ==
  ASSUME NEW f, NEW n \in Nat
  PROVE  \E b : Recurs(b, f, n)
<1> DEFINE Bad == {k \in Nat : ~ \E b : Recurs(b, f, k)}
<1>1. SUFFICES ASSUME Bad # {} PROVE FALSE
  OBVIOUS
<1>2. PICK m \in Bad : \A k \in Bad : m =< k
  BY <1>1, LeastOf
<1>3. m # 0
  <2>1. Recurs([k \in 1..0 |-> 0], f, 0)
    BY DEF Recurs
  <2>2. QED
    BY <2>1
<1>4. PICK b : Recurs(b, f, m - 1)
  BY <1>2, <1>3
<1> DEFINE c == [k \in 1..m |-> IF k = 1 THEN 0 ELSE b[k - 1] + f[k - 1]]
<1>5. \A k \in 1..(m - 1) : c[k] = b[k]
  BY <1>4 DEF Recurs
<1>6. \A k \in 1..m : c[k] = IF k = 1 THEN 0 ELSE c[k - 1] + f[k - 1]
  <2> SUFFICES ASSUME NEW k \in 1..m, k # 1 PROVE c[k] = c[k - 1] + f[k - 1]
    OBVIOUS
  <2>1. m \in Nat /\ k - 1 \in 1..(m - 1)
    OBVIOUS
  <2>2. c[k - 1] = b[k - 1]
    BY <1>5, <2>1
  <2>3. QED
    BY <2>2
<1>7. Recurs(c, f, m)
  BY <1>6 DEF Recurs
<1>8. QED
  BY <1>7

LEMMA BeginRecurs ==
  ASSUME NEW f \in Seq(Lengths)
  PROVE  Recurs(Begin(f), f, Len(f) + 1)
<1>1. \E b : Recurs(b, f, Len(f) + 1)
  BY RecursExists
<1>2. QED
  BY <1>1 DEF Begin, Recurs

\* The first line begins at byte 0, the others and the end of the file after it.
LEMMA BeginsAfter ==
  ASSUME NEW f \in Seq(Lengths)
  PROVE  \A k \in 1..(Len(f) + 1) : Begin(f)[k] \in Nat /\ (Begin(f)[k] = 0 <=> k = 1)
<1> DEFINE b == Begin(f)
<1> DEFINE Good(k) == b[k] \in Nat /\ (b[k] = 0 <=> k = 1)
<1> DEFINE Bad == {k \in 1..(Len(f) + 1) : ~Good(k)}
<1>1. Len(f) \in Nat /\ \A k \in 1..Len(f) : f[k] \in Lengths
  OBVIOUS
<1>2. \A k \in 1..(Len(f) + 1) : b[k] = IF k = 1 THEN 0 ELSE b[k - 1] + f[k - 1]
  BY BeginRecurs DEF Recurs
<1> HIDE DEF b
<1>3. SUFFICES ASSUME Bad # {} PROVE FALSE
  BY DEF b
<1>4. PICK m \in Bad : \A k \in Bad : m =< k
  <2>1. Bad \in SUBSET Nat
    BY <1>1
  <2>2. QED
    BY <1>3, <2>1, LeastOf
<1>5. m # 1
  BY <1>1, <1>2
<1>6. m - 1 \in 1..Len(f) /\ m - 1 \in 1..(Len(f) + 1)
  BY <1>1, <1>5
<1>7. Good(m - 1)
  BY <1>1, <1>4, <1>6
<1>8. b[m] = b[m - 1] + f[m - 1] /\ f[m - 1] \in Lengths
  BY <1>1, <1>2, <1>5, <1>6
<1>9. QED
  BY <1>1, <1>4, <1>5, <1>7, <1>8 DEF Lengths

\* A file has bytes if, and only if, it has lines.
LEMMA BytesOfLines ==
  ASSUME NEW f \in Seq(Lengths)
  PROVE  Bytes(f) \in Nat /\ (Bytes(f) = 0 <=> f = <<>>)
<1>1. Len(f) \in Nat /\ (Len(f) = 0 <=> f = <<>>)
  OBVIOUS
<1>2. QED
  BY <1>1, BeginsAfter DEF Bytes

\* The line found after a seek is one of the file's, or the end.
LEMMA LineAfterBound ==
  ASSUME NEW f \in Seq(Lengths), NEW offset
  PROVE  LineAfter(f, offset) \in 1..(Len(f) + 1)
<1> DEFINE S == {k \in 1..Len(f) : Begin(f)[k] =< offset}
<1>1. Len(f) \in Nat
  OBVIOUS
<1>2. IsFiniteSet(1..Len(f)) /\ Cardinality(1..Len(f)) = Len(f)
  BY <1>1, FS_Interval
<1>3. IsFiniteSet(S) /\ Cardinality(S) =< Cardinality(1..Len(f))
  BY <1>2, FS_Subset
<1>4. Cardinality(S) \in Nat
  BY <1>3, FS_CardinalityType
<1>5. QED
  BY <1>1, <1>2, <1>3, <1>4 DEF LineAfter

\* So are the lines a source may go on with after a seek.
LEMMA AfterSeekBound ==
  ASSUME NEW f \in Seq(Lengths), NEW offset, NEW index \in AfterSeek(f, offset)
  PROVE  index \in 1..(Len(f) + 1)
<1>1. Len(f) \in Nat
  OBVIOUS
<1>2. QED
  BY <1>1, LineAfterBound DEF AfterSeek, LineAt
-------------------------------------------------------------------------------
LEMMA EmptySeqs == \A S : <<>> \in Seq(S)
  OBVIOUS

FileSet == DOMAIN files

\* What is known of the files: those of the directory, and the one that is read.
FilesInv ==
  /\ files \in [FileSet -> Seq(Lengths)] /\ 1 \in FileSet /\ FileSet \subseteq Nat \ {0}
  /\ reader \in Seq(Lengths)

\* Until somebody rotates a file the sizes are those found by discovery, and
\* either no file is empty or the only one is.
SizesInv ==
  /\ DOMAIN size = FileSet
  /\ intact => /\ \A i \in FileSet : size[i] = Bytes(files[i])
               /\ (\A i \in FileSet : files[i] # <<>>) \/ (\A i \in FileSet : files[i] = <<>>)

LastType == [file : Nat, index : Nat, line_no : Nat]

\* The events: how many there may be, and what is known of the last one.
GivenInv ==
  /\ given \in 0..Lines /\ tries \in 0..Tries
  /\ last \in LastType
  /\ given > 0 => last.file \in FileSet /\ last.index > 0

\* The place of the reader accounts for the events given: since it was opened
\* last, and since the entry point if that was the first time.
ReplayInv ==
  mode = "replay" =>
    /\ pos =< Len(reader) + 1
    /\ given > 0 => last.index = pos - 1 /\ last.line_no = line_no
    /\ wrapped => wrap /\ line_no = pos - 1
    /\ ~wrapped => pos = entry + given /\ line_no = given
    /\ state = "none" => AtEof /\ (~wrap \/ files[file] = <<>>)

SourceInv == TypeOK /\ FilesInv /\ SizesInv /\ GivenInv /\ ReplayInv /\ SyntheticNeverEnds

\* What TypeOK asks of the variables that start with nothing given.
LEMMA EmptyRun ==
  ASSUME Init
  PROVE  /\ FileSet = DOMAIN files /\ DOMAIN size = FileSet
         /\ line_no \in Nat /\ given \in 0..Lines /\ ~(given > 0) /\ tries \in 0..Tries
         /\ state \in {"line", "none", "error"}
         /\ last.index \in Nat /\ last.line_no \in Nat
         /\ wrapped \in BOOLEAN /\ intact \in BOOLEAN
<1>1. /\ line_no = 0 /\ tries = 0 /\ state = "line" /\ given = 0
      /\ last = [file |-> 0, index |-> 0, line_no |-> 0]
      /\ wrapped = FALSE /\ intact = TRUE
      /\ size = [i \in FileSet |-> Bytes(files[i])]
  BY DEF Init, FileSet
<1>2. last.index = 0 /\ last.line_no = 0 /\ DOMAIN size = FileSet
  BY <1>1
<1>3. 0 \in 0..Lines /\ 0 \in 0..Tries
  BY SamplingAssumption
<1>4. /\ line_no \in Nat /\ given \in 0..Lines /\ ~(given > 0) /\ tries \in 0..Tries
      /\ last.index \in Nat /\ last.line_no \in Nat
  BY <1>1, <1>2, <1>3, SMT
<1>5. QED
  BY <1>1, <1>2, <1>4, Zenon DEF FileSet

LEMMA SourceInit == Init => SourceInv
<1> SUFFICES ASSUME Init PROVE SourceInv
  OBVIOUS
<1> USE SamplingAssumption
<1>1. /\ files \in [FileSet -> Seq(Lengths)] /\ 1 \in FileSet /\ FileSet \subseteq Nat \ {0}
      /\ (\A i \in FileSet : files[i] # <<>>) \/ (\A i \in FileSet : files[i] = <<>>)
  <2>1. CASE files \in UNION {[1..n -> Shapes] : n \in 1..MaxFiles}
    <3>1. PICK n \in 1..MaxFiles : files \in [1..n -> Shapes]
      BY <2>1
    <3>2. n \in Nat /\ n >= 1 /\ FileSet = 1..n
      BY <3>1 DEF FileSet
    <3>3. \A i \in FileSet : files[i] \in Seq(Lengths) /\ files[i] # <<>>
      BY <3>1, <3>2 DEF Lengths
    <3>4. files = [i \in FileSet |-> files[i]]
      BY <3>1, <3>2
    <3>5. QED
      BY <3>2, <3>3, <3>4
  <2>2. CASE files = << <<>> >>
    <3>1. files = [i \in 1..1 |-> <<>>]
      BY <2>2
    <3>2. FileSet = 1..1 /\ \A i \in FileSet : files[i] = <<>>
      BY <3>1 DEF FileSet
    <3>3. <<>> \in Seq(Lengths)
      BY EmptySeqs
    <3>4. QED
      BY <3>1, <3>2, <3>3
  <2>3. QED
    <3>1. files \in Corpora
      BY DEF Init
    <3>2. QED
      BY <2>1, <2>2, <3>1 DEF Corpora
<1>2. /\ line_no = 0 /\ tries = 0 /\ state = "line" /\ given = 0
      /\ last = [file |-> 0, index |-> 0, line_no |-> 0]
      /\ wrapped = FALSE /\ intact = TRUE
      /\ size = [i \in FileSet |-> Bytes(files[i])]
  BY DEF Init, FileSet
<1>3. SizesInv
  BY <1>1, <1>2 DEF SizesInv
<1>4. GivenInv
  BY <1>2 DEF GivenInv, LastType
<1>5. CASE ReplayNew
  <2>1. file \in FileSet /\ reader = files[file] /\ reader \in Seq(Lengths)
    BY <1>1, <1>5 DEF ReplayNew, FileSet
  <2>2. FilesInv
    BY <1>1, <2>1 DEF FilesInv
  <2>3. entry \in 1..(Len(reader) + 1)
    <3>1. Len(reader) \in Nat
      BY <2>1
    <3>2. entry = 1 \/ \E offset : entry \in AfterSeek(reader, offset)
      BY <1>5 DEF ReplayNew, Entries
    <3>3. QED
      BY <2>1, <3>1, <3>2, AfterSeekBound
  <2>4. pos = entry /\ mode = "replay" /\ wrap \in BOOLEAN
    BY <1>5 DEF ReplayNew
  <2>5. Len(reader) \in Nat
    BY <2>1
  <2>6. ReplayInv
    BY <1>2, <2>3, <2>4, <2>5 DEF ReplayInv
  <2>7. TypeOK
    BY <1>1, <2>1, <2>3, <2>4, <2>5, EmptyRun DEF TypeOK
  <2>8. SyntheticNeverEnds
    BY <1>2 DEF SyntheticNeverEnds
  <2>9. QED
    BY <1>3, <1>4, <2>2, <2>6, <2>7, <2>8 DEF SourceInv
<1>6. CASE SyntheticNew
  <2>1. mode = "synthetic" /\ wrap = FALSE /\ file = 1 /\ entry = 1 /\ reader = <<>> /\ pos = 1
    BY <1>6 DEF SyntheticNew
  <2>2. reader \in Seq(Lengths)
    BY <2>1, EmptySeqs
  <2>3. FilesInv
    BY <1>1, <2>2 DEF FilesInv
  <2>4. TypeOK
    BY <1>1, <2>1, EmptyRun DEF TypeOK
  <2>5. ReplayInv /\ SyntheticNeverEnds
    BY <1>2, <2>1 DEF ReplayInv, SyntheticNeverEnds
  <2>6. QED
    BY <1>3, <1>4, <2>3, <2>4, <2>5 DEF SourceInv
<1>7. QED
  BY <1>5, <1>6 DEF Init

\* What is never touched but by a rotation, and a step that gives nothing.
KeptVars == <<confVars, files, reader, intact>>
SilentVars == <<line_no, last, given, wrapped>>

\* Lemmas with common hypotheses: a step from a state of the invariant.
LEMMA KeptFiles ==
  ASSUME SourceInv, UNCHANGED <<confVars, files, intact>>, reader' \in Seq(Lengths)
  PROVE  FilesInv' /\ SizesInv' /\ FileSet' = FileSet
BY DEF SourceInv, FilesInv, SizesInv, FileSet, confVars

\* An event of a file's line, in either mode.
LEMMA GivesOne ==
  ASSUME SourceInv, Asked, UNCHANGED <<confVars, files>>, NEW i \in FileSet, NEW index \in Nat \ {0},
         NEW number \in Nat, Give(i, index, number), tries' \in 0..Tries
  PROVE  GivenInv' /\ last'.index = index /\ last'.line_no = number /\ given' = given + 1 /\ given' > 0
<1>1. last' = [file |-> i, index |-> index, line_no |-> number] /\ given' = given + 1
  BY DEF Give
<1>2. given \in 0..Lines /\ given < Lines /\ Lines \in Nat
  BY SamplingAssumption DEF SourceInv, GivenInv, Asked
<1>3. FileSet \subseteq Nat \ {0} /\ FileSet' = FileSet
  BY DEF SourceInv, FilesInv, FileSet
<1>4. last' \in LastType /\ last'.file = i /\ last'.index = index /\ last'.line_no = number
  BY <1>1, <1>3 DEF LastType
<1>5. given' \in 0..Lines /\ given' > 0
  BY <1>1, <1>2
<1>6. QED
  BY <1>1, <1>3, <1>4, <1>5 DEF GivenInv

\* The type invariant of a step, from its parts.
LEMMA TypesStep ==
  ASSUME SourceInv, UNCHANGED confVars, FileSet' = FileSet, DOMAIN size' = FileSet, GivenInv',
         pos' \in Nat \ {0}, line_no' \in Nat, state' \in {"line", "none", "error"},
         wrapped' \in BOOLEAN, intact' \in BOOLEAN
  PROVE  TypeOK'
<1>1. last'.index \in Nat /\ last'.line_no \in Nat
  BY DEF GivenInv, LastType
<1>2. /\ mode' \in {"replay", "synthetic"} /\ wrap' \in BOOLEAN /\ file' \in FileSet' /\ entry' \in Nat \ {0}
  BY DEF SourceInv, TypeOK, confVars, FileSet
<1>3. given' \in 0..Lines /\ tries' \in 0..Tries /\ (given' > 0 => last'.file \in FileSet' /\ last'.index > 0)
  BY DEF GivenInv
<1>4. QED
  BY <1>1, <1>2, <1>3, Zenon DEF TypeOK, FileSet

\* What the proofs of the steps need of the state before.
LEMMA Before ==
  ASSUME SourceInv
  PROVE  /\ mode \in {"replay", "synthetic"} /\ wrap \in BOOLEAN /\ file \in FileSet
         /\ pos \in Nat \ {0} /\ line_no \in Nat /\ given \in Nat /\ wrapped \in BOOLEAN
         /\ state \in {"line", "none", "error"} /\ intact \in BOOLEAN
         /\ reader \in Seq(Lengths) /\ Len(reader) \in Nat
         /\ entry \in Nat \ {0}
         /\ \A i \in FileSet : files[i] \in Seq(Lengths)
         /\ DOMAIN size = FileSet
<1>1. reader \in Seq(Lengths) /\ Len(reader) \in Nat
  BY DEF SourceInv, FilesInv
<1>2. entry \in Nat \ {0}
  BY DEF SourceInv, TypeOK
<1>3. /\ mode \in {"replay", "synthetic"} /\ wrap \in BOOLEAN /\ file \in FileSet
      /\ state \in {"line", "none", "error"} /\ intact \in BOOLEAN /\ wrapped \in BOOLEAN
      /\ pos \in Nat \ {0} /\ line_no \in Nat
  BY DEF SourceInv, TypeOK, FileSet
<1>4. given \in Nat
  BY SamplingAssumption DEF SourceInv, GivenInv
<1>5. /\ \A i \in FileSet : files[i] \in Seq(Lengths)
      /\ DOMAIN size = FileSet
  BY DEF SourceInv, FilesInv, SizesInv
<1>6. QED
  BY <1>1, <1>2, <1>3, <1>4, <1>5

LEMMA ReplayLineStep == SourceInv /\ ReplayLine => SourceInv'
<1> SUFFICES ASSUME SourceInv, ReplayLine PROVE SourceInv'
  OBVIOUS
<1> USE Before
<1>1. /\ mode = "replay" /\ state = "line" /\ pos =< Len(reader)
      /\ pos' = pos + 1 /\ line_no' = line_no + 1 /\ Give(file, pos, line_no')
      /\ UNCHANGED <<confVars, files, reader, tries, state, wrapped, intact>>
  BY DEF ReplayLine, Asked, AtEof
<1>2. FilesInv' /\ SizesInv' /\ FileSet' = FileSet
  BY <1>1, KeptFiles
<1>3. GivenInv' /\ last'.index = pos /\ last'.line_no = line_no + 1 /\ given' = given + 1 /\ given' > 0
  <2>1. Asked /\ tries' \in 0..Tries
    BY <1>1 DEF ReplayLine, SourceInv, GivenInv
  <2>2. Give(file, pos, line_no + 1)
    BY <1>1
  <2>3. QED
    BY <1>1, <2>1, <2>2, GivesOne
<1>4. TypeOK'
  BY <1>1, <1>2, <1>3, TypesStep DEF SizesInv
<1>5. entry' = entry /\ mode' = mode /\ wrap' = wrap /\ reader' = reader
  BY <1>1 DEF confVars
<1>6. ReplayInv'
  <2>1. given' = given + 1 /\ line_no' = line_no + 1 /\ pos' = pos + 1 /\ state' = "line" /\ wrapped' = wrapped
    BY <1>1, <1>3
  <2>2. pos' =< Len(reader') + 1
    BY <1>1, <1>5, <2>1
  <2>3. last'.index = pos' - 1 /\ last'.line_no = line_no'
    BY <1>3, <2>1
  <2>4. wrapped' => wrap' /\ line_no' = pos' - 1
    BY <1>1, <1>5, <2>1 DEF SourceInv, ReplayInv
  <2>5. ~wrapped' => pos' = entry' + given' /\ line_no' = given'
    BY <1>1, <1>5, <2>1 DEF SourceInv, ReplayInv
  <2>6. QED
    BY <2>1, <2>2, <2>3, <2>4, <2>5 DEF ReplayInv
<1>7. SyntheticNeverEnds'
  BY <1>1, <1>5 DEF SyntheticNeverEnds
<1>8. QED
  BY <1>2, <1>3, <1>4, <1>6, <1>7 DEF SourceInv

LEMMA ReplayWrapsStep == SourceInv /\ ReplayWraps => SourceInv'
<1> SUFFICES ASSUME SourceInv, ReplayWraps PROVE SourceInv'
  OBVIOUS
<1> USE Before
<1>1. /\ mode = "replay" /\ state = "line" /\ wrap /\ files[file] # <<>>
      /\ reader' = files[file] /\ pos' = 2 /\ line_no' = 1 /\ wrapped' = TRUE
      /\ Give(file, 1, line_no')
      /\ UNCHANGED <<confVars, files, tries, state, intact>>
  BY DEF ReplayWraps, Asked
<1>2. FilesInv' /\ SizesInv' /\ FileSet' = FileSet
  BY <1>1, KeptFiles
<1>3. GivenInv' /\ last'.index = 1 /\ last'.line_no = 1 /\ given' = given + 1 /\ given' > 0
  <2>1. Asked /\ tries' \in 0..Tries
    BY <1>1 DEF ReplayWraps, SourceInv, GivenInv
  <2>2. Give(file, 1, 1)
    BY <1>1
  <2>3. QED
    BY <1>1, <2>1, <2>2, GivesOne
<1>4. TypeOK'
  BY <1>1, <1>2, <1>3, TypesStep DEF SizesInv
<1>5. mode' = mode /\ wrap' = wrap
  BY <1>1 DEF confVars
<1>6. Len(reader') \in Nat /\ Len(reader') # 0
  <2>1. reader' \in Seq(Lengths) /\ reader' # <<>>
    BY <1>1
  <2>2. QED
    BY <2>1
<1>7. ReplayInv'
  BY <1>1, <1>3, <1>5, <1>6 DEF ReplayInv
<1>8. SyntheticNeverEnds'
  BY <1>1, <1>5 DEF SyntheticNeverEnds
<1>9. QED
  BY <1>2, <1>3, <1>4, <1>7, <1>8 DEF SourceInv

\* A call of next that gives nothing: at an end, after an error, or a draw in vain.
LEMMA SilentStep ==
  ASSUME SourceInv, UNCHANGED <<confVars, files, reader, pos, line_no, last, given, wrapped, intact>>,
         tries' \in 0..Tries, state' \in {"line", "none", "error"}
  PROVE  /\ TypeOK' /\ FilesInv' /\ SizesInv' /\ GivenInv' /\ FileSet' = FileSet
         /\ entry' = entry /\ AtEof' = AtEof /\ mode' = mode /\ wrap' = wrap
<1> USE Before
<1>1. FilesInv' /\ SizesInv' /\ FileSet' = FileSet
  BY KeptFiles
<1>2. GivenInv'
  BY <1>1 DEF SourceInv, GivenInv
<1>3. TypeOK'
  BY <1>1, <1>2, TypesStep DEF SizesInv
<1>4. entry' = entry /\ AtEof' = AtEof /\ mode' = mode /\ wrap' = wrap
  BY DEF AtEof, confVars
<1>5. QED
  BY <1>1, <1>2, <1>3, <1>4

LEMMA ReplayEndsStep == SourceInv /\ ReplayEnds => SourceInv'
<1> SUFFICES ASSUME SourceInv, ReplayEnds PROVE SourceInv'
  OBVIOUS
<1>1. /\ mode = "replay" /\ AtEof /\ (~wrap \/ files[file] = <<>>) /\ state' = "none"
      /\ UNCHANGED <<confVars, files, reader, pos, line_no, tries, last, given, wrapped, intact>>
  BY DEF ReplayEnds
<1>2. tries' \in 0..Tries
  BY <1>1 DEF SourceInv, GivenInv
<1>3. /\ TypeOK' /\ FilesInv' /\ SizesInv' /\ GivenInv'
      /\ entry' = entry /\ AtEof' = AtEof /\ mode' = mode /\ wrap' = wrap
  BY <1>1, <1>2, SilentStep
<1>4. file' = file
  BY <1>1 DEF confVars
<1>5. ReplayInv' /\ SyntheticNeverEnds'
  BY <1>1, <1>3, <1>4 DEF SourceInv, ReplayInv, SyntheticNeverEnds
<1>6. QED
  BY <1>3, <1>5 DEF SourceInv

LEMMA ReadFailsStep == SourceInv /\ ReadFails => SourceInv'
<1> SUFFICES ASSUME SourceInv, ReadFails PROVE SourceInv'
  OBVIOUS
<1>1. /\ state' = "error"
      /\ UNCHANGED <<confVars, files, reader, pos, line_no, tries, last, given, wrapped, intact>>
  BY DEF ReadFails
<1>2. tries' \in 0..Tries
  BY <1>1 DEF SourceInv, GivenInv
<1>3. /\ TypeOK' /\ FilesInv' /\ SizesInv' /\ GivenInv'
      /\ entry' = entry /\ AtEof' = AtEof /\ mode' = mode /\ wrap' = wrap
  BY <1>1, <1>2, SilentStep
<1>4. ReplayInv' /\ SyntheticNeverEnds'
  BY <1>1, <1>3 DEF SourceInv, ReplayInv, SyntheticNeverEnds
<1>5. QED
  BY <1>3, <1>4 DEF SourceInv

LEMMA SyntheticMissStep == SourceInv /\ SyntheticMiss => SourceInv'
<1> SUFFICES ASSUME SourceInv, SyntheticMiss PROVE SourceInv'
  OBVIOUS
<1>1. /\ mode = "synthetic" /\ state = "line" /\ tries < Tries /\ tries' = tries + 1
      /\ UNCHANGED <<confVars, files, reader, pos, line_no, state, last, given, wrapped, intact>>
  BY DEF SyntheticMiss, Asked
<1>2. tries' \in 0..Tries
  BY <1>1, SamplingAssumption DEF SourceInv, GivenInv
<1>3. /\ TypeOK' /\ FilesInv' /\ SizesInv' /\ GivenInv' /\ mode' = mode
  BY <1>1, <1>2, SilentStep
<1>4. ReplayInv' /\ SyntheticNeverEnds'
  BY <1>1, <1>3 DEF ReplayInv, SyntheticNeverEnds
<1>5. QED
  BY <1>3, <1>4 DEF SourceInv

LEMMA FallbackNoneStep == SourceInv /\ FallbackNone => SourceInv'
<1> SUFFICES ASSUME SourceInv, FallbackNone PROVE SourceInv'
  OBVIOUS
<1>1. /\ mode = "synthetic" /\ state' = "none"
      /\ UNCHANGED <<confVars, files, reader, pos, line_no, tries, last, given, wrapped, intact>>
      /\ \E i \in FileSet : ~Found(i, 1)
  BY DEF FallbackNone, ReadFrom, FileSet
<1>2. tries' \in 0..Tries
  BY <1>1 DEF SourceInv, GivenInv
<1>3. TypeOK' /\ FilesInv' /\ SizesInv' /\ GivenInv' /\ mode' = mode
  BY <1>1, <1>2, SilentStep
<1>4. ASSUME intact PROVE \A i \in FileSet : size[i] = 0
  <2>1. /\ \A i \in FileSet : files[i] \in Seq(Lengths) /\ size[i] = Bytes(files[i])
        /\ (\A i \in FileSet : files[i] # <<>>) \/ (\A i \in FileSet : files[i] = <<>>)
    BY <1>4, Before DEF SourceInv, SizesInv
  <2>2. \A i \in FileSet : size[i] \in Nat /\ (size[i] = 0 <=> files[i] = <<>>)
    BY <2>1, BytesOfLines
  <2>3. PICK i \in FileSet : ~(size[i] > 0 /\ 1 =< Len(files[i]))
    BY <1>1 DEF Found
  <2>4. files[i] \in Seq(Lengths) /\ (files[i] = <<>> \/ Len(files[i]) >= 1)
    BY <2>1
  <2>5. files[i] = <<>>
    BY <2>2, <2>3, <2>4
  <2>6. QED
    BY <2>1, <2>2, <2>5
<1>5. size' = size /\ intact' = intact /\ DOMAIN size = FileSet
  BY <1>1, Before DEF confVars
<1>6. SyntheticNeverEnds'
  BY <1>4, <1>5 DEF SyntheticNeverEnds
<1>7. ReplayInv'
  BY <1>1, <1>3 DEF ReplayInv
<1>8. QED
  BY <1>3, <1>6, <1>7 DEF SourceInv

\* A line found by a draw or by the fallback.
LEMMA SyntheticGivesStep ==
  ASSUME SourceInv, mode = "synthetic", Asked, NEW i \in FileSet, NEW offset,
         NEW index \in ReadFrom(i, offset), SyntheticGives(i, index)
  PROVE  SourceInv'
<1> USE Before
<1>1. /\ Give(i, index, 0) /\ tries' = 0 /\ state = "line"
      /\ UNCHANGED <<confVars, files, reader, pos, line_no, state, wrapped, intact>>
  BY DEF SyntheticGives, Asked
<1>2. FilesInv' /\ SizesInv' /\ FileSet' = FileSet
  BY <1>1, KeptFiles
<1>3. index \in Nat \ {0}
  <2>1. files[i] \in Seq(Lengths) /\ Len(files[i]) \in Nat
    OBVIOUS
  <2>2. index = 1 \/ index \in AfterSeek(files[i], offset)
    BY DEF ReadFrom
  <2>3. QED
    BY <2>1, <2>2, AfterSeekBound
<1>4. GivenInv'
  <2>1. tries' \in 0..Tries
    BY <1>1, SamplingAssumption
  <2>2. QED
    BY <1>1, <1>3, <2>1, GivesOne
<1>5. TypeOK'
  BY <1>1, <1>2, <1>4, TypesStep DEF SizesInv
<1>6. mode' = mode
  BY <1>1 DEF confVars
<1>7. ReplayInv' /\ SyntheticNeverEnds'
  BY <1>1, <1>6 DEF ReplayInv, SyntheticNeverEnds
<1>8. QED
  BY <1>2, <1>4, <1>5, <1>7 DEF SourceInv

\* Somebody else's rotation: the open reader keeps its file, and a file that
\* had no line has none after it.
LEMMA RotateStep == SourceInv /\ Rotate => SourceInv'
<1> SUFFICES ASSUME SourceInv, Rotate PROVE SourceInv'
  OBVIOUS
<1> USE Before
<1>0. PICK i \in FileSet :
        \E k \in 0..(Len(files[i]) - 1) : files' = [files EXCEPT ![i] = SubSeq(@, 1, k)]
  BY DEF Rotate, FileSet
<1>1. PICK k \in 0..(Len(files[i]) - 1) : files' = [files EXCEPT ![i] = SubSeq(@, 1, k)]
  BY <1>0
<1>2. intact' = FALSE /\ UNCHANGED <<confVars, reader, pos, line_no, tries, state, last, given, wrapped>>
  BY DEF Rotate
<1>3. SubSeq(files[i], 1, k) \in Seq(Lengths)
  <2>1. files[i] \in Seq(Lengths) /\ k \in 0..Len(files[i])
    <3>1. files[i] \in Seq(Lengths) /\ Len(files[i]) \in Nat
      OBVIOUS
    <3>2. QED
      BY <3>1
  <2>2. QED
    BY <2>1
<1>4. FilesInv' /\ FileSet' = FileSet
  <2>1. files \in [FileSet -> Seq(Lengths)]
    BY DEF SourceInv, FilesInv
  <2>2. files' \in [FileSet -> Seq(Lengths)] /\ FileSet' = FileSet
    BY <1>1, <1>3, <2>1 DEF FileSet
  <2>3. QED
    BY <1>2, <2>2 DEF SourceInv, FilesInv
<1>5. SizesInv'
  BY <1>2, <1>4 DEF SourceInv, SizesInv, confVars
<1>6. GivenInv'
  BY <1>2, <1>4 DEF SourceInv, GivenInv
<1>7. TypeOK'
  BY <1>2, <1>4, <1>5, <1>6, TypesStep DEF SizesInv
<1>8. /\ entry' = entry /\ AtEof' = AtEof
      /\ mode' = mode /\ wrap' = wrap /\ file' = file
  BY <1>2 DEF AtEof, confVars
<1>9. files[file] = <<>> => files'[file] = <<>>
  <2>1. i # file => files'[file] = files[file]
    BY <1>1
  <2>2. files[i] # <<>>
    BY <1>1
  <2>3. QED
    BY <2>1, <2>2
<1>10. ReplayInv'
  BY <1>2, <1>8, <1>9 DEF SourceInv, ReplayInv
<1>11. SyntheticNeverEnds'
  BY <1>2 DEF SyntheticNeverEnds
<1>12. QED
  BY <1>4, <1>5, <1>6, <1>7, <1>10, <1>11 DEF SourceInv

LEMMA SourceStep == SourceInv /\ [Next]_vars => SourceInv'
<1> SUFFICES ASSUME SourceInv, [Next]_vars PROVE SourceInv'
  OBVIOUS
<1>1. CASE ReplayLine
  BY <1>1, ReplayLineStep
<1>2. CASE ReplayWraps
  BY <1>2, ReplayWrapsStep
<1>3. CASE ReplayEnds
  BY <1>3, ReplayEndsStep
<1>4. CASE SyntheticLine
  <2>1. PICK i \in FileSet :
          \E offset \in Below(size[i] - 1) : \E index \in ReadFrom(i, offset) : SyntheticGives(i, index)
    BY <1>4 DEF SyntheticLine, FileSet
  <2>2. PICK offset \in Below(size[i] - 1) : \E index \in ReadFrom(i, offset) : SyntheticGives(i, index)
    BY <2>1
  <2>3. QED
    BY <1>4, <2>2, SyntheticGivesStep DEF SyntheticLine
<1>5. CASE SyntheticMiss
  BY <1>5, SyntheticMissStep
<1>6. CASE FallbackLine
  <2>1. PICK i \in FileSet : \E index \in ReadFrom(i, 0) : SyntheticGives(i, index)
    BY <1>6 DEF FallbackLine, FileSet
  <2>2. QED
    BY <1>6, <2>1, SyntheticGivesStep DEF FallbackLine
<1>7. CASE FallbackNone
  BY <1>7, FallbackNoneStep
<1>8. CASE ReadFails
  BY <1>8, ReadFailsStep
<1>9. CASE Rotate
  BY <1>9, RotateStep
<1>10. CASE UNCHANGED vars
  <2>1. UNCHANGED <<confVars, files, reader, pos, line_no, tries, state, last, given, wrapped, intact>>
    BY <1>10 DEF vars, confVars
  <2>2. tries' \in 0..Tries /\ state' \in {"line", "none", "error"}
    BY <2>1, Before DEF SourceInv, GivenInv
  <2>3. /\ TypeOK' /\ FilesInv' /\ SizesInv' /\ GivenInv' /\ file' = file
        /\ entry' = entry /\ AtEof' = AtEof /\ mode' = mode /\ wrap' = wrap
    BY <2>1, <2>2, SilentStep DEF confVars
  <2>4. size' = size
    BY <2>1 DEF confVars
  <2>5. ReplayInv' /\ SyntheticNeverEnds'
    BY <2>1, <2>3, <2>4 DEF SourceInv, ReplayInv, SyntheticNeverEnds
  <2>6. QED
    BY <2>3, <2>5 DEF SourceInv
<1>11. QED
  BY <1>1, <1>2, <1>3, <1>4, <1>5, <1>6, <1>7, <1>8, <1>9, <1>10 DEF Next, Finished

LEMMA SourceAlways == Spec => []SourceInv
BY SourceInit, SourceStep, PTL DEF Spec

\* Every state of a source is one of those it may be in (TypeOK): in
\* particular no call of next draws more than Tries times, and every event
\* has a file and a line.
THEOREM SamplingTypeCorrect == Spec => []TypeOK
<1>1. SourceInv => TypeOK
  BY DEF SourceInv
<1>2. QED
  BY <1>1, SourceAlways, PTL

\* A looping replay says it is exhausted only of a file with no line; a
\* synthetic run, whatever its draws, only of files that had no byte.
THEOREM NeverRunsDryAlways == Spec => []NeverRunsDry
<1>1. SourceInv => NeverRunsDry
  BY DEF SourceInv, ReplayInv, NeverRunsDry, LoopNeverEnds
<1>2. QED
  BY <1>1, SourceAlways, PTL

\* A replay from any offset with --no-loop gives each line from there on, once,
\* and numbers them from there; a looping one numbers a line by its place in
\* the file after the first wrap.
THEOREM EntryAccountedAlways == Spec => []EntryAccounted
<1>1. SourceInv => EntryAccounted
  <2> SUFFICES ASSUME SourceInv, mode = "replay"
               PROVE  /\ ~wrap /\ state = "none" => given = Len(reader) + 1 - entry
                      /\ given > 0 => last.line_no = IF wrapped THEN last.index ELSE last.index + 1 - entry
    BY DEF EntryAccounted, NoLoopGivesTheRest, LineNoCounts
  <2>1. /\ pos \in Nat /\ Len(reader) \in Nat /\ given \in Nat /\ line_no \in Nat
        /\ entry \in Nat /\ wrapped \in BOOLEAN
    BY Before
  <2>2. ASSUME ~wrap, state = "none" PROVE given = Len(reader) + 1 - entry
    <3>1. ~wrapped /\ pos = Len(reader) + 1
      BY <2>1, <2>2 DEF SourceInv, ReplayInv, AtEof
    <3>2. QED
      BY <2>1, <3>1 DEF SourceInv, ReplayInv
  <2>3. ASSUME given > 0
        PROVE  last.line_no = IF wrapped THEN last.index ELSE last.index + 1 - entry
    BY <2>1, <2>3 DEF SourceInv, ReplayInv
  <2>4. QED
    BY <2>2, <2>3
<1>2. QED
  BY <1>1, SourceAlways, PTL

\* Replay gives a file's lines in their order, and goes back to the first only
\* from the last.
THEOREM InFileOrderAlways == Spec => InFileOrder
<1> DEFINE Follows ==
      mode = "replay" /\ given > 0 /\ given' > given =>
        \/ last'.index = last.index + 1
        \/ wrap /\ last'.index = 1 /\ last.index = Len(reader)
<1>1. SourceInv /\ [Next]_vars => [Follows]_vars
  <2> SUFFICES ASSUME SourceInv, Next, mode = "replay", given > 0, given' > given
               PROVE  \/ last'.index = last.index + 1
                      \/ wrap /\ last'.index = 1 /\ last.index = Len(reader)
    OBVIOUS
  <2>1. given \in Nat /\ pos \in Nat /\ Len(reader) \in Nat /\ ~(given > given)
    BY Before
  <2>2. last.index = pos - 1 /\ pos =< Len(reader) + 1
    BY DEF SourceInv, ReplayInv
  <2>3. CASE ReplayLine
    BY <2>1, <2>2, <2>3 DEF ReplayLine, Give
  <2>4. CASE ReplayWraps
    BY <2>1, <2>2, <2>4 DEF ReplayWraps, AtEof, Give
  <2>5. given' # given
    BY <2>1
  <2>6. QED
    BY <2>3, <2>4, <2>5 DEF Next, ReplayEnds, SyntheticLine, SyntheticMiss, FallbackLine, FallbackNone,
      ReadFails, Rotate, Finished, vars
<1>2. QED
  BY <1>1, SourceAlways, PTL DEF Spec, InFileOrder
===============================================================================
