------------------------------ MODULE CorpusProofs ------------------------------
(***************************************************************************)
(* Lemmas about Corpus, for every tree of files and any depth: the order   *)
(* of paths is a total one, the sort is a sort, and the walk meets every   *)
(* file that it should, and none twice, whatever others change meanwhile.  *)
(***************************************************************************)
EXTENDS Corpus, FiniteSetTheorems, SequenceTheorems, WellFoundedInduction, TLAPS

Names == STRING \cup Nat
Paths == {p \in Seq(Names) : Len(p) >= 1 /\ \A i \in 2..Len(p) : p[i] \in Nat}

LEMMA PathOf ==
  ASSUME NEW p, IsPath(p)
  PROVE  p \in Paths
<1>1. <<p[1]>> \in Seq(Names) /\ Tail(p) \in Seq(Names) /\ Len(<<p[1]>>) = 1
  <2>1. p[1] \in Names
    BY DEF IsPath, Names
  <2>2. Tail(p) \in Seq(Names)
    BY SeqMonotonic DEF IsPath, Names
  <2>3. QED
    BY <2>1, <2>2
<1>2. /\ <<p[1]>> \o Tail(p) \in Seq(Names)
      /\ Len(<<p[1]>> \o Tail(p)) = 1 + Len(Tail(p)) /\ Len(Tail(p)) \in Nat
      /\ \A i \in 2..(1 + Len(Tail(p))) : (<<p[1]>> \o Tail(p))[i] = Tail(p)[i - 1]
  BY <1>1, ConcatProperties
<1>3. p = <<p[1]>> \o Tail(p) /\ Tail(p) \in Seq(Nat)
  BY DEF IsPath
<1>4. \A i \in 2..Len(p) : p[i] \in Nat
  BY <1>2, <1>3
<1>5. QED
  BY <1>2, <1>3, <1>4 DEF Paths
-------------------------------------------------------------------------------
(* The order of paths. *)

\* A set of numbers up to n that is not empty has a greatest one.
LEMMA GreatestOf ==
  ASSUME NEW n \in Nat, NEW S \in SUBSET (0..n), S # {}
  PROVE  \E m \in S : \A k \in S : k =< m
<1> DEFINE R == OpToRel(<, Nat)
<1> DEFINE T == {n - i : i \in S}
<1>1. IsWellFoundedOn(R, Nat)
  BY NatLessThanWellFounded
<1>2. \A x, y \in Nat : <<x, y>> \in R <=> x < y
  BY DEF OpToRel
<1>3. T \subseteq Nat /\ T # {}
  <2>1. PICK i \in S : n - i \in T
    OBVIOUS
  <2>2. QED
    BY <2>1
<1> HIDE DEF R
<1>4. PICK t \in T : \A y \in T : ~(<<y, t>> \in R)
  BY <1>1, <1>3, WFMin
<1>5. PICK m \in S : t = n - m
  OBVIOUS
<1>6. ASSUME NEW k \in S PROVE k =< m
  <2>1. n - k \in T /\ n - k \in Nat /\ t \in Nat
    BY <1>3
  <2>2. ~(n - k < t)
    BY <1>2, <1>4, <2>1
  <2>3. k \in Int /\ m \in Int
    OBVIOUS
  <2>4. QED
    BY <1>5, <2>2, <2>3
<1>7. QED
  BY <1>6

\* Paths are equal if their names are.
LEMMA SamePath ==
  ASSUME NEW p \in Paths, NEW q \in Paths, Len(p) = Len(q), \A i \in 1..Len(p) : p[i] = q[i]
  PROVE  p = q
BY SeqEqual DEF Paths

LEMMA UnderIs ==
  ASSUME NEW p \in Paths, NEW d \in Paths
  PROVE  Under(p, d) <=> Len(p) >= Len(d) /\ \A i \in 1..Len(d) : p[i] = d[i]
<1>1. p \in Seq(Names) /\ d \in Seq(Names) /\ Len(p) \in Nat /\ Len(d) \in Nat
  BY DEF Paths
<1>2. CASE Len(p) >= Len(d)
  <2>1. \A i \in 1..Len(d) : p[i] \in Names
    BY <1>1, <1>2
  <2>2. /\ SubSeq(p, 1, Len(d)) \in Seq(Names) /\ Len(SubSeq(p, 1, Len(d))) = Len(d)
        /\ \A i \in 1..Len(d) : SubSeq(p, 1, Len(d))[i] = p[i]
    BY <1>1, <2>1, SubSeqProperties
  <2>3. SubSeq(p, 1, Len(d)) = d <=> \A i \in 1..Len(d) : SubSeq(p, 1, Len(d))[i] = d[i]
    BY <1>1, <2>2, SeqEqual
  <2>4. QED
    BY <1>2, <2>2, <2>3 DEF Under
<1>3. CASE ~(Len(p) >= Len(d))
  BY <1>3 DEF Under
<1>4. QED
  BY <1>2, <1>3

\* How many names two paths have in common before the first that differs, and
\* what comes then.
Common(p, q, n) == n \in 1..Len(p) /\ n =< Len(q) /\ \A j \in 1..n : p[j] = q[j]
Splits(p, q, n) ==
  Common(p, q, n) /\ n < Len(q) /\ (n = Len(p) \/ (n < Len(p) /\ p[n + 1] < q[n + 1]))

LEMMA BeforeIs ==
  ASSUME NEW p \in Paths, NEW q \in Paths, p[1] = q[1]
  PROVE  Before(p, q) <=> \E n \in Nat : Splits(p, q, n)
<1>1. Len(p) \in Nat /\ Len(q) \in Nat /\ Len(p) >= 1 /\ Len(q) >= 1
  BY DEF Paths
<1>2. Len(p) < Len(q) /\ Under(q, p) <=> Splits(p, q, Len(p))
  BY <1>1, UnderIs DEF Splits, Common
<1>3. ASSUME NEW i \in 2..Len(p), i =< Len(q), p[i] < q[i], \A j \in 2..(i - 1) : p[j] = q[j]
      PROVE  Splits(p, q, i - 1)
  <2>1. \A j \in 1..(i - 1) : p[j] = q[j]
    BY <1>3
  <2>2. QED
    BY <1>1, <1>3, <2>1 DEF Splits, Common
<1>4. ASSUME NEW n \in Nat, Splits(p, q, n), n # Len(p)
      PROVE  \E i \in 2..Len(p) : i =< Len(q) /\ p[i] < q[i] /\ \A j \in 2..(i - 1) : p[j] = q[j]
  <2>1. n + 1 \in 2..Len(p) /\ n + 1 =< Len(q) /\ p[n + 1] < q[n + 1] /\ \A j \in 2..((n + 1) - 1) : p[j] = q[j]
    BY <1>1, <1>4 DEF Splits, Common
  <2>2. QED
    BY <2>1
<1>5. ASSUME NEW n \in Nat, Splits(p, q, n) PROVE Before(p, q)
  BY <1>2, <1>4, <1>5 DEF Before
<1>6. ASSUME Before(p, q) PROVE \E n \in Nat : Splits(p, q, n)
  <2>1. CASE Len(p) < Len(q) /\ Under(q, p)
    BY <1>1, <1>2, <2>1
  <2>2. CASE \E i \in 2..Len(p) : i =< Len(q) /\ p[i] < q[i] /\ \A j \in 2..(i - 1) : p[j] = q[j]
    <3>1. PICK i \in 2..Len(p) : i =< Len(q) /\ p[i] < q[i] /\ \A j \in 2..(i - 1) : p[j] = q[j]
      BY <2>2
    <3>2. Splits(p, q, i - 1)
      BY <1>3, <3>1
    <3>3. QED
      BY <3>2
  <2>3. QED
    BY <1>6, <2>1, <2>2 DEF Before
<1>7. QED
  BY <1>5, <1>6

LEMMA BeforeIrreflexive ==
  ASSUME NEW p \in Paths
  PROVE  ~Before(p, p)
<1>1. \A n \in Nat : ~Splits(p, p, n)
  <2> SUFFICES ASSUME NEW n \in Nat, Splits(p, p, n) PROVE FALSE
    OBVIOUS
  <2>1. n + 1 \in 2..Len(p) /\ p[n + 1] < p[n + 1]
    BY DEF Splits, Common, Paths
  <2>2. p[n + 1] \in Nat
    BY <2>1 DEF Paths
  <2>3. QED
    BY <2>1, <2>2
<1>2. QED
  BY <1>1, BeforeIs

LEMMA BeforeTransitive ==
  ASSUME NEW p \in Paths, NEW q \in Paths, NEW r \in Paths, p[1] = q[1], q[1] = r[1],
         Before(p, q), Before(q, r)
  PROVE  Before(p, r)
<1>1. PICK m \in Nat : Splits(p, q, m)
  BY BeforeIs
<1>2. PICK n \in Nat : Splits(q, r, n)
  BY BeforeIs
<1>3. /\ Len(p) \in Nat /\ Len(q) \in Nat /\ Len(r) \in Nat
      /\ \A i \in 2..Len(p) : p[i] \in Nat
      /\ \A i \in 2..Len(q) : q[i] \in Nat
      /\ \A i \in 2..Len(r) : r[i] \in Nat
  BY DEF Paths
<1>4. CASE m < n
  <2>1. Splits(p, r, m)
    BY <1>1, <1>2, <1>3, <1>4 DEF Splits, Common
  <2>2. QED
    BY <2>1, BeforeIs
<1>5. CASE m = n
  <2>1. Common(p, r, m) /\ m < Len(r)
    BY <1>1, <1>2, <1>3, <1>5 DEF Splits, Common
  <2>2. q[m + 1] < r[m + 1] /\ q[m + 1] \in Nat /\ r[m + 1] \in Nat
    BY <1>1, <1>2, <1>3, <1>5 DEF Splits, Common
  <2>3. m = Len(p) \/ (m < Len(p) /\ p[m + 1] < q[m + 1] /\ p[m + 1] \in Nat)
    BY <1>1, <1>3 DEF Splits, Common
  <2>4. Splits(p, r, m)
    BY <2>1, <2>2, <2>3 DEF Splits
  <2>5. QED
    BY <2>4, BeforeIs
<1>6. CASE n < m
  <2>1. Splits(p, r, n)
    BY <1>1, <1>2, <1>3, <1>6 DEF Splits, Common
  <2>2. QED
    BY <2>1, BeforeIs
<1>7. QED
  BY <1>4, <1>5, <1>6

\* Of two paths below the same directory one comes before the other.
LEMMA BeforeTotal ==
  ASSUME NEW p \in Paths, NEW q \in Paths, p[1] = q[1], p # q
  PROVE  Before(p, q) \/ Before(q, p)
<1>1. /\ Len(p) \in Nat /\ Len(q) \in Nat /\ Len(p) >= 1 /\ Len(q) >= 1
      /\ \A i \in 2..Len(p) : p[i] \in Nat
      /\ \A i \in 2..Len(q) : q[i] \in Nat
  BY DEF Paths
<1> DEFINE S == {n \in 0..Len(p) : Common(p, q, n)}
<1>2. 1 \in S
  BY <1>1 DEF Common
<1>3. PICK n \in S : \A k \in S : k =< n
  BY <1>1, <1>2, GreatestOf
<1>4. Common(p, q, n) /\ n \in Nat /\ n >= 1 /\ n =< Len(p) /\ n =< Len(q)
  BY <1>1 DEF Common
<1>5. ASSUME n < Len(p), n < Len(q) PROVE p[n + 1] # q[n + 1]
  <2>1. SUFFICES ASSUME p[n + 1] = q[n + 1] PROVE FALSE
    OBVIOUS
  <2>2. \A j \in 1..(n + 1) : p[j] = q[j]
    BY <1>4, <2>1 DEF Common
  <2>3. n + 1 \in S
    BY <1>1, <1>4, <1>5, <2>2 DEF Common
  <2>4. QED
    BY <1>3, <1>4, <2>3
<1> HIDE DEF S
<1>6. CASE n = Len(p) /\ n = Len(q)
  BY <1>4, <1>6, SamePath DEF Common
<1>7. CASE n = Len(p) /\ n < Len(q)
  <2>1. Splits(p, q, n)
    BY <1>4, <1>7 DEF Splits
  <2>2. QED
    BY <1>4, <2>1, BeforeIs
<1>8. CASE n < Len(p) /\ n = Len(q)
  <2>1. Common(q, p, n)
    BY <1>4, <1>8 DEF Common
  <2>2. Splits(q, p, n)
    BY <1>8, <2>1 DEF Splits
  <2>3. QED
    BY <1>4, <2>2, BeforeIs
<1>9. CASE n < Len(p) /\ n < Len(q)
  <2>1. p[n + 1] \in Nat /\ q[n + 1] \in Nat
    BY <1>1, <1>4, <1>9
  <2>2. Common(q, p, n)
    BY <1>1, <1>4, <1>9 DEF Common
  <2>3. Splits(p, q, n) \/ Splits(q, p, n)
    BY <1>4, <1>5, <1>9, <2>1, <2>2 DEF Splits
  <2>4. QED
    BY <1>4, <2>3, BeforeIs
<1>10. QED
  BY <1>1, <1>4, <1>6, <1>7, <1>8, <1>9
-------------------------------------------------------------------------------
(* The sort. *)

Members(s) == {s[i] : i \in DOMAIN s}
Ordered(s) == \A i, j \in DOMAIN s : i < j => Before(s[i], s[j])

\* Files that differ, below the same directory, are sorted: the same files, in order.
LEMMA SortedOrders ==
  ASSUME NEW files \in Seq(Paths), IsInjective(files),
         \A i, j \in DOMAIN files : files[i][1] = files[j][1]
  PROVE  /\ Sorted(files) \in Seq(Paths) /\ Members(Sorted(files)) = Members(files)
         /\ Ordered(Sorted(files)) /\ Len(Sorted(files)) = Len(files)
<1> DEFINE n == Len(files)
           Less(k) == {m \in 1..n : Before(files[m], files[k])}
           rank == [k \in 1..n |-> Cardinality(Less(k))]
<1>1. n \in Nat /\ DOMAIN files = 1..n /\ \A k \in 1..n : files[k] \in Paths
  OBVIOUS
<1>2. IsFiniteSet(1..n) /\ Cardinality(1..n) = n
  BY <1>1, FS_Interval
<1>3. ASSUME NEW k \in 1..n PROVE IsFiniteSet(Less(k)) /\ rank[k] \in 0..(n - 1)
  <2>1. k \notin Less(k)
    BY <1>1, BeforeIrreflexive
  <2>2. Less(k) \in SUBSET (1..n)
    OBVIOUS
  <2>3. /\ IsFiniteSet(Less(k)) /\ Cardinality(Less(k)) =< n
        /\ (n = Cardinality(Less(k)) => 1..n = Less(k))
    BY <1>2, <2>2, FS_Subset
  <2>4. Cardinality(Less(k)) \in Nat
    BY <2>3, FS_CardinalityType
  <2> HIDE DEF Less
  <2>5. Cardinality(Less(k)) # n
    BY <2>1, <2>3
  <2>6. QED
    BY <1>1, <2>3, <2>4, <2>5
<1>4. ASSUME NEW a \in 1..n, NEW b \in 1..n, Before(files[a], files[b])
      PROVE  rank[a] < rank[b]
  <2>1. Less(a) \in SUBSET Less(b)
    BY <1>1, <1>4, BeforeTransitive
  <2>2. a \in Less(b) /\ a \notin Less(a)
    BY <1>1, <1>4, BeforeIrreflexive
  <2>3. IsFiniteSet(Less(b)) /\ rank[a] \in 0..(n - 1) /\ rank[b] \in 0..(n - 1)
    BY <1>3
  <2>4. rank[a] = Cardinality(Less(a)) /\ rank[b] = Cardinality(Less(b))
    OBVIOUS
  <2> HIDE DEF Less, rank
  <2>5. Cardinality(Less(a)) =< Cardinality(Less(b)) /\ Cardinality(Less(b)) # Cardinality(Less(a))
    BY <2>1, <2>2, <2>3, FS_Subset
  <2>6. QED
    BY <2>3, <2>4, <2>5
<1>5. /\ rank = [k \in 1..n |-> rank[k]]
      /\ \A k \in 1..n : rank[k] = Cardinality({m \in 1..n : Before(files[m], files[k])})
  OBVIOUS
<1> HIDE DEF Less, rank
<1>6. ASSUME NEW a \in 1..n, NEW b \in 1..n, rank[a] =< rank[b], a # b
      PROVE  Before(files[a], files[b])
  <2>1. files[a] # files[b]
    BY <1>1, <1>6 DEF IsInjective
  <2>2. rank[a] \in Int /\ rank[b] \in Int
    BY <1>3
  <2>3. ~Before(files[b], files[a])
    BY <1>4, <1>6, <2>2
  <2>4. QED
    BY <1>1, <2>1, <2>3, BeforeTotal
<1>7. \A i \in 1..n : \E k \in 1..n : rank[k] = i - 1
  <2>1. rank \in [1..n -> 0..(n - 1)]
    BY <1>3, <1>5
  <2>2. IsInjective(rank)
    <3> SUFFICES ASSUME NEW a \in 1..n, NEW b \in 1..n, rank[a] = rank[b], a # b PROVE FALSE
      BY <2>1 DEF IsInjective
    <3>1. rank[a] \in Int /\ rank[b] \in Int
      BY <1>3
    <3>2. Before(files[a], files[b])
      BY <1>6, <3>1
    <3>3. rank[a] < rank[b]
      BY <1>4, <3>2
    <3>4. QED
      BY <3>1, <3>3
  <2>3. IsFiniteSet(0..(n - 1)) /\ Cardinality(0..(n - 1)) = n
    BY <1>1, FS_Interval
  <2>4. rank \in Injection(1..n, 0..(n - 1))
    BY <2>1, <2>2 DEF Injection
  <2>5. rank \in Surjection(1..n, 0..(n - 1))
    BY <1>2, <2>3, <2>4, FS_Injection
  <2>6. \A i \in 0..(n - 1) : \E k \in 1..n : rank[k] = i
    BY <2>5 DEF Surjection
  <2>7. QED
    BY <1>1, <2>6
<1> DEFINE sorted == Sorted(files)
<1>8. DOMAIN sorted = 1..n
  BY <1>1 DEF Sorted
<1>9. ASSUME NEW i \in 1..n
      PROVE  \E k \in 1..n : rank[k] = i - 1 /\ sorted[i] = files[k]
  <2> DEFINE Ranks(f) == Cardinality({m \in DOMAIN files : Before(files[m], f)}) = i - 1
  <2>1. sorted[i] = CHOOSE f \in Members(files) : Ranks(f)
    BY <1>1 DEF Sorted, Members
  <2>2. \A k \in 1..n : Ranks(files[k]) <=> rank[k] = i - 1
    BY <1>1, <1>5
  <2>3. \E f \in Members(files) : Ranks(f)
    BY <1>1, <1>7, <2>2 DEF Members
  <2> HIDE DEF Ranks, sorted
  <2>4. sorted[i] \in Members(files) /\ Ranks(sorted[i])
    BY <2>1, <2>3
  <2>5. QED
    BY <1>1, <2>2, <2>4 DEF Members
<1>10. sorted \in Seq(Paths) /\ Len(sorted) = n
  <2>1. \A i \in 1..n : sorted[i] \in Paths
    BY <1>1, <1>9
  <2>2. sorted = [i \in 1..n |-> sorted[i]]
    <3> DEFINE Body(i) == CHOOSE f \in {files[k] : k \in DOMAIN files} :
                             Cardinality({k \in DOMAIN files : Before(files[k], f)}) = i - 1
    <3>1. sorted = [i \in DOMAIN files |-> Body(i)]
      BY DEF Sorted
    <3> HIDE DEF Body, sorted
    <3>2. QED
      BY <1>1, <3>1
  <2> HIDE DEF sorted
  <2>3. QED
    BY <1>1, <1>8, <2>1, <2>2
<1>11. Ordered(sorted)
  <2> SUFFICES ASSUME NEW i \in 1..n, NEW j \in 1..n, i < j PROVE Before(sorted[i], sorted[j])
    BY <1>8 DEF Ordered
  <2>1. PICK a \in 1..n : rank[a] = i - 1 /\ sorted[i] = files[a]
    BY <1>9
  <2>2. PICK b \in 1..n : rank[b] = j - 1 /\ sorted[j] = files[b]
    BY <1>9
  <2> HIDE DEF sorted
  <2>3. Before(files[a], files[b])
    BY <1>1, <1>6, <2>1, <2>2
  <2>4. QED
    BY <2>1, <2>2, <2>3
<1>12. Members(sorted) = Members(files)
  <2>1. ASSUME NEW k \in 1..n PROVE \E i \in 1..n : sorted[i] = files[k]
    <3>1. rank[k] + 1 \in 1..n
      BY <1>1, <1>3
    <3>2. PICK a \in 1..n : rank[a] = (rank[k] + 1) - 1 /\ sorted[rank[k] + 1] = files[a]
      BY <1>9, <3>1
    <3>3. rank[a] = rank[k] /\ rank[a] \in Int
      BY <1>3, <3>2
    <3>4. a = k
      <4>1. SUFFICES ASSUME a # k PROVE FALSE
        OBVIOUS
      <4>2. Before(files[a], files[k])
        BY <1>6, <3>3, <4>1
      <4>3. QED
        BY <1>4, <3>3, <4>2
    <3>5. QED
      BY <3>1, <3>2, <3>4
  <2> HIDE DEF sorted
  <2>2. \A i \in 1..n : \E k \in 1..n : sorted[i] = files[k]
    BY <1>9
  <2>3. Members(sorted) = {sorted[i] : i \in 1..n} /\ Members(files) = {files[k] : k \in 1..n}
    BY <1>1, <1>8 DEF Members
  <2>4. ASSUME NEW x \in Members(sorted) PROVE x \in Members(files)
    <3>1. PICK i \in 1..n : x = sorted[i]
      BY <2>3
    <3>2. PICK k \in 1..n : sorted[i] = files[k]
      BY <2>2
    <3>3. QED
      BY <2>3, <3>1, <3>2
  <2>5. ASSUME NEW x \in Members(files) PROVE x \in Members(sorted)
    <3>1. PICK k \in 1..n : x = files[k]
      BY <2>3
    <3>2. PICK i \in 1..n : sorted[i] = files[k]
      BY <2>1
    <3>3. QED
      BY <2>3, <3>1, <3>2
  <2>6. QED
    BY <2>4, <2>5
<1>13. QED
  BY <1>10, <1>11, <1>12
-------------------------------------------------------------------------------
(* Sequences and their members. *)

LEMMA EmptySeqs == \A S : <<>> \in Seq(S)
  OBVIOUS

LEMMA AppendMembers ==
  ASSUME NEW S, NEW s \in Seq(S), NEW x \in S
  PROVE  /\ Append(s, x) \in Seq(S) /\ Members(Append(s, x)) = Members(s) \cup {x}
         /\ IsInjective(s) /\ x \notin Members(s) => IsInjective(Append(s, x))
<1>1. /\ Append(s, x) \in Seq(S) /\ Len(Append(s, x)) = Len(s) + 1 /\ Len(s) \in Nat
      /\ \A i \in 1..Len(s) : Append(s, x)[i] = s[i]
      /\ Append(s, x)[Len(s) + 1] = x
      /\ DOMAIN s = 1..Len(s) /\ DOMAIN Append(s, x) = 1..(Len(s) + 1)
  OBVIOUS
<1> DEFINE t == Append(s, x)
<1> HIDE DEF t
<1>2. /\ DOMAIN t = 1..(Len(s) + 1) /\ t[Len(s) + 1] = x
      /\ \A i \in 1..Len(s) : t[i] = s[i]
  BY <1>1 DEF t
<1>3. ASSUME NEW y \in Members(t) PROVE y \in Members(s) \cup {x}
  <2>1. PICK i \in 1..(Len(s) + 1) : y = t[i]
    BY <1>2 DEF Members
  <2>2. i \in 1..Len(s) \/ i = Len(s) + 1
    BY <1>1
  <2>3. QED
    BY <1>1, <1>2, <2>1, <2>2 DEF Members
<1>4. ASSUME NEW y \in Members(s) \cup {x} PROVE y \in Members(t)
  <2>1. CASE y = x
    BY <1>1, <1>2, <2>1 DEF Members
  <2>2. CASE y \in Members(s)
    <3>1. PICK i \in 1..Len(s) : y = s[i]
      BY <1>1, <2>2 DEF Members
    <3>2. i \in 1..(Len(s) + 1) /\ t[i] = y
      BY <1>1, <1>2, <3>1
    <3>3. QED
      BY <1>2, <3>2 DEF Members
  <2>3. QED
    BY <1>4, <2>1, <2>2
<1>5. ASSUME IsInjective(s), x \notin Members(s), NEW i \in DOMAIN t, NEW j \in DOMAIN t, t[i] = t[j]
      PROVE  i = j
  <2>1. \A k \in 1..Len(s) : t[k] # x
    BY <1>1, <1>2, <1>5 DEF Members
  <2>2. \A k \in DOMAIN t : k \in 1..Len(s) \/ k = Len(s) + 1
    BY <1>1, <1>2
  <2>3. CASE i \in 1..Len(s) /\ j \in 1..Len(s)
    BY <1>1, <1>2, <1>5, <2>3 DEF IsInjective
  <2>4. QED
    BY <1>2, <1>5, <2>1, <2>2, <2>3
<1>6. QED
  BY <1>1, <1>3, <1>4, <1>5 DEF t, IsInjective

\* A stack without its top.
LEMMA TopTaken ==
  ASSUME NEW S, NEW s \in Seq(S), s # <<>>
  PROVE  LET rest == SubSeq(s, 1, Len(s) - 1)
         IN  /\ rest \in Seq(S) /\ s[Len(s)] \in S /\ Members(s) = Members(rest) \cup {s[Len(s)]}
             /\ IsInjective(s) => IsInjective(rest) /\ s[Len(s)] \notin Members(rest)
<1> DEFINE n == Len(s)
           rest == SubSeq(s, 1, n - 1)
<1>1. n \in Nat /\ n >= 1 /\ DOMAIN s = 1..n /\ \A i \in 1..n : s[i] \in S
  OBVIOUS
<1>2. rest \in Seq(S) /\ Len(rest) = n - 1 /\ DOMAIN rest = 1..(n - 1) /\ \A i \in 1..(n - 1) : rest[i] = s[i]
  <2>1. \A i \in 1..(n - 1) : s[i] \in S
    BY <1>1
  <2>2. rest \in Seq(S) /\ Len(rest) = n - 1 /\ \A i \in 1..(n - 1) : rest[i] = s[i]
    BY <1>1, <2>1, SubSeqProperties
  <2>3. QED
    BY <2>2
<1> HIDE DEF rest, n
<1>3. \A i \in 1..n : i \in 1..(n - 1) \/ i = n
  BY <1>1
<1>4. \A i \in 1..(n - 1) : i \in 1..n /\ i # n
  BY <1>1
<1>5. n \in 1..n
  BY <1>1
<1>6. ASSUME NEW y \in Members(s) PROVE y \in Members(rest) \cup {s[n]}
  <2>1. PICK i \in 1..n : y = s[i]
    BY <1>1 DEF Members
  <2>2. QED
    BY <1>2, <1>3, <2>1 DEF Members
<1>7. ASSUME NEW y \in Members(rest) \cup {s[n]} PROVE y \in Members(s)
  BY <1>1, <1>2, <1>4, <1>5 DEF Members
<1>8. ASSUME IsInjective(s) PROVE IsInjective(rest) /\ s[n] \notin Members(rest)
  BY <1>1, <1>2, <1>4, <1>5, <1>8 DEF Members, IsInjective
<1>9. QED
  BY <1>1, <1>2, <1>5, <1>6, <1>7, <1>8 DEF rest, n
-------------------------------------------------------------------------------
(* Paths that do not lie below each other. *)

LEMMA UnderTransitive ==
  ASSUME NEW p \in Paths, NEW q \in Paths, NEW r \in Paths, Under(p, q), Under(q, r)
  PROVE  Under(p, r)
<1>1. Len(p) \in Nat /\ Len(q) \in Nat /\ Len(r) \in Nat
  BY DEF Paths
<1>2. QED
  BY <1>1, UnderIs

LEMMA UnderItself == \A p \in Paths : Under(p, p)
<1>1. \A p \in Paths : Len(p) \in Nat
  BY DEF Paths
<1>2. QED
  BY <1>1, UnderIs

Apart(A) == \A p, q \in A : Under(p, q) => p = q

\* A directory may be replaced by what is in it.
LEMMA ChildrenApart ==
  ASSUME NEW A \in SUBSET Paths, Apart(A), NEW d \in A,
         NEW C \in SUBSET Paths, \A c \in C : Len(c) = Len(d) + 1 /\ Under(c, d)
  PROVE  Apart((A \ {d}) \cup C) /\ C \cap A = {}
<1>1. \A p \in Paths : Len(p) \in Nat
  BY DEF Paths
<1>2. C \cap A = {}
  BY <1>1 DEF Apart
<1>3. ASSUME NEW p \in C, NEW q \in C, Under(p, q) PROVE p = q
  <2>1. Len(p) = Len(q) /\ \A i \in 1..Len(q) : p[i] = q[i]
    BY <1>3, UnderIs
  <2>2. QED
    BY <2>1, SamePath
<1>4. ASSUME NEW p \in C, NEW q \in A \ {d}, Under(p, q) PROVE FALSE
  <2>1. /\ Len(p) >= Len(q) /\ \A i \in 1..Len(q) : p[i] = q[i]
        /\ Len(p) = Len(d) + 1 /\ \A i \in 1..Len(d) : p[i] = d[i]
    BY <1>4, UnderIs
  <2>2. Len(p) \in Nat /\ Len(q) \in Nat /\ Len(d) \in Nat
    BY <1>1
  <2>3. CASE Len(q) =< Len(d)
    <3>1. \A i \in 1..Len(q) : d[i] = q[i]
      BY <2>1, <2>2, <2>3
    <3>2. Under(d, q)
      BY <2>2, <2>3, <3>1, UnderIs
    <3>3. QED
      BY <3>2 DEF Apart
  <2>4. CASE Len(q) = Len(p)
    <3>1. p = q
      BY <2>1, <2>4, SamePath
    <3>2. QED
      BY <1>2, <3>1
  <2>5. QED
    BY <2>1, <2>2, <2>3, <2>4
<1>5. ASSUME NEW p \in A \ {d}, NEW q \in C, Under(p, q) PROVE FALSE
  <2>1. Under(p, d)
    BY <1>5, UnderTransitive
  <2>2. QED
    BY <2>1 DEF Apart
<1>6. QED
  BY <1>2, <1>3, <1>4, <1>5 DEF Apart
-------------------------------------------------------------------------------
(* The walk: types, and no file met twice. *)

NodeKinds == {"dir", "file", "link"}
Entries == {e \in [path : Paths, kind : NodeKinds] : Len(e.path) > 1}
Waiting == {e.path : e \in todo}

DiskInv == disk \in [DOMAIN disk -> Nodes] /\ DOMAIN disk \subseteq Paths

WalkInv ==
  /\ walk \in {"idle", "walking", "done", "failed"}
  /\ stack \in Seq(Paths) /\ found \in Seq(Paths) /\ todo \subseteq Entries /\ changes \in 0..MaxChanges
  /\ walk # "walking" => todo = {} /\ stack = <<>>
  /\ walk \in {"idle", "failed"} => found = <<>>
  /\ walk \in {"walking", "done"} => root \in Paths

\* Whatever was met and is not yet done with: no path twice, none below another,
\* all below the root.  Others may change the directory: nothing here reads it.
Met == Members(found) \cup Members(stack) \cup Waiting
MetOnce ==
  /\ Apart(Met) /\ \A p \in Met : Under(p, root)
  /\ IsInjective(found) /\ IsInjective(stack)
  /\ Members(found) \cap Members(stack) = {}
  /\ (Members(found) \cup Members(stack)) \cap Waiting = {}
  /\ \A e, f \in todo : e.path = f.path => e = f

CorpusInv == DiskInv /\ WalkInv /\ MetOnce /\ ListedOnce

LEMMA CorpusTyped == CorpusInv => CorpusTypes
<1> SUFFICES ASSUME CorpusInv PROVE CorpusTypes
  OBVIOUS
<1>1. \A i \in DOMAIN stack : Len(stack[i]) >= 1
  BY DEF CorpusInv, WalkInv, Paths
<1>2. \A e \in todo : Len(e.path) > 1 /\ e.kind \in {"dir", "file", "link"}
  BY DEF CorpusInv, WalkInv, Entries, NodeKinds
<1>3. QED
  BY <1>1, <1>2 DEF CorpusInv, WalkInv, CorpusTypes

LEMMA EmptyMembers == Members(<<>>) = {} /\ IsInjective(<<>>)
BY DEF Members, IsInjective

LEMMA WalkTypes ==
  ASSUME CorpusInv
  PROVE  Met \in SUBSET Paths /\ Members(found) \subseteq Paths /\ Members(stack) \subseteq Paths /\ Waiting \subseteq Paths
<1>1. found \in Seq(Paths) /\ stack \in Seq(Paths) /\ todo \subseteq Entries
  BY DEF CorpusInv, WalkInv
<1>2. Members(found) \subseteq Paths /\ Members(stack) \subseteq Paths
  BY <1>1 DEF Members
<1>3. Waiting \subseteq Paths
  BY <1>1 DEF Waiting, Entries
<1>4. QED
  BY <1>2, <1>3 DEF Met

LEMMA CorpusStarts == DiskInv /\ CorpusInit => CorpusInv
<1> SUFFICES ASSUME DiskInv, CorpusInit PROVE CorpusInv
  OBVIOUS
<1>1. walk = "idle" /\ stack = <<>> /\ todo = {} /\ found = <<>> /\ changes = 0
  BY DEF CorpusInit
<1>2. WalkInv
  BY <1>1, EmptySeqs, CorpusAssumption DEF WalkInv
<1>3. MetOnce
  BY <1>1, EmptyMembers DEF MetOnce, Met, Waiting, Apart
<1>4. QED
  BY <1>1, <1>2, <1>3 DEF CorpusInv, ListedOnce

LEMMA WalkStartsStep ==
  ASSUME CorpusInv, walk = "idle", NEW dir, WalkStarts(dir)
  PROVE  CorpusInv'
<1>1. DiskInv'
  BY DEF WalkStarts, CorpusInv, DiskInv
<1>2. stack = <<>> /\ todo = {} /\ found = <<>> /\ todo' = {} /\ found' = <<>> /\ root' = dir /\ changes' = changes
  BY DEF CorpusInv, WalkInv, WalkStarts
<1>3. Members(found)' = {} /\ IsInjective(found)' /\ Waiting' = {}
  BY <1>2, EmptyMembers DEF Waiting
<1>4. CASE IsDir(dir)
  <2>1. dir \in Paths
    BY <1>4 DEF IsDir, Exists, CorpusInv, DiskInv
  <2>2. walk' = "walking" /\ stack' = <<dir>>
    BY <1>4 DEF WalkStarts
  <2>3. <<dir>> \in Seq(Paths) /\ Members(<<dir>>) = {dir} /\ IsInjective(<<dir>>)
    BY <2>1 DEF Members, IsInjective
  <2>4. Met' = {dir} /\ Members(stack)' = {dir} /\ IsInjective(stack)'
    BY <1>3, <2>2, <2>3 DEF Met
  <2>5. MetOnce'
    BY <1>2, <1>3, <2>1, <2>4, UnderItself DEF MetOnce, Apart
  <2>6. WalkInv'
    BY <1>2, <2>1, <2>2, <2>3, EmptySeqs DEF WalkInv, CorpusInv
  <2>7. QED
    BY <1>1, <2>2, <2>5, <2>6 DEF CorpusInv, ListedOnce
<1>5. CASE ~IsDir(dir)
  <2>1. walk' = "failed" /\ stack' = <<>>
    BY <1>2, <1>5 DEF WalkStarts
  <2>2. Met' = {} /\ Members(stack)' = {} /\ IsInjective(stack)'
    BY <1>3, <2>1, EmptyMembers DEF Met
  <2>3. MetOnce'
    BY <1>2, <1>3, <2>2 DEF MetOnce, Apart
  <2>4. WalkInv'
    BY <1>2, <2>1, EmptySeqs DEF WalkInv, CorpusInv
  <2>5. QED
    BY <1>1, <2>1, <2>3, <2>4 DEF CorpusInv, ListedOnce
<1>6. QED
  BY <1>4, <1>5

\* A directory comes off the stack, and what is in it waits, or it is passed over.
LEMMA ReadDirShape ==
  ASSUME CorpusInv, ReadDir
  PROVE  LET dir == stack[Len(stack)] IN
         /\ dir \in Members(stack) /\ stack' \in Seq(Paths) /\ IsInjective(stack)'
         /\ Members(stack)' = Members(stack) \ {dir}
         /\ todo' = IF IsDir(dir) /\ At(dir).opens
                    THEN {[path |-> p, kind |-> disk[p].kind] : p \in Children(dir)} ELSE {}
         /\ \A p \in Children(dir) :
              p \in Paths /\ Len(p) = Len(dir) + 1 /\ Under(p, dir) /\ Len(p) > 1 /\ disk[p].kind \in NodeKinds
<1> DEFINE dir == stack[Len(stack)]
<1>1. stack \in Seq(Paths) /\ stack # <<>> /\ IsInjective(stack)
  BY DEF ReadDir, CorpusInv, WalkInv, MetOnce
<1>2. stack' = SubSeq(stack, 1, Len(stack) - 1)
  BY DEF ReadDir
<1>3. /\ stack' \in Seq(Paths) /\ dir \in Paths
      /\ Members(stack) = Members(stack') \cup {dir}
      /\ IsInjective(stack') /\ dir \notin Members(stack')
  BY <1>1, <1>2, TopTaken
<1>4. todo' = IF IsDir(dir) /\ At(dir).opens
              THEN {[path |-> p, kind |-> disk[p].kind] : p \in Children(dir)} ELSE {}
  BY DEF ReadDir
<1> HIDE DEF dir
<1>5. ASSUME NEW p \in Children(dir)
      PROVE  p \in Paths /\ Len(p) = Len(dir) + 1 /\ Under(p, dir) /\ Len(p) > 1 /\ disk[p].kind \in NodeKinds
  <2>1. p \in DOMAIN disk /\ Len(p) = Len(dir) + 1 /\ Under(p, dir)
    BY DEF Children
  <2>2. p \in Paths /\ disk[p] \in Nodes
    BY <2>1 DEF CorpusInv, DiskInv
  <2>3. disk[p].kind \in NodeKinds
    BY <2>2 DEF Nodes, Targets, NodeKinds
  <2>4. Len(dir) \in Nat /\ Len(dir) >= 1
    BY <1>3 DEF Paths
  <2>5. QED
    BY <2>1, <2>2, <2>3, <2>4
<1>6. QED
  BY <1>3, <1>4, <1>5 DEF dir

LEMMA ReadDirStep == CorpusInv /\ ReadDir => CorpusInv'
<1> SUFFICES ASSUME CorpusInv, ReadDir PROVE CorpusInv'
  OBVIOUS
<1> DEFINE dir == stack[Len(stack)]
           C == {e.path : e \in todo'}
<1>1. /\ dir \in Members(stack) /\ stack' \in Seq(Paths) /\ IsInjective(stack)'
      /\ Members(stack)' = Members(stack) \ {dir}
      /\ todo' = IF IsDir(dir) /\ At(dir).opens
                 THEN {[path |-> p, kind |-> disk[p].kind] : p \in Children(dir)} ELSE {}
      /\ \A p \in Children(dir) :
           p \in Paths /\ Len(p) = Len(dir) + 1 /\ Under(p, dir) /\ Len(p) > 1 /\ disk[p].kind \in NodeKinds
  BY ReadDirShape
<1>2. walk = "walking" /\ todo = {} /\ UNCHANGED <<disk, walk, root, found, changes>>
  BY DEF ReadDir, Walking
<1> HIDE DEF dir
<1>3. \A e \in todo' : \E p \in Children(dir) : e = [path |-> p, kind |-> disk[p].kind]
  BY <1>1
<1>4. todo' \subseteq Entries
  BY <1>1, <1>3 DEF Entries
<1>5. C \in SUBSET Paths /\ \A c \in C : Len(c) = Len(dir) + 1 /\ Under(c, dir)
  BY <1>1, <1>3
<1>6. \A e, f \in todo' : e.path = f.path => e = f
  BY <1>3
<1>7. Met = Members(found) \cup Members(stack) /\ Met' = Members(found) \cup (Members(stack) \ {dir}) \cup C
  BY <1>1, <1>2 DEF Met, Waiting
<1>8. Waiting' = C
  BY DEF Waiting
<1> HIDE DEF C
<1>9. dir \in Met /\ dir \notin Members(found)
  BY <1>1, <1>7 DEF CorpusInv, MetOnce
<1>10. Met' = (Met \ {dir}) \cup C
  BY <1>7, <1>9
<1>11. Apart(Met') /\ C \cap Met = {}
  <2>1. Met \in SUBSET Paths /\ Apart(Met)
    BY WalkTypes DEF CorpusInv, MetOnce
  <2>2. QED
    BY <1>5, <1>9, <1>10, <2>1, ChildrenApart
<1>12. \A p \in Met' : Under(p, root)
  <2>1. root \in Paths /\ dir \in Paths /\ Under(dir, root)
    BY <1>2, <1>9, WalkTypes DEF CorpusInv, WalkInv, MetOnce
  <2>2. \A c \in C : Under(c, root)
    BY <1>5, <2>1, UnderTransitive
  <2>3. QED
    BY <1>10, <2>2 DEF CorpusInv, MetOnce
<1>13. MetOnce'
  <2>1. Apart(Met)'
    BY <1>11 DEF Apart
  <2>2. Members(found)' = Members(found) /\ IsInjective(found)'
    BY <1>2 DEF CorpusInv, MetOnce
  <2>3. /\ Members(found)' \cap Members(stack)' = {}
        /\ (Members(found)' \cup Members(stack)') \cap Waiting' = {}
    BY <1>1, <1>7, <1>8, <1>11, <2>2 DEF CorpusInv, MetOnce
  <2>4. \A p \in Met' : Under(p, root)'
    BY <1>2, <1>12 DEF Under
  <2>5. QED
    BY <1>1, <1>6, <2>1, <2>2, <2>3, <2>4 DEF MetOnce
<1>14. DiskInv' /\ WalkInv'
  BY <1>1, <1>2, <1>4 DEF CorpusInv, DiskInv, WalkInv
<1>15. QED
  BY <1>2, <1>13, <1>14 DEF CorpusInv, ListedOnce

\* An entry is no more waiting: a directory is on the stack, a file may be found.
LEMMA EntryStep ==
  ASSUME CorpusInv, NEW e \in todo, Entry(e)
  PROVE  CorpusInv'
<1>1. walk = "walking" /\ todo' = todo \ {e} /\ UNCHANGED <<disk, walk, root, changes>>
  BY DEF Entry, Walking
<1>2. stack \in Seq(Paths) /\ found \in Seq(Paths) /\ e.path \in Paths /\ todo \subseteq Entries
  BY DEF CorpusInv, WalkInv, Entries
<1>3. e.path \in Waiting /\ e.path \notin Members(found) /\ e.path \notin Members(stack)
  BY DEF Waiting, CorpusInv, MetOnce
<1>4. Waiting' = Waiting \ {e.path}
  <2>1. \A f \in todo : f.path = e.path => f = e
    BY DEF CorpusInv, MetOnce
  <2>2. QED
    BY <1>1, <2>1 DEF Waiting
<1>5. \/ stack' = stack /\ found' = found
      \/ stack' = Append(stack, e.path) /\ found' = found
      \/ stack' = stack /\ found' = Append(found, e.path)
  BY DEF Entry
<1>6. /\ stack' \in Seq(Paths) /\ found' \in Seq(Paths)
      /\ IsInjective(stack') /\ IsInjective(found')
      /\ \/ Members(stack') = Members(stack) /\ Members(found') = Members(found)
         \/ Members(stack') = Members(stack) \cup {e.path} /\ Members(found') = Members(found)
         \/ Members(stack') = Members(stack) /\ Members(found') = Members(found) \cup {e.path}
  <2>1. IsInjective(stack) /\ IsInjective(found)
    BY DEF CorpusInv, MetOnce
  <2>2. /\ Append(stack, e.path) \in Seq(Paths) /\ IsInjective(Append(stack, e.path))
        /\ Members(Append(stack, e.path)) = Members(stack) \cup {e.path}
    BY <1>2, <1>3, <2>1, AppendMembers
  <2>3. /\ Append(found, e.path) \in Seq(Paths) /\ IsInjective(Append(found, e.path))
        /\ Members(Append(found, e.path)) = Members(found) \cup {e.path}
    BY <1>2, <1>3, <2>1, AppendMembers
  <2>4. QED
    BY <1>2, <1>5, <2>1, <2>2, <2>3
<1>7. Met' \subseteq Met
  BY <1>3, <1>4, <1>6 DEF Met
<1>8. MetOnce'
  <2>1. Apart(Met') /\ \A p \in Met' : Under(p, root)
    BY <1>7 DEF CorpusInv, MetOnce, Apart
  <2>2. /\ Members(found') \cap Members(stack') = {}
        /\ (Members(found') \cup Members(stack')) \cap Waiting' = {}
    BY <1>3, <1>4, <1>6 DEF CorpusInv, MetOnce
  <2>3. Apart(Met)' /\ (\A p \in Met : Under(p, root))'
    BY <1>1, <2>1 DEF Apart, Under
  <2>4. \A f, g \in todo' : f.path = g.path => f = g
    BY <1>1 DEF CorpusInv, MetOnce
  <2>5. QED
    BY <1>6, <2>2, <2>3, <2>4 DEF MetOnce
<1>9. DiskInv' /\ WalkInv'
  BY <1>1, <1>2, <1>6 DEF CorpusInv, DiskInv, WalkInv
<1>10. QED
  BY <1>1, <1>8, <1>9 DEF CorpusInv, ListedOnce

\* The sort at the end of a walk.
LEMMA WalkEndsSorts ==
  ASSUME CorpusInv, WalkEnds
  PROVE  /\ found' \in Seq(Paths) /\ Members(found') = Members(found) /\ IsInjective(found')
         /\ Ordered(found') /\ Len(found') = Len(found)
<1>1. found' = Sorted(found) /\ walk = "walking"
  BY DEF WalkEnds, Walking
<1>2. found \in Seq(Paths) /\ IsInjective(found) /\ root \in Paths
  BY <1>1 DEF CorpusInv, WalkInv, MetOnce
<1>3. \A i, j \in DOMAIN found : found[i][1] = found[j][1]
  <2>1. \A i \in DOMAIN found : found[i] \in Paths /\ Under(found[i], root)
    BY <1>2 DEF CorpusInv, MetOnce, Met, Members
  <2>2. Len(root) \in Nat /\ Len(root) >= 1
    BY <1>2 DEF Paths
  <2>3. \A i \in DOMAIN found : found[i][1] = root[1]
    BY <1>2, <2>1, <2>2, UnderIs
  <2>4. QED
    BY <2>3
<1>4. /\ found' \in Seq(Paths) /\ Members(found') = Members(found)
      /\ Ordered(found') /\ Len(found') = Len(found)
  BY <1>1, <1>2, <1>3, SortedOrders
<1>5. IsInjective(found')
  <2> SUFFICES ASSUME NEW i \in DOMAIN found', NEW j \in DOMAIN found', found'[i] = found'[j], i # j
               PROVE  FALSE
    BY DEF IsInjective
  <2>1. i \in Int /\ j \in Int /\ found'[i] \in Paths
    BY <1>4
  <2>2. Before(found'[i], found'[i])
    BY <1>4, <2>1 DEF Ordered
  <2>3. QED
    BY <2>1, <2>2, BeforeIrreflexive
<1>6. QED
  BY <1>4, <1>5

LEMMA WalkEndsStep == CorpusInv /\ WalkEnds => CorpusInv'
<1> SUFFICES ASSUME CorpusInv, WalkEnds PROVE CorpusInv'
  OBVIOUS
<1>1. /\ walk = "walking" /\ walk' = "done" /\ todo = {} /\ stack = <<>>
      /\ UNCHANGED <<disk, root, stack, todo, changes>>
  BY DEF WalkEnds, Walking
<1>2. found' \in Seq(Paths) /\ Members(found') = Members(found) /\ IsInjective(found') /\ Ordered(found')
  BY WalkEndsSorts
<1>3. Met' = Met
  BY <1>1, <1>2 DEF Met, Waiting
<1>4. MetOnce'
  <2>1. Apart(Met)' /\ (\A p \in Met : Under(p, root))'
    BY <1>1, <1>3 DEF CorpusInv, MetOnce, Apart, Under
  <2>2. QED
    BY <1>1, <1>2, <2>1 DEF CorpusInv, MetOnce, Waiting
<1>5. DiskInv' /\ WalkInv'
  BY <1>1, <1>2 DEF CorpusInv, DiskInv, WalkInv
<1>6. ListedOnce'
  BY <1>2 DEF ListedOnce, Ordered
<1>7. QED
  BY <1>4, <1>5, <1>6 DEF CorpusInv

LEMMA CorpusStays == CorpusInv /\ UNCHANGED corpusVars => CorpusInv'
<1> SUFFICES ASSUME CorpusInv, UNCHANGED corpusVars PROVE CorpusInv'
  OBVIOUS
<1>1. UNCHANGED <<disk, walk, root, stack, todo, found, changes>>
  BY DEF corpusVars
<1>2. DiskInv' /\ WalkInv'
  BY <1>1 DEF CorpusInv, DiskInv, WalkInv
<1>3. Members(found)' = Members(found) /\ Members(stack)' = Members(stack) /\ Waiting' = Waiting /\ Met' = Met
  BY <1>1 DEF Members, Waiting, Met
<1>4. MetOnce'
  BY <1>1, <1>3 DEF CorpusInv, MetOnce, Apart, Under, IsInjective
<1>5. ListedOnce'
  BY <1>1 DEF CorpusInv, ListedOnce
<1>6. QED
  BY <1>2, <1>4, <1>5 DEF CorpusInv

LEMMA WalkStepKeeps == CorpusInv /\ Walk => CorpusInv'
BY ReadDirStep, EntryStep, WalkEndsStep DEF Walk

\* What others do to the directory leaves it one, and what was met unmet.
LEMMA ChangeStep ==
  ASSUME CorpusInv, NEW new, IsPath(new), NEW node \in Nodes, Change(new, node)
  PROVE  CorpusInv'
<1>1. disk \in [DOMAIN disk -> Nodes] /\ DOMAIN disk \subseteq Paths
  BY DEF CorpusInv, DiskInv
<1>2. DiskInv'
  <2>1. ASSUME NEW p \in DOMAIN disk, disk' = Without(p)
        PROVE  DiskInv'
    <3>1. DOMAIN disk' = {r \in DOMAIN disk : ~Under(r, p)}
      BY <2>1 DEF Without
    <3>2. \A q \in DOMAIN disk' : disk'[q] = disk[q] /\ q \in DOMAIN disk
      BY <2>1, <3>1 DEF Without
    <3>3. disk' = [q \in DOMAIN disk' |-> disk'[q]]
      BY <2>1 DEF Without
    <3>4. QED
      BY <1>1, <3>2, <3>3 DEF DiskInv
  <2>2. ASSUME NEW p \in DOMAIN disk, disk' = Locked(p)
        PROVE  DiskInv'
    <3>1. disk[p] \in Nodes
      BY <1>1
    <3>2. \A t \in Targets \cup {Nowhere} : Shut(t) \in Targets \cup {Nowhere} /\ (t \in Targets => Shut(t) \in Targets)
      <4>1. ASSUME NEW t \in Targets PROVE Shut(t) \in Targets
        BY DEF Targets, Shut
      <4>2. Shut(Nowhere) = Nowhere
        <5>1. Nowhere \in [kind : {"none"}, shared : {FALSE}, opens : {FALSE}]
          BY DEF Nowhere
        <5>2. Shut(Nowhere) \in [kind : {"none"}, shared : {FALSE}, opens : {FALSE}]
          BY <5>1 DEF Shut
        <5>3. \A r \in [kind : {"none"}, shared : {FALSE}, opens : {FALSE}] :
                r = [kind |-> "none", shared |-> FALSE, opens |-> FALSE]
          <6> SUFFICES ASSUME NEW r \in [kind : {"none"}, shared : {FALSE}, opens : {FALSE}]
                       PROVE  r = [kind |-> "none", shared |-> FALSE, opens |-> FALSE]
            OBVIOUS
          <6>1. r = [kind |-> r.kind, shared |-> r.shared, opens |-> r.opens]
            OBVIOUS
          <6>2. r.kind = "none" /\ r.shared = FALSE /\ r.opens = FALSE
            OBVIOUS
          <6>3. QED
            BY <6>1, <6>2
        <5>4. QED
          BY <5>2, <5>3 DEF Nowhere
      <4>3. QED
        BY <4>1, <4>2
    <3>3. ASSUME disk[p].kind = "link" PROVE ShutThrough(disk[p]) \in Nodes
      <4> DEFINE to == disk[p].to
      <4>1. disk[p] \in [kind : {"link"}, size : Nat, to : Targets \cup {Nowhere}]
        BY <3>1, <3>3 DEF Nodes, Targets
      <4>2. Shut(to) \in Targets \cup {Nowhere}
        BY <3>2, <4>1
      <4>3. ShutThrough(disk[p]) = [disk[p] EXCEPT !.to = Shut(to)]
        BY <3>3 DEF ShutThrough
      <4> HIDE DEF to
      <4>4. QED
        BY <4>1, <4>2, <4>3 DEF Nodes
    <3>4. ASSUME disk[p].kind # "link" PROVE ShutThrough(disk[p]) \in Nodes
      <4>1. disk[p] \in Targets
        BY <3>1, <3>4 DEF Nodes
      <4>2. QED
        BY <3>2, <3>4, <4>1 DEF ShutThrough, Nodes
    <3>5. ShutThrough(disk[p]) \in Nodes
      BY <3>3, <3>4
    <3>6. disk' = [disk EXCEPT ![p] = ShutThrough(disk[p])]
      BY <2>2 DEF Locked
    <3>7. QED
      BY <1>1, <3>5, <3>6 DEF DiskInv
  <2>3. ASSUME disk' = With(new, node)
        PROVE  DiskInv'
    <3>1. new \in Paths /\ node \in Nodes
      BY PathOf
    <3>2. DOMAIN disk' = DOMAIN disk \cup {new}
      BY <2>3 DEF With
    <3>3. \A q \in DOMAIN disk' : disk'[q] \in Nodes
      BY <1>1, <2>3, <3>1, <3>2 DEF With
    <3>4. disk' = [q \in DOMAIN disk' |-> disk'[q]]
      BY <2>3 DEF With
    <3>5. QED
      BY <1>1, <3>1, <3>2, <3>3, <3>4 DEF DiskInv
  <2>4. QED
    BY <2>1, <2>2, <2>3 DEF Change
<1>3. WalkInv'
  BY CorpusAssumption DEF Change, CorpusInv, WalkInv
<1>4. MetOnce' /\ ListedOnce'
  <2>1. UNCHANGED <<walk, root, stack, todo, found>>
    BY DEF Change
  <2>2. Met' = Met
    BY <2>1 DEF Met, Waiting, Members
  <2>3. MetOnce'
    BY <2>1, <2>2 DEF CorpusInv, MetOnce, Apart, Under, Waiting, Members, IsInjective
  <2>4. QED
    BY <2>1, <2>3 DEF CorpusInv, ListedOnce
<1>5. QED
  BY <1>2, <1>3, <1>4 DEF CorpusInv
-------------------------------------------------------------------------------
(* The walk of a corpus at rest. *)

\* A path can be reached: all directories above it can be listed.
Reach(p) ==
  Under(p, root) /\ \A n \in Len(root)..(Len(p) - 1) : Branch(SubSeq(p, 1, n)) /\ At(SubSeq(p, 1, n)).opens

\* What is found belongs to the inventory, what is not done with is reached, and
\* what is still to be found lies below something that is not done with.
AtRest ==
  /\ Members(found) \subseteq Inventory
  /\ \A d \in Members(stack) : Branch(d) /\ Reach(d)
  /\ \A e \in todo : Exists(e.path) /\ disk[e.path].kind = e.kind /\ Reach(e.path) /\ Len(e.path) > Len(root)
  /\ \A p \in Inventory \ Members(found) : \E d \in Members(stack) \cup Waiting : Under(p, d)

ExactInv == changes = 0 /\ walk \in {"walking", "done"} => AtRest

LEMMA Prefix ==
  ASSUME NEW p \in Paths, NEW n \in 1..Len(p)
  PROVE  /\ SubSeq(p, 1, n) \in Paths /\ Len(SubSeq(p, 1, n)) = n /\ Under(p, SubSeq(p, 1, n))
         /\ \A i \in 1..n : SubSeq(p, 1, n)[i] = p[i]
<1>1. p \in Seq(Names) /\ Len(p) \in Nat /\ \A i \in 2..Len(p) : p[i] \in Nat
  BY DEF Paths
<1>2. /\ SubSeq(p, 1, n) \in Seq(Names) /\ Len(SubSeq(p, 1, n)) = n
      /\ \A i \in 1..n : SubSeq(p, 1, n)[i] = p[i]
  <2>1. \A i \in 1..n : p[i] \in Names
    BY <1>1
  <2>2. QED
    BY <1>1, <2>1, SubSeqProperties
<1> DEFINE q == SubSeq(p, 1, n)
<1> HIDE DEF q
<1>3. q \in Seq(Names) /\ Len(q) = n /\ \A i \in 1..n : q[i] = p[i]
  BY <1>2 DEF q
<1>4. q \in Paths
  BY <1>1, <1>3 DEF Paths
<1>5. Under(p, q)
  BY <1>1, <1>3, <1>4, UnderIs
<1>6. QED
  BY <1>3, <1>4, <1>5 DEF q

\* The directories above a path are those above what it lies below, and that.
LEMMA PrefixOfPrefix ==
  ASSUME NEW p \in Paths, NEW d \in Paths, Under(p, d), NEW n \in 1..Len(d)
  PROVE  SubSeq(p, 1, n) = SubSeq(d, 1, n) /\ n \in 1..Len(p)
<1>1. Len(p) \in Nat /\ Len(d) \in Nat /\ Len(p) >= Len(d) /\ \A i \in 1..Len(d) : p[i] = d[i]
  BY UnderIs DEF Paths
<1>2. n \in 1..Len(p)
  BY <1>1
<1> DEFINE q == SubSeq(p, 1, n)
           r == SubSeq(d, 1, n)
<1>3. q \in Paths /\ Len(q) = n /\ \A i \in 1..n : q[i] = p[i]
  BY <1>2, Prefix
<1>4. r \in Paths /\ Len(r) = n /\ \A i \in 1..n : r[i] = d[i]
  BY Prefix
<1> HIDE DEF q, r
<1>5. \A i \in 1..n : q[i] = r[i]
  BY <1>1, <1>3, <1>4
<1>6. q = r
  BY <1>3, <1>4, <1>5, SamePath
<1>7. QED
  BY <1>2, <1>6 DEF q, r

\* A child of a directory that is reached and can be listed is reached.
LEMMA ChildReached ==
  ASSUME CorpusInv, root \in Paths, NEW d \in Paths, Branch(d), At(d).opens, Reach(d),
         NEW c \in Paths, Len(c) = Len(d) + 1, Under(c, d)
  PROVE  Reach(c) /\ Len(c) > Len(root)
<1>1. Len(c) \in Nat /\ Len(d) \in Nat /\ Len(root) \in Nat /\ Len(root) >= 1 /\ Len(d) >= Len(root)
  BY UnderIs DEF Paths, Reach
<1>2. Under(c, root)
  BY UnderTransitive DEF Reach
<1>3. ASSUME NEW n \in Len(root)..(Len(c) - 1)
      PROVE  Branch(SubSeq(c, 1, n)) /\ At(SubSeq(c, 1, n)).opens
  <2>1. n \in 1..Len(d) /\ (n = Len(d) \/ n \in Len(root)..(Len(d) - 1))
    BY <1>1
  <2>2. SubSeq(c, 1, n) = SubSeq(d, 1, n)
    BY <2>1, PrefixOfPrefix
  <2>3. CASE n = Len(d)
    <3>1. SubSeq(c, 1, n) = d
      BY <2>3 DEF Under
    <3>2. QED
      BY <3>1
  <2>4. CASE n \in Len(root)..(Len(d) - 1)
    BY <2>2, <2>4 DEF Reach
  <2>5. QED
    BY <2>1, <2>3, <2>4
<1>4. QED
  BY <1>1, <1>2, <1>3 DEF Reach

\* What is in the inventory below a path lies in a directory there, or is there.
LEMMA InventoryBelow ==
  ASSUME CorpusInv, root \in Paths, NEW p \in Inventory, NEW d \in Paths, Under(p, d), Under(d, root)
  PROVE  /\ p \in Paths /\ p \in DOMAIN disk /\ disk[p].kind = "file" /\ Eligible(p)
         /\ p = d \/ (Branch(d) /\ At(d).opens /\ Len(p) > Len(d))
<1>1. p \in Paths /\ p \in DOMAIN disk /\ disk[p].kind = "file" /\ Eligible(p)
  BY DEF Inventory, CorpusInv, DiskInv
<1>2. /\ Len(p) \in Nat /\ Len(d) \in Nat /\ Len(root) \in Nat /\ Len(p) >= Len(d) /\ Len(d) >= Len(root)
      /\ \A i \in 1..Len(d) : p[i] = d[i]
  BY <1>1, UnderIs DEF Paths
<1>3. CASE Len(p) = Len(d)
  BY <1>1, <1>2, <1>3, SamePath
<1>4. CASE Len(p) > Len(d)
  <2>1. Len(d) \in Len(root)..(Len(p) - 1)
    BY <1>2, <1>4
  <2>2. SubSeq(p, 1, Len(d)) = d
    BY DEF Under
  <2>3. Branch(SubSeq(p, 1, Len(d))) /\ At(SubSeq(p, 1, Len(d))).opens
    BY <2>1 DEF Inventory
  <2>4. QED
    BY <1>1, <1>4, <2>2, <2>3
<1>5. QED
  BY <1>2, <1>3, <1>4

\* Then a child of the directory leads to it.
LEMMA InventoryChild ==
  ASSUME CorpusInv, root \in Paths, NEW p \in Inventory, NEW d \in Paths, Under(p, d), Under(d, root), IsDir(d)
  PROVE  At(d).opens /\ \E c \in Children(d) : Under(p, c)
<1>1. p \in Paths /\ p \in DOMAIN disk /\ disk[p].kind = "file" /\ (p = d \/ (At(d).opens /\ Len(p) > Len(d)))
  BY InventoryBelow
<1>2. p # d
  BY <1>1 DEF IsDir, At
<1>3. /\ Len(p) \in Nat /\ Len(d) \in Nat /\ Len(root) \in Nat /\ Len(d) >= Len(root) /\ Len(root) >= 1
      /\ Len(p) > Len(d)
  <2>1. Len(p) > Len(d) /\ p \in Paths
    BY <1>1, <1>2
  <2>2. Len(d) >= Len(root)
    BY UnderIs
  <2>3. QED
    BY <2>1, <2>2 DEF Paths
<1> DEFINE n == Len(d) + 1
           c == SubSeq(p, 1, n)
<1>4. n \in 1..Len(p) /\ n \in Nat
  BY <1>3
<1>5. c \in Paths /\ Len(c) = n /\ Under(p, c) /\ \A i \in 1..n : c[i] = p[i]
  BY <1>1, <1>4, Prefix
<1>6. c \in DOMAIN disk
  <2>1. CASE n = Len(p)
    <3>1. c = p
      <4>1. \A i \in 1..Len(p) : c[i] = p[i]
        BY <1>5, <2>1
      <4>2. QED
        BY <1>1, <1>5, <2>1, <4>1, SamePath
    <3>2. QED
      BY <1>1, <3>1
  <2>2. CASE n < Len(p)
    <3>1. n \in Len(root)..(Len(p) - 1)
      BY <1>3, <2>2
    <3>2. Branch(c)
      BY <3>1 DEF Inventory
    <3>3. QED
      BY <3>2 DEF Branch, IsDir, Exists
  <2>3. QED
    BY <1>4, <2>1, <2>2
<1>7. Under(c, d)
  <2>1. \A i \in 1..Len(d) : c[i] = d[i]
    <3>1. \A i \in 1..Len(d) : p[i] = d[i] /\ i \in 1..n
      BY <1>1, <1>3, UnderIs
    <3>2. QED
      BY <1>5, <3>1
  <2>2. Len(c) >= Len(d)
    BY <1>3, <1>5
  <2>3. QED
    BY <1>5, <2>1, <2>2, UnderIs
<1> HIDE DEF c
<1>8. c \in Children(d)
  BY <1>5, <1>6, <1>7 DEF Children
<1>9. QED
  BY <1>1, <1>2, <1>5, <1>8

LEMMA ExactStarts ==
  ASSUME CorpusInv, walk = "idle", NEW dir, WalkStarts(dir)
  PROVE  ExactInv'
<1>1. found = <<>> /\ todo = {} /\ stack = <<>>
  BY DEF CorpusInv, WalkInv
<1>2. SUFFICES ASSUME walk' \in {"walking", "done"} PROVE AtRest'
  BY DEF ExactInv
<1>3. /\ IsDir(dir) /\ root' = dir /\ stack' = <<dir>> /\ todo' = {} /\ found' = <<>> /\ disk' = disk
      /\ dir \in Paths
  BY <1>1, <1>2 DEF WalkStarts, IsDir, Exists, CorpusInv, DiskInv
<1>4. Members(stack)' = {dir} /\ Members(found)' = {}
  BY <1>3, EmptyMembers DEF Members
<1>5. Under(dir, dir) /\ Len(dir) \in Nat
  BY <1>3, UnderItself DEF Paths
<1>6. Branch(dir)' /\ Reach(dir)'
  <2>1. Branch(dir)'
    BY <1>3 DEF Branch, IsDir, Exists, At
  <2>2. Under(dir, root)' /\ \A n \in Len(dir)..(Len(dir) - 1) : FALSE
    BY <1>3, <1>5 DEF Under
  <2>3. QED
    BY <1>3, <2>1, <2>2 DEF Reach
<1>7. \A p \in Inventory' : Under(p, dir)
  BY <1>3 DEF Inventory, Under
<1>8. (\A p \in Inventory \ Members(found) : \E d \in Members(stack) \cup Waiting : Under(p, d))'
  BY <1>4, <1>7 DEF Under
<1>9. QED
  BY <1>3, <1>4, <1>6, <1>8 DEF AtRest

\* Steps of the walk leave the inventory and what is reached as they are.
LEMMA RestStays ==
  ASSUME UNCHANGED <<disk, root>>
  PROVE  Inventory' = Inventory /\ \A p : (Branch(p)' <=> Branch(p)) /\ (Reach(p)' <=> Reach(p))
BY DEF Inventory, Under, Eligible, Branch, IsDir, Exists, At, Reach

LEMMA ExactReadDir ==
  ASSUME CorpusInv, ExactInv, ReadDir
  PROVE  ExactInv'
<1> DEFINE dir == stack[Len(stack)]
<1>1. /\ dir \in Members(stack)
      /\ Members(stack)' = Members(stack) \ {dir}
      /\ todo' = IF IsDir(dir) /\ At(dir).opens
                 THEN {[path |-> p, kind |-> disk[p].kind] : p \in Children(dir)} ELSE {}
      /\ \A p \in Children(dir) : p \in Paths /\ Len(p) = Len(dir) + 1 /\ Under(p, dir)
  BY ReadDirShape
<1> HIDE DEF dir
<1>2. walk = "walking" /\ todo = {} /\ UNCHANGED <<disk, walk, root, found, changes>>
  BY DEF ReadDir, Walking
<1>3. SUFFICES ASSUME changes = 0 PROVE AtRest'
  BY <1>2 DEF ExactInv
<1>4. AtRest /\ root \in Paths /\ dir \in Paths /\ Branch(dir) /\ IsDir(dir) /\ Reach(dir) /\ Under(dir, root)
  <2>1. AtRest
    BY <1>2, <1>3 DEF ExactInv
  <2>2. root \in Paths /\ dir \in Paths
    BY <1>1, <1>2, WalkTypes DEF CorpusInv, WalkInv
  <2>3. QED
    BY <1>1, <2>1, <2>2 DEF AtRest, Reach, Branch
<1>5. /\ Inventory' = Inventory /\ Members(found)' = Members(found)
      /\ \A p : (Branch(p)' <=> Branch(p)) /\ (Reach(p)' <=> Reach(p))
  BY <1>2, RestStays DEF Members
<1>6. \A e \in todo' : e.path \in Children(dir) /\ e.kind = disk[e.path].kind /\ At(dir).opens
  BY <1>1
<1>7. \A e \in todo' : Exists(e.path)' /\ disk'[e.path].kind = e.kind /\ Reach(e.path)' /\ Len(e.path) > Len(root')
  <2> SUFFICES ASSUME NEW e \in todo'
               PROVE  Exists(e.path)' /\ disk'[e.path].kind = e.kind /\ Reach(e.path)' /\ Len(e.path) > Len(root')
    OBVIOUS
  <2>1. e.path \in DOMAIN disk /\ e.path \in Paths /\ Len(e.path) = Len(dir) + 1 /\ Under(e.path, dir)
    BY <1>1, <1>6 DEF Children
  <2>2. Reach(e.path) /\ Len(e.path) > Len(root)
    BY <1>4, <1>6, <2>1, ChildReached
  <2>3. QED
    BY <1>2, <1>5, <1>6, <2>1, <2>2 DEF Exists
<1>8. ASSUME NEW p \in Inventory, p \notin Members(found)
      PROVE  \E d \in Members(stack)' \cup Waiting' : Under(p, d)
  <2>1. PICK d \in Members(stack) : Under(p, d)
    BY <1>2, <1>4, <1>8 DEF AtRest, Waiting
  <2>2. CASE d # dir
    BY <1>1, <2>1, <2>2
  <2>3. CASE d = dir
    <3>1. At(dir).opens /\ \E c \in Children(dir) : Under(p, c)
      BY <1>4, <2>1, <2>3, InventoryChild
    <3>2. PICK c \in Children(dir) : Under(p, c)
      BY <3>1
    <3>3. [path |-> c, kind |-> disk[c].kind] \in todo'
      BY <1>1, <1>4, <3>1
    <3>4. c \in Waiting'
      <4>1. [path |-> c, kind |-> disk[c].kind].path = c
        OBVIOUS
      <4>2. QED
        BY <3>3, <4>1 DEF Waiting
    <3>5. QED
      BY <3>2, <3>4
  <2>4. QED
    BY <2>2, <2>3
<1>9. \A d \in Members(stack)' : Branch(d)' /\ Reach(d)'
  BY <1>1, <1>4, <1>5 DEF AtRest
<1>10. (\A p \in Inventory \ Members(found) : \E d \in Members(stack) \cup Waiting : Under(p, d))'
  BY <1>5, <1>8 DEF Under
<1>11. Members(found)' \subseteq Inventory'
  BY <1>4, <1>5 DEF AtRest
<1>12. QED
  BY <1>7, <1>9, <1>10, <1>11 DEF AtRest

LEMMA ExactEntry ==
  ASSUME CorpusInv, ExactInv, NEW e \in todo, Entry(e)
  PROVE  ExactInv'
<1>1. walk = "walking" /\ todo' = todo \ {e} /\ UNCHANGED <<disk, walk, root, changes>>
  BY DEF Entry, Walking
<1>2. SUFFICES ASSUME changes = 0 PROVE AtRest'
  BY <1>1 DEF ExactInv
<1>3. AtRest /\ root \in Paths /\ e.path \in Paths
  BY <1>1, <1>2 DEF ExactInv, CorpusInv, WalkInv, Entries
<1>4. /\ Exists(e.path) /\ disk[e.path].kind = e.kind /\ Reach(e.path) /\ Len(e.path) > Len(root)
      /\ Under(e.path, root)
  BY <1>3 DEF AtRest, Reach
<1>5. Inventory' = Inventory /\ \A p : (Branch(p)' <=> Branch(p)) /\ (Reach(p)' <=> Reach(p))
  BY <1>1, RestStays
<1>6. stack \in Seq(Paths) /\ found \in Seq(Paths)
  BY DEF CorpusInv, WalkInv
<1>7. Members(stack') = IF e.kind = "dir" THEN Members(stack) \cup {e.path} ELSE Members(stack)
  <2>1. Members(Append(stack, e.path)) = Members(stack) \cup {e.path}
    BY <1>3, <1>6, AppendMembers
  <2>2. QED
    BY <2>1 DEF Entry
<1>8. Members(found') = IF e.kind = "file" /\ Eligible(e.path) THEN Members(found) \cup {e.path} ELSE Members(found)
  <2>1. Members(Append(found, e.path)) = Members(found) \cup {e.path}
    BY <1>3, <1>6, AppendMembers
  <2>2. QED
    BY <2>1 DEF Entry
<1>9. Waiting' = Waiting \ {e.path}
  <2>1. \A f \in todo : f.path = e.path => f = e
    BY DEF CorpusInv, MetOnce
  <2>2. QED
    BY <1>1, <2>1 DEF Waiting
<1>10. Members(found') \subseteq Inventory
  <2>1. e.kind = "file" /\ Eligible(e.path) => e.path \in Inventory
    BY <1>4 DEF Inventory, Reach, Exists
  <2>2. QED
    BY <1>3, <1>8, <2>1 DEF AtRest
<1>11. \A d \in Members(stack') : Branch(d) /\ Reach(d)
  <2>1. e.kind = "dir" => Branch(e.path) /\ Reach(e.path)
    BY <1>4 DEF Branch, IsDir, At
  <2>2. QED
    BY <1>3, <1>7, <2>1 DEF AtRest
<1>12. ASSUME NEW p \in Inventory, p \notin Members(found')
       PROVE  \E d \in Members(stack') \cup Waiting' : Under(p, d)
  <2>1. PICK d \in Members(stack) \cup Waiting : Under(p, d)
    BY <1>3, <1>8, <1>12 DEF AtRest
  <2>2. CASE d # e.path
    BY <1>7, <1>9, <2>1, <2>2
  <2>3. CASE d = e.path
    <3>1. disk[p].kind = "file" /\ Eligible(p) /\ (p = e.path \/ Branch(e.path))
      BY <1>3, <1>4, <2>1, <2>3, InventoryBelow
    <3>2. CASE p = e.path
      <4>1. e.kind = "file"
        BY <1>4, <3>1, <3>2
      <4>2. QED
        BY <1>8, <1>12, <3>1, <3>2, <4>1
    <3>3. CASE Branch(e.path)
      <4>1. e.kind = "dir"
        BY <1>3, <1>4, <3>3 DEF Branch, Paths
      <4>2. QED
        BY <1>7, <2>1, <2>3, <4>1
    <3>4. QED
      BY <3>1, <3>2, <3>3
  <2>4. QED
    BY <2>2, <2>3
<1>13. \A f \in todo' : Exists(f.path)' /\ disk'[f.path].kind = f.kind /\ Reach(f.path)' /\ Len(f.path) > Len(root')
  BY <1>1, <1>3, <1>5 DEF AtRest, Exists
<1>14. (\A p \in Inventory \ Members(found) : \E d \in Members(stack) \cup Waiting : Under(p, d))'
  BY <1>5, <1>12 DEF Under, Members
<1>15. (Members(found) \subseteq Inventory)' /\ (\A d \in Members(stack) : Branch(d) /\ Reach(d))'
  BY <1>5, <1>10, <1>11 DEF Members
<1>16. QED
  BY <1>13, <1>14, <1>15 DEF AtRest

LEMMA ExactEnds ==
  ASSUME CorpusInv, ExactInv, WalkEnds
  PROVE  ExactInv'
<1>1. walk = "walking" /\ UNCHANGED <<disk, root, stack, todo, changes>>
  BY DEF WalkEnds, Walking
<1>2. Members(found') = Members(found)
  BY WalkEndsSorts
<1>3. SUFFICES ASSUME changes = 0 PROVE AtRest'
  BY <1>1 DEF ExactInv
<1>4. AtRest
  BY <1>1, <1>3 DEF ExactInv
<1>5. Inventory' = Inventory /\ \A p : (Branch(p)' <=> Branch(p)) /\ (Reach(p)' <=> Reach(p))
  BY <1>1, RestStays
<1>6. Members(stack)' = Members(stack) /\ Members(found)' = Members(found) /\ Waiting' = Waiting
  BY <1>1, <1>2 DEF Members, Waiting
<1>7. QED
  BY <1>1, <1>4, <1>5, <1>6 DEF AtRest, Under, Exists

LEMMA ExactStays == ExactInv /\ UNCHANGED corpusVars => ExactInv'
<1> SUFFICES ASSUME ExactInv, UNCHANGED corpusVars PROVE ExactInv'
  OBVIOUS
<1>1. UNCHANGED <<disk, walk, root, stack, todo, found, changes>>
  BY DEF corpusVars
<1>2. Inventory' = Inventory /\ \A p : (Branch(p)' <=> Branch(p)) /\ (Reach(p)' <=> Reach(p))
  BY <1>1, RestStays
<1>3. Members(stack)' = Members(stack) /\ Members(found)' = Members(found) /\ Waiting' = Waiting
  BY <1>1 DEF Members, Waiting
<1>4. AtRest => AtRest'
  BY <1>1, <1>2, <1>3 DEF AtRest, Under, Exists
<1>5. QED
  BY <1>1, <1>4 DEF ExactInv

LEMMA ExactWalk == CorpusInv /\ ExactInv /\ Walk => ExactInv'
BY ExactReadDir, ExactEntry, ExactEnds DEF Walk

LEMMA ExactChange ==
  ASSUME CorpusInv, NEW new, NEW node, Change(new, node)
  PROVE  ExactInv'
BY DEF Change, ExactInv, CorpusInv, WalkInv

\* What the walk of a corpus at rest comes to, and that of any.
LEMMA InventoryKept == CorpusInv /\ ExactInv => InventoryTrue
<1> SUFFICES ASSUME CorpusInv, ExactInv PROVE InventoryTrue
  OBVIOUS
<1>1. found \in Seq(Paths) /\ IsInjective(found)
  BY DEF CorpusInv, WalkInv, MetOnce
<1>2. Cardinality(Members(found)) = Len(found)
  <2>1. Len(found) \in Nat /\ DOMAIN found = 1..Len(found) /\ found \in [1..Len(found) -> Members(found)]
    BY <1>1 DEF Members
  <2>2. found \in Bijection(1..Len(found), Members(found))
    BY <1>1, <2>1 DEF Bijection, Injection, Surjection, Members
  <2>3. QED
    BY <2>1, <2>2, FS_CountingElements DEF ExistsBijection
<1>3. walk = "done" /\ changes = 0 => Members(found) = Inventory
  <2> SUFFICES ASSUME walk = "done", changes = 0 PROVE Members(found) = Inventory
    OBVIOUS
  <2>1. stack = <<>> /\ todo = {}
    BY DEF CorpusInv, WalkInv
  <2>2. Members(stack) \cup Waiting = {}
    BY <2>1, EmptyMembers DEF Waiting
  <2>3. QED
    BY <2>2 DEF ExactInv, AtRest
<1>4. InventoryExact
  BY <1>2, <1>3 DEF InventoryExact, Members
<1>5. QED
  BY <1>4 DEF InventoryTrue, CorpusInv
===============================================================================
