---------------------------- MODULE TimestampProofs ----------------------------
(***************************************************************************)
(* Theorems about timestamps: what a run writes, the next one reads as the *)
(* instant the event was sent with, for every timestamp that a line may    *)
(* have, every zone, window and start, and any number of runs; and what a  *)
(* receiver is told beside the body agrees with it.                        *)
(***************************************************************************)
EXTENDS Wire, TLAPS

(* The calendar. *)

Years == 1969..2038
Seconds == YearStart(1969)..(YearStart(2039) - 1)

\* A number of seconds is a number of days and a rest.
LEMMA SplitDay ==
  ASSUME NEW s \in Int
  PROVE  /\ s % Day \in Int /\ s % Day >= 0 /\ s % Day < Day /\ s % Day \in 0..(Day - 1)
         /\ s = Day * (s \div Day) + (s % Day) /\ s \div Day \in Int
<1> DEFINE r == s % Day
           q == s \div Day
<1>1. r \in Int /\ r >= 0 /\ r < Day
  BY DEF Day
<1>2. s = Day * q + r
  BY DEF Day
<1>3. q \in Int
  BY DEF Day
<1>4. Day \in Int
  BY DEF Day
<1> HIDE DEF r, q
<1>5. r \in 0..(Day - 1)
  BY <1>1, <1>4
<1>6. QED
  BY <1>1, <1>2, <1>3, <1>5 DEF r, q

\* A year has 365 days, or 366.
LEMMA YearLength ==
  ASSUME NEW y \in Int
  PROVE  /\ YearStart(y) \in Int
         /\ YearStart(y + 1) = YearStart(y) + Day * (IF IsLeap(y) THEN 366 ELSE 365)
BY DEF YearStart, Day, IsLeap

\* Years do not overlap.
LEMMA YearsGrow ==
  ASSUME NEW y \in Int, NEW z \in Int, y < z
  PROVE  YearStart(y + 1) =< YearStart(z)
BY DEF YearStart, Day

\* Every second is in one year: four years have 1461 days.
LEMMA YearExists ==
  ASSUME NEW s \in Seconds
  PROVE  \E y \in Years : YearStart(y) =< s /\ s < YearStart(y + 1)
<1> DEFINE days == (s \div Day) + 365
           cycle == days \div 1461
           rest == days % 1461
           j == IF rest >= 1095 THEN 3 ELSE rest \div 365
           k == 4 * cycle + j
           y == 1969 + k
<1>1. s \in Int /\ -31536000 =< s /\ s < 2177452800
  <2>1. YearStart(1969) = -31536000
    BY DEF YearStart, Day
  <2>2. YearStart(2039) = 2177452800
    BY DEF YearStart, Day
  <2>3. QED
    BY <2>1, <2>2 DEF Seconds
<1>2. s \div Day \in Int /\ Day * (s \div Day) =< s /\ s < Day * (s \div Day) + Day
  BY <1>1 DEF Day
<1>3. days \in Nat /\ days =< 25566
  BY <1>1, <1>2 DEF Day
<1> HIDE DEF days
<1>4. cycle \in 0..17 /\ rest \in Int /\ rest >= 0 /\ rest < 1461 /\ days = 1461 * cycle + rest
  <2>1. rest \in Int /\ rest >= 0 /\ rest < 1461
    BY <1>3
  <2>2. days = 1461 * cycle + rest /\ cycle \in Int
    BY <1>3
  <2> HIDE DEF cycle, rest
  <2>3. QED
    BY <1>3, <2>1, <2>2
<1>5. cycle = 17 => rest =< 729
  BY <1>3, <1>4
<1> HIDE DEF cycle, rest
<1>6. j \in 0..3 /\ 365 * j =< rest /\ (j < 3 => rest < 365 * j + 365)
  BY <1>4
<1>7. cycle = 17 => j =< 1
  BY <1>4, <1>5, <1>6
<1> HIDE DEF j
<1>8. k \in 0..69 /\ k \div 4 = cycle /\ (j < 3 => (k + 1) \div 4 = cycle) /\ (j = 3 => (k + 1) \div 4 = cycle + 1)
  BY <1>4, <1>6, <1>7
<1>9. y \in Years
  BY <1>8 DEF Years
<1>10. YearStart(y) = Day * (365 * k - 365 + cycle)
  BY <1>4, <1>8 DEF YearStart, Day
<1>11. YearStart(y + 1) = Day * (365 * k + ((k + 1) \div 4))
  BY <1>8 DEF YearStart, Day
<1>12. 365 * k + cycle =< days /\ days < 365 * k + 365 + ((k + 1) \div 4)
  BY <1>4, <1>6, <1>8
<1>13. YearStart(y) =< s /\ s < YearStart(y + 1)
  BY <1>1, <1>2, <1>4, <1>8, <1>10, <1>11, <1>12 DEF days, Day
<1>14. QED
  BY <1>9, <1>13

\* What YearOf chooses exists.
LEMMA YearFound ==
  ASSUME NEW s \in Seconds
  PROVE  YearOf(s) \in Years /\ YearStart(YearOf(s)) =< s /\ s < YearStart(YearOf(s) + 1)
BY YearExists DEF YearOf, Years

\* A second lies in one year only.
LEMMA YearIsThis ==
  ASSUME NEW s \in Seconds, NEW y \in Years, YearStart(y) =< s, s < YearStart(y + 1)
  PROVE  YearOf(s) = y
<1>1. /\ YearOf(s) \in Years /\ YearStart(YearOf(s)) =< s /\ s < YearStart(YearOf(s) + 1) /\ s \in Int
      /\ YearStart(y) \in Int /\ YearStart(y + 1) \in Int
      /\ YearStart(YearOf(s)) \in Int /\ YearStart(YearOf(s) + 1) \in Int
  BY YearFound, YearLength DEF Seconds, Years
<1>2. ASSUME YearOf(s) < y PROVE FALSE
  <2>1. y \in Int /\ YearOf(s) \in Int
    BY <1>1 DEF Years
  <2>2. YearStart(YearOf(s) + 1) =< YearStart(y)
    BY <1>2, <2>1, YearsGrow
  <2>3. QED
    BY <1>1, <2>2
<1>3. ASSUME y < YearOf(s) PROVE FALSE
  <2>1. y \in Int /\ YearOf(s) \in Int
    BY <1>1 DEF Years
  <2>2. YearStart(y + 1) =< YearStart(YearOf(s))
    BY <1>3, <2>1, YearsGrow
  <2>3. QED
    BY <1>1, <2>2
<1>4. QED
  BY <1>1, <1>2, <1>3 DEF Years

\* What is printed without its year is the same second again in that year.
LEMMA PlaceInYear ==
  ASSUME NEW w \in Seconds
  PROVE  /\ Place(w) \in Places
         /\ HasDay(YearOf(w), Place(w).day) /\ InYear(YearOf(w), Place(w)) = w
<1> DEFINE y == YearOf(w)
           begin == YearStart(y)
           d == (w - begin) \div Day
           day == IF IsLeap(y) \/ d < Feb29 THEN d ELSE d + 1
           r == w % Day
<1>1. y \in Years /\ begin =< w /\ w < YearStart(y + 1) /\ w \in Int /\ begin \in Int
  BY YearFound, YearLength DEF Seconds, Years
<1>2. w < begin + Day * (IF IsLeap(y) THEN 366 ELSE 365)
  BY <1>1, YearLength DEF Years
<1>3. IsLeap(y) \in BOOLEAN
  BY DEF IsLeap
<1>4. \E n \in Int : begin = Day * n
  <2>1. 365 * (y - 1970) + ((y - 1969) \div 4) \in Int
    BY <1>1 DEF Years
  <2>2. begin = Day * (365 * (y - 1970) + ((y - 1969) \div 4))
    BY DEF YearStart
  <2>3. QED
    BY <2>1, <2>2
<1>5. Place(w) = [day |-> day, second |-> r]
  BY DEF Place
<1> HIDE DEF y, begin
<1>6. d \in Nat /\ r \in Int /\ r >= 0 /\ r < Day /\ w = begin + Day * d + r
  <2>1. PICK n \in Int : begin = Day * n
    BY <1>4
  <2>2. w - begin \in Int /\ w - begin >= 0
    BY <1>1
  <2> DEFINE q == w \div Day
             e == (w - begin) % Day
  <2>3. r \in Int /\ r >= 0 /\ r < Day /\ w = Day * q + r /\ q \in Int
    BY <1>1, SplitDay
  <2>4. e \in Int /\ e >= 0 /\ e < Day /\ w - begin = Day * d + e /\ d \in Int
    BY <2>2, SplitDay
  <2> HIDE DEF d, r, q, e
  <2>5. d = q - n
    BY <2>1, <2>3, <2>4 DEF Day
  <2>6. d >= 0
    BY <2>2, <2>4 DEF Day
  <2>7. QED
    BY <2>1, <2>3, <2>4, <2>5, <2>6 DEF Day
<1> HIDE DEF d, r
<1>7. d =< (IF IsLeap(y) THEN 365 ELSE 364)
  <2>1. CASE IsLeap(y)
    BY <1>1, <1>2, <1>6, <2>1 DEF Day
  <2>2. CASE ~IsLeap(y)
    BY <1>1, <1>2, <1>6, <2>2 DEF Day
  <2>3. QED
    BY <2>1, <2>2
<1>8. day \in 0..365 /\ (IsLeap(y) \/ day # Feb29)
  BY <1>3, <1>6, <1>7 DEF Feb29
<1>9. (IF IsLeap(y) \/ day < Feb29 THEN day ELSE day - 1) = d
  BY <1>3, <1>6, <1>7 DEF Feb29
<1> HIDE DEF day
<1>10. Place(w).day = day /\ Place(w).second = r /\ Place(w) \in Places
  <2>1. r \in 0..(Day - 1)
    BY <1>1, SplitDay DEF r
  <2>2. QED
    BY <1>5, <1>8, <2>1 DEF Places
<1>11. HasDay(y, Place(w).day)
  BY <1>8, <1>10 DEF HasDay
<1>12. InYear(y, Place(w)) = begin + r + Day * d
  BY <1>9, <1>10 DEF InYear, begin
<1>13. begin + r + Day * d = w
  BY <1>1, <1>6 DEF Day
<1>14. QED
  BY <1>10, <1>11, <1>12, <1>13 DEF y

\* The same day a year later is at least 365 days away.
LEMMA NextYear ==
  ASSUME NEW y \in Years, NEW p \in Places, HasDay(y, p.day)
  PROVE  /\ InYear(y, p) \in Int /\ InYear(y + 1, p) \in Int
         /\ InYear(y + 1, p) >= InYear(y, p) + 365 * Day
<1>1. /\ YearStart(y) \in Int /\ YearStart(y + 1) \in Int
      /\ YearStart(y + 1) = YearStart(y) + Day * (IF IsLeap(y) THEN 366 ELSE 365)
  BY YearLength DEF Years
<1>2. p.day \in 0..365 /\ p.second \in 0..(Day - 1)
  BY DEF Places
<1>3. /\ InYear(y, p) = YearStart(y) + p.second
           + Day * (IF IsLeap(y) \/ p.day < Feb29 THEN p.day ELSE p.day - 1)
      /\ InYear(y + 1, p) = YearStart(y + 1) + p.second
           + Day * (IF IsLeap(y + 1) \/ p.day < Feb29 THEN p.day ELSE p.day - 1)
  BY DEF InYear
<1>4. IsLeap(y) \in BOOLEAN /\ IsLeap(y + 1) \in BOOLEAN /\ (IsLeap(y) \/ p.day # Feb29)
  BY DEF IsLeap, HasDay
<1> DEFINE offset(z) == IF IsLeap(z) \/ p.day < Feb29 THEN p.day ELSE p.day - 1
<1>5. /\ offset(y) \in Int /\ offset(y + 1) \in Int
      /\ offset(y + 1) + (IF IsLeap(y) THEN 366 ELSE 365) >= offset(y) + 365
  BY <1>2, <1>4 DEF Feb29
<1>6. InYear(y, p) = YearStart(y) + p.second + Day * offset(y)
  BY DEF InYear
<1>7. InYear(y + 1, p) = YearStart(y + 1) + p.second + Day * offset(y + 1)
  BY DEF InYear
<1> DEFINE length == IF IsLeap(y) THEN 366 ELSE 365
           a == offset(y)
           b == offset(y + 1)
<1>8. length \in Int
  BY <1>4
<1> HIDE DEF length, a, b
<1>9. a \in Int /\ b \in Int /\ b + length >= a + 365
  BY <1>5 DEF a, b, length
<1>10. /\ InYear(y, p) = YearStart(y) + p.second + 86400 * a
       /\ InYear(y + 1, p) = YearStart(y) + 86400 * length + p.second + 86400 * b
  BY <1>1, <1>6, <1>7 DEF Day, a, b, length
<1>11. p.second \in Int
  BY <1>2
<1>12. QED
  BY <1>1, <1>8, <1>9, <1>10, <1>11 DEF Day

Locals == (-Day + 1)..(Day - 1)
Sendable == NineDigits..Horizon

\* Large numbers stay names wherever they bound a range.
LEMMA Numerals ==
  /\ Day \in Nat /\ LastEpoch \in Nat /\ NineDigits \in Nat /\ LastNumber \in Nat
  /\ Day < NineDigits /\ NineDigits + 1000 * Day < 1000000000 /\ 1000000000 < LastEpoch
  /\ LastEpoch < LastNumber
BY SMT DEF Day, LastEpoch, NineDigits, LastNumber

\* Whatever may be sent lies in the years considered, in every zone.
LEMMA InSeconds ==
  ASSUME NEW s \in Sendable, NEW loc \in Locals
  PROVE  s \in Seconds /\ s + loc \in Seconds /\ s \in Int /\ loc \in Int
<1>1. YearStart(1969) = -31536000
  BY DEF YearStart, Day
<1>2. YearStart(2039) = 2177452800
  BY DEF YearStart, Day
<1>3. /\ Horizon \in Int /\ Horizon =< LastEpoch - Day
      /\ s \in Int /\ NineDigits =< s /\ s =< Horizon
      /\ loc \in Int /\ -Day < loc /\ loc < Day
  BY Numerals, TimestampAssumption DEF Sendable, Locals
<1>4. s \in Int /\ 100000000 =< s /\ s =< 2145830400
  BY <1>3 DEF LastEpoch, Day, NineDigits
<1>5. loc \in Int /\ -86400 < loc /\ loc < 86400
  BY <1>3 DEF Day
<1>6. QED
  BY <1>1, <1>2, <1>4, <1>5 DEF Seconds

\* A date written without its year gets it back for 364 days, unless the year in the local
\* zone is ahead of that of UTC.
LEMMA YearBack ==
  ASSUME NEW loc \in Locals, NEW sent \in Sendable, NEW at \in Sendable,
         sent =< at, at - sent < 364 * Day, YearOf(sent + loc) =< YearOf(at)
  PROVE  ResolveNoYear(Place(sent + loc), at, loc) = sent
<1> DEFINE w == sent + loc
           place == Place(w)
           y == YearOf(w)
           this == YearOf(at)
           fit == {z \in {this, this - 1} : HasDay(z, place.day) /\ InYear(z, place) - loc =< at + Day}
<1>1. w \in Seconds /\ at \in Seconds /\ w \in Int /\ at \in Int /\ loc \in Int /\ sent \in Int /\ Day \in Int
  BY InSeconds DEF Seconds, Day
<1>2. y \in Years /\ this \in Years
  BY <1>1, YearFound
<1>3. /\ YearStart(y) =< w /\ w < YearStart(y + 1) /\ YearStart(this) =< at /\ at < YearStart(this + 1)
      /\ YearStart(y) \in Int /\ YearStart(this) \in Int /\ YearStart(y + 1) \in Int /\ YearStart(y + 2) \in Int
      /\ YearStart(y + 2) >= YearStart(y + 1) + 365 * Day
  <2>1. YearStart(y) =< w /\ w < YearStart(y + 1) /\ YearStart(this) =< at /\ at < YearStart(this + 1)
    BY <1>1, YearFound
  <2>2. YearStart(y) \in Int /\ YearStart(this) \in Int /\ YearStart(y + 1) \in Int
    BY <1>2, YearLength DEF Years
  <2>3. YearStart(y + 2) \in Int /\ YearStart(y + 2) >= YearStart(y + 1) + 365 * Day
    BY <1>2 DEF Years, YearStart, Day
  <2>4. QED
    BY <2>1, <2>2, <2>3
<1>4. place \in Places /\ HasDay(y, place.day) /\ InYear(y, place) = w
  BY <1>1, PlaceInYear
<1>5. InYear(y + 1, place) \in Int /\ InYear(y + 1, place) >= w + 365 * Day
  BY <1>2, <1>4, NextYear
<1>6. ResolveNoYear(place, at, loc) =
        IF fit = {} THEN InYear(2000, place)
        ELSE InYear(CHOOSE z \in fit : \A v \in fit : v =< z, place) - loc
  BY DEF ResolveNoYear
<1> HIDE DEF place, y, this
<1>7. y \in Int /\ this \in Int /\ y =< this
  BY <1>2 DEF Years, y, this, w
<1>8. loc > -86400 /\ loc < 86400
  <2>1. -Day < loc /\ loc < Day
    BY Numerals DEF Locals
  <2>2. QED
    BY <2>1 DEF Day
<1>9. this =< y + 1
  <2>1. SUFFICES ASSUME y + 1 < this PROVE FALSE
    BY <1>7
  <2>2. YearStart(y + 2) =< YearStart(this)
    <3> DEFINE next == y + 1
    <3>1. next \in Int /\ this \in Int /\ next < this /\ next + 1 = y + 2
      BY <1>7, <2>1
    <3> HIDE DEF next
    <3>2. YearStart(next + 1) =< YearStart(this)
      BY <3>1, YearsGrow
    <3>3. QED
      BY <3>1, <3>2
  <2> HIDE DEF w
  <2>3. w = sent + loc
    BY DEF w
  <2>4. QED
    BY <1>1, <1>3, <1>8, <2>2, <2>3 DEF Day
<1>10. y \in fit
  <2>1. InYear(y, place) - loc = sent
    BY <1>1, <1>4
  <2>2. sent =< at + Day
    BY <1>1 DEF Day
  <2>3. y = this \/ y = this - 1
    BY <1>7, <1>9
  <2>4. QED
    BY <1>4, <2>1, <2>2, <2>3
<1>11. \A z \in fit : z =< y
  <2> SUFFICES ASSUME NEW z \in fit, ~(z =< y) PROVE FALSE
    OBVIOUS
  <2>1. z = y + 1
    BY <1>7, <1>9
  <2>2. InYear(y + 1, place) - loc =< at + Day
    BY <2>1
  <2> HIDE DEF w
  <2>3. w = sent + loc
    BY DEF w
  <2>4. QED
    BY <1>1, <1>5, <2>2, <2>3 DEF Day
<1>12. \A z \in fit : z \in Int
  BY <1>7
<1> HIDE DEF fit
<1>13. (CHOOSE z \in fit : \A v \in fit : v =< z) = y
  <2> DEFINE best == CHOOSE z \in fit : \A v \in fit : v =< z
  <2>1. best \in fit /\ \A v \in fit : v =< best
    BY <1>10, <1>11
  <2> HIDE DEF best
  <2>2. best =< y /\ y =< best /\ best \in Int
    BY <1>10, <1>11, <1>12, <2>1
  <2>3. best = y
    BY <1>7, <2>2
  <2>4. QED
    BY <2>3 DEF best
<1>14. ResolveNoYear(place, at, loc) = w - loc
  <2>1. fit # {}
    BY <1>10
  <2>2. ResolveNoYear(place, at, loc) = InYear(CHOOSE z \in fit : \A v \in fit : v =< z, place) - loc
    BY <1>6, <2>1
  <2>3. QED
    BY <1>4, <1>13, <2>2
<1>15. w - loc = sent
  BY <1>1 DEF w
<1>16. QED
  BY <1>14, <1>15 DEF place, w
\* While the local zone is in a year that UTC has not reached, it gets the year before.
LEMMA YearEarly ==
  ASSUME NEW loc \in Locals, NEW sent \in Sendable, NEW at \in Sendable,
         sent =< at, YearOf(sent + loc) > YearOf(at)
  PROVE  LET y == YearOf(sent + loc)
         IN  ResolveNoYear(Place(sent + loc), at, loc) = sent - (YearStart(y) - YearStart(y - 1))
<1> DEFINE w == sent + loc
           place == Place(w)
           y == YearOf(w)
           this == YearOf(at)
           fit == {z \in {this, this - 1} : HasDay(z, place.day) /\ InYear(z, place) - loc =< at + Day}
<1>1. w \in Seconds /\ at \in Seconds /\ w \in Int /\ at \in Int /\ loc \in Int /\ sent \in Int
  BY InSeconds DEF Seconds
<1>2. y \in Years /\ this \in Years
  BY <1>1, YearFound
<1>3. y \in Int /\ this \in Int /\ this < y
  BY <1>2 DEF Years, y, this, w
<1>4. YearStart(y) =< w /\ YearStart(this) =< at /\ at < YearStart(this + 1)
  BY <1>1, YearFound
<1>5. place \in Places /\ InYear(y, place) = w
  BY <1>1, PlaceInYear
<1>6. ResolveNoYear(place, at, loc) =
        IF fit = {} THEN InYear(2000, place)
        ELSE InYear(CHOOSE z \in fit : \A v \in fit : v =< z, place) - loc
  BY DEF ResolveNoYear
<1>7. loc < 86400
  <2>1. loc < Day
    BY Numerals DEF Locals
  <2>2. QED
    BY <2>1 DEF Day
<1> HIDE DEF place, y, this
<1>8. /\ YearStart(this) \in Int /\ YearStart(y) \in Int /\ YearStart(this + 1) \in Int
      /\ YearStart(this) =< YearStart(y)
  <2>1. YearStart(this) \in Int /\ YearStart(y) \in Int /\ YearStart(this + 1) >= YearStart(this)
    BY <1>3, YearLength DEF Day
  <2>2. YearStart(this + 1) =< YearStart(y)
    BY <1>3, YearsGrow
  <2>3. YearStart(this + 1) \in Int
    BY <1>3, YearLength DEF Day
  <2>4. QED
    BY <2>1, <2>2, <2>3
<1>9. y = this + 1
  <2> SUFFICES ASSUME this + 1 < y PROVE FALSE
    BY <1>3
  <2> DEFINE next == this + 1
  <2>1. next \in Int /\ next < y
    BY <1>3
  <2>2. YearStart(next + 1) =< YearStart(y)
    BY <1>3, <2>1, YearsGrow
  <2>3. YearStart(next + 1) >= YearStart(next) + 86400 * 365 /\ YearStart(next + 1) \in Int
    BY <2>1, YearLength DEF Day
  <2>4. at < YearStart(next)
    BY <1>4
  <2> HIDE DEF next, w
  <2>5. w = sent + loc
    BY DEF w
  <2>6. YearStart(next) \in Int
    BY <2>1, YearLength
  <2>7. QED
    BY <1>1, <1>4, <1>7, <1>8, <2>2, <2>3, <2>4, <2>5, <2>6
<1>10. w < YearStart(y) + 86400
  BY <1>1, <1>4, <1>7, <1>8, <1>9
<1>11. place.day = 0 /\ w = YearStart(y) + place.second /\ place.second \in Int
  <2> DEFINE days == IF IsLeap(y) \/ place.day < Feb29 THEN place.day ELSE place.day - 1
  <2>1. place.day \in 0..365 /\ place.second \in Int /\ 0 =< place.second
    BY <1>5, Numerals DEF Places
  <2>2. w = YearStart(y) + place.second + 86400 * days
    BY <1>5 DEF InYear, Day
  <2>3. days \in Nat /\ (days = 0 => place.day = 0)
    BY <2>1 DEF Feb29, IsLeap
  <2> HIDE DEF days, w
  <2>4. days = 0
    BY <1>1, <1>8, <1>10, <2>1, <2>2, <2>3
  <2>5. QED
    BY <1>8, <2>1, <2>2, <2>3, <2>4
<1>12. InYear(this, place) = YearStart(this) + place.second
  BY <1>8, <1>11 DEF InYear, Day, Feb29
<1>13. this \in fit
  <2>1. HasDay(this, place.day)
    BY <1>11 DEF HasDay, Feb29
  <2>2. InYear(this, place) - loc =< at + Day
    BY <1>1, <1>8, <1>11, <1>12 DEF Day
  <2>3. QED
    BY <2>1, <2>2
<1>14. \A z \in fit : z \in Int /\ z =< this
  BY <1>3
<1> HIDE DEF fit
<1>15. (CHOOSE z \in fit : \A v \in fit : v =< z) = this
  <2> DEFINE best == CHOOSE z \in fit : \A v \in fit : v =< z
  <2>1. best \in fit /\ \A v \in fit : v =< best
    BY <1>13, <1>14
  <2> HIDE DEF best
  <2>2. best = this
    BY <1>3, <1>13, <1>14, <2>1
  <2>3. QED
    BY <2>2 DEF best
<1>16. ResolveNoYear(place, at, loc) = InYear(this, place) - loc
  <2>1. fit # {}
    BY <1>13
  <2>2. ResolveNoYear(place, at, loc) = InYear(CHOOSE z \in fit : \A v \in fit : v =< z, place) - loc
    BY <1>6, <2>1
  <2>3. QED
    BY <1>15, <2>2
<1>17. ResolveNoYear(place, at, loc) = sent - (YearStart(y) - YearStart(this))
  BY <1>1, <1>8, <1>11, <1>12, <1>16
<1>18. this = y - 1
  BY <1>3, <1>9
<1>19. QED
  BY <1>17, <1>18 DEF place, y, w
-------------------------------------------------------------------------------
(* Zones and fractions. *)

\* What is written for an offset is read as that offset, if it is one that was read.
LEMMA OffsetBack ==
  ASSUME NEW z \in Offsets, ValidOffset(z)
  PROVE  /\ ParseOffset(z) \in 0..(Day - 1)
         /\ OffToToken(ParseOffset(z)) \in Offsets /\ OffToToken(ParseOffset(z)).sign = "+"
         /\ ValidOffset(OffToToken(ParseOffset(z)))
         /\ ParseOffset(OffToToken(ParseOffset(z))) = ParseOffset(z)
<1> DEFINE hours == IF z.sign = "+" THEN z.hours ELSE 0
           mins == IF z.sign = "+" THEN z.mins ELSE 0
           off == ParseOffset(z)
<1>1. z.kind = "num" /\ z.hours \in Nat /\ z.mins \in Nat /\ z.hours =< 23 /\ z.mins =< 59
  BY DEF Offsets, ValidOffset
<1>2. hours \in Nat /\ mins \in Nat /\ hours =< 23 /\ mins =< 59
  BY <1>1
<1>3. off = hours * 3600 + mins * 60
  BY <1>1 DEF ParseOffset
<1> HIDE DEF hours, mins, off
<1>4. off \in Nat /\ off < Day
  BY <1>2, <1>3 DEF Day
<1>5. off \div 3600 = hours /\ (off % 3600) \div 60 = mins
  BY <1>2, <1>3
<1>6. OffToToken(off) = [kind |-> "num", sign |-> "+", hours |-> hours, mins |-> mins, style |-> "hhmm"]
  BY <1>4, <1>5 DEF OffToToken, Numeric
<1> DEFINE t == OffToToken(off)
<1> HIDE DEF t
<1>7. t.kind = "num" /\ t.sign = "+" /\ t.hours = hours /\ t.mins = mins /\ t.style = "hhmm" /\ t \in Offsets
  BY <1>2, <1>6 DEF Offsets, t
<1>8. ValidOffset(t) /\ ParseOffset(t) = off
  BY <1>2, <1>3, <1>7 DEF ValidOffset, ParseOffset
<1>9. off \in 0..(Day - 1)
  <2>1. Day \in Int
    BY DEF Day
  <2>2. QED
    BY <1>4, <2>1
<1>10. QED
  BY <1>7, <1>8, <1>9 DEF t, off

\* The powers of ten, one by one.
LEMMA TenIs ==
  /\ Ten[0] = 1 /\ Ten[1] = 10 /\ Ten[2] = 100 /\ Ten[3] = 1000 /\ Ten[4] = 10000 /\ Ten[5] = 100000
  /\ Ten[6] = 1000000 /\ Ten[7] = 10000000 /\ Ten[8] = 100000000 /\ Ten[9] = 1000000000
BY SMT DEF Ten

\* They are numbers.
LEMMA TenTyped == \A n \in 0..9 : Ten[n] \in Nat
<1>1. \A n \in 0..9 : n \in {0, 1, 2, 3, 4, 5, 6, 7, 8, 9}
  OBVIOUS
<1>2. QED
  BY <1>1, TenIs, SMT

\* They grow.
LEMMA TenGrows == \A m, n \in 0..9 : m =< n => Ten[m] =< Ten[n]
<1>1. \A n \in 0..9 : n \in {0, 1, 2, 3, 4, 5, 6, 7, 8, 9}
  OBVIOUS
<1>2. \A n \in 0..8 : Ten[n] =< Ten[n + 1]
  <2>1. \A n \in 0..8 : n \in {0, 1, 2, 3, 4, 5, 6, 7, 8}
    OBVIOUS
  <2>2. QED
    BY <2>1, TenIs, SMT
<1>3. QED
  BY <1>1, TenIs, SMT

\* Millionths as a range without its large bound.
LEMMA MillionthsAre ==
  ASSUME NEW v
  PROVE  v \in Millionths <=> v \in Nat /\ v < Ten[6]
<1>1. Ten[6] \in Nat
  BY TenIs
<1>2. QED
  BY <1>1 DEF Millionths

\* A number of thousandths.
LEMMA Thousands ==
  ASSUME NEW micro \in Millionths
  PROVE  /\ micro \div 1000 \in Nat /\ micro \div 1000 =< 999 /\ micro \div 1000 \in Millionths
         /\ micro - (micro % 1000) = 1000 * (micro \div 1000)
<1>1. micro \in Nat /\ micro < 1000000
  BY MillionthsAre, TenIs, SMT
<1>2. micro \div 1000 \in Nat /\ micro \div 1000 =< 999
  BY <1>1, SMT
<1>3. micro - (micro % 1000) = 1000 * (micro \div 1000)
  BY <1>1, SMT
<1>4. micro \div 1000 < Ten[6]
  BY <1>2, TenIs, SMT
<1>5. QED
  BY <1>2, <1>3, <1>4, MillionthsAre

\* A number of millionths has at most six digits, one of thousandths at most three.
LEMMA DigitsOf ==
  ASSUME NEW v \in Millionths
  PROVE  /\ Digits(v) \in 1..6 /\ v < Ten[Digits(v)]
         /\ v =< 999 => Digits(v) =< 3
<1>0. v \in Nat /\ v < Ten[6]
  BY MillionthsAre
<1>1. \E d \in 1..6 : v < Ten[d] /\ (d = 1 \/ v >= Ten[d - 1])
  <2>1. CASE v < Ten[1]
    BY <2>1
  <2>2. CASE Ten[1] =< v /\ v < Ten[2]
    BY <2>2
  <2>3. CASE Ten[2] =< v /\ v < Ten[3]
    BY <2>3
  <2>4. CASE Ten[3] =< v /\ v < Ten[4]
    BY <2>4
  <2>5. CASE Ten[4] =< v /\ v < Ten[5]
    BY <2>5
  <2>6. CASE Ten[5] =< v /\ v < Ten[6]
    BY <2>6
  <2>7. QED
    BY <1>0, <2>1, <2>2, <2>3, <2>4, <2>5, <2>6, TenTyped
<1>2. Digits(v) \in 1..6 /\ v < Ten[Digits(v)] /\ (Digits(v) = 1 \/ v >= Ten[Digits(v) - 1])
  BY <1>1 DEF Digits
<1>3. ASSUME v =< 999 PROVE Digits(v) =< 3
  BY <1>0, <1>2, <1>3, TenIs
<1>4. QED
  BY <1>2, <1>3

\* A fraction is written no narrower than it was, and of thousandths or millionths
\* read as what was written.
LEMMA FractionBack ==
  ASSUME NEW f \in Fractions, NEW micro \in Millionths
  PROVE  LET g == WriteFraction(f, micro) IN
         /\ g \in Fractions /\ g.width >= f.width
         /\ f.width = 0 <=> g.width = 0
         /\ f.width = 0 => g = f
         /\ f.width # 0 => g.point = "."
         /\ g.width = 0 => ReadFraction(g) = 0
         /\ g.width \in 1..3 => g.value = micro \div 1000
         /\ g.width \in 4..9 => g.value = micro
<1> DEFINE value == IF f.width =< 3 THEN micro \div 1000 ELSE micro
           width == IF f.width > Digits(value) THEN f.width ELSE Digits(value)
           g == WriteFraction(f, micro)
<1>1. /\ f.width \in 0..9 /\ f.value \in Nat /\ f.value < Ten[f.width]
      /\ f = [width |-> f.width, value |-> f.value, point |-> f.point] /\ f.point \in {".", ","}
  BY DEF Fractions
<1>2. /\ micro \div 1000 \in Nat /\ micro \div 1000 =< 999 /\ micro \div 1000 \in Millionths
      /\ micro - (micro % 1000) = 1000 * (micro \div 1000)
  BY Thousands
<1>3. value \in Millionths /\ value \in Nat /\ (f.width =< 3 => value =< 999)
  <2>1. CASE f.width =< 3
    <3>1. value = micro \div 1000
      BY <2>1
    <3> HIDE DEF value
    <3>2. QED
      BY <1>2, <3>1
  <2>2. CASE ~(f.width =< 3)
    <3>1. value = micro
      BY <2>2
    <3>2. micro \in Nat
      BY MillionthsAre
    <3> HIDE DEF value
    <3>3. QED
      BY <2>2, <3>1, <3>2
  <2>3. QED
    BY <2>1, <2>2
<1> HIDE DEF value
<1>4. Digits(value) \in 1..6 /\ value < Ten[Digits(value)] /\ (value =< 999 => Digits(value) =< 3)
  BY <1>3, DigitsOf
<1> DEFINE d == Digits(value)
<1> HIDE DEF d
<1>5. d \in Nat /\ 1 =< d /\ d =< 6 /\ d \in 0..9 /\ value < Ten[d] /\ (value =< 999 => d =< 3)
  BY <1>4 DEF d
<1>6. f.width \in Nat /\ f.width =< 9 /\ f.width \in 0..9
  <2>1. f.width \in 0..9
    BY <1>1
  <2>2. \A n \in 0..9 : n \in Nat /\ n =< 9
    OBVIOUS
  <2>3. QED
    BY <2>1, <2>2
<1>7. /\ width \in Nat /\ 1 =< width /\ width =< 9 /\ width \in 0..9 /\ width >= f.width /\ width >= d
      /\ width = f.width \/ width = d
  BY <1>5, <1>6 DEF d
<1> HIDE DEF width
<1>8. value < Ten[width]
  <2>1. Ten[d] =< Ten[width]
    BY <1>5, <1>7, TenGrows
  <2>2. Ten[d] \in Nat /\ Ten[width] \in Nat
    BY <1>5, <1>7, TenTyped
  <2>3. QED
    BY <1>3, <1>5, <2>1, <2>2
<1>9. g = IF f.width = 0 THEN f ELSE [width |-> width, value |-> value, point |-> "."]
  BY DEF WriteFraction, value, width
<1> HIDE DEF g
<1>10. CASE f.width = 0
  <2>1. g = f
    BY <1>9, <1>10
  <2>2. f.value = 0
    <3>1. f.value \in Nat /\ f.value < Ten[0]
      BY <1>1, <1>10
    <3>2. Ten[0] = 1
      BY TenIs
    <3>3. QED
      BY <3>1, <3>2
  <2>3. Ten[6] = 1000000
    BY TenIs
  <2>4. ReadFraction(f) = 0
    BY <1>10, <2>2, <2>3 DEF ReadFraction
  <2>5. QED
    BY <1>10, <2>1, <2>4 DEF g
<1>11. CASE f.width # 0
  <2>1. g = [width |-> width, value |-> value, point |-> "."]
    BY <1>9, <1>11
  <2>2. g.width = width /\ g.value = value /\ g.point = "." /\ g \in Fractions
    BY <1>3, <1>7, <1>8, <2>1 DEF Fractions
  <2>3. width =< 3 => f.width =< 3
    BY <1>6, <1>7
  <2>4. width > 3 => f.width > 3
    <3>1. f.width =< 3 => d =< 3
      BY <1>3, <1>5
    <3>2. QED
      BY <1>5, <1>6, <1>7, <3>1
  <2>5. width \in 1..3 => value = micro \div 1000
    BY <1>7, <2>3 DEF value
  <2>6. width \in 4..9 => value = micro
    BY <1>6, <1>7, <2>4 DEF value
  <2>7. QED
    BY <1>7, <1>11, <2>2, <2>5, <2>6 DEF g
<1>12. QED
  BY <1>10, <1>11
-------------------------------------------------------------------------------
(* render, form by form. *)

Iso == [form : {"iso"}, wall : Int, frac : Fractions, zone : {NoZone, Zulu} \cup Offsets]
Clf == [form : {"clf"}, wall : Int, zone : Offsets]
Ctf == [form : {"ctf"}, wall : Int]
HealthApp == [form : {"healthapp"}, wall : Int, milli : 0..999]
Epochs == [form : {"epoch", "number"}, unit : {"s", "ms"}, sec : 0..LastNumber, milli : 0..999]
NoYears == [form : {"syslog", "proxifier", "android"}, place : Places, milli : 0..999]

\* The forms of a timestamp, each a set of records of its own.
LEMMA StampIs ==
  ASSUME NEW t
  PROVE  t \in Stamps <=> \/ t \in Iso \/ t \in Clf \/ t \in Ctf \/ t \in HealthApp
                          \/ t \in Epochs \/ t \in NoYears \/ t \in [form : {"none"}]
<1>1. Stamps = Iso \cup Clf \cup Ctf \cup HealthApp \cup Epochs \cup NoYears \cup [form : {"none"}]
  BY Zenon DEF Stamps, Iso, Clf, Ctf, HealthApp, Epochs, NoYears
<1>2. QED
  BY <1>1

\* The form of a timestamp tells its fields.
LEMMA FormIs ==
  ASSUME NEW t \in Stamps
  PROVE  /\ t.form = "iso" => t \in Iso
         /\ t.form = "clf" => t \in Clf
         /\ t.form = "ctf" => t \in Ctf
         /\ t.form = "healthapp" => t \in HealthApp
         /\ t.form \in {"epoch", "number"} => t \in Epochs
         /\ YearInferred(t) => t \in NoYears
         /\ t.form \in {"iso", "clf", "ctf", "healthapp", "epoch", "number", "none"} \/ YearInferred(t)
<1>1. t \in Iso => t.form = "iso"
  BY DEF Iso
<1>2. t \in Clf => t.form = "clf"
  BY DEF Clf
<1>3. t \in Ctf => t.form = "ctf"
  BY DEF Ctf
<1>4. t \in HealthApp => t.form = "healthapp"
  BY DEF HealthApp
<1>5. t \in Epochs => t.form \in {"epoch", "number"}
  BY DEF Epochs
<1>6. t \in NoYears => t.form \in {"syslog", "proxifier", "android"}
  BY DEF NoYears
<1>7. t \in [form : {"none"}] => t.form = "none"
  OBVIOUS
<1>8. QED
  BY <1>1, <1>2, <1>3, <1>4, <1>5, <1>6, <1>7, StampIs DEF YearInferred

\* What a run finds: an epoch in a JSON field need only be later than 1970.
Found(t) == IF t.form = "number" THEN PlausibleNumber(t) ELSE Detected(t)

Sent == [sec : Sendable, micro : Millionths]

\* What an event is sent with.
LEMMA SentIs ==
  ASSUME NEW ts \in Sent
  PROVE  /\ ts = At(ts.sec, ts.micro) /\ ts.sec \in Sendable /\ ts.sec \in Nat /\ ts.micro \in Millionths
         /\ NineDigits =< ts.sec /\ ts.sec =< Horizon /\ ts.sec =< LastEpoch
<1>1. ts = At(ts.sec, ts.micro) /\ ts.sec \in Sendable /\ ts.micro \in Millionths
  BY DEF Sent, At
<1>2. Horizon \in Int /\ Horizon =< LastEpoch - Day
  BY Numerals, TimestampAssumption
<1>3. QED
  BY <1>1, <1>2, Numerals DEF Sendable

\* What is written for a zone is read as the same offset, and without a zone stays so.
LEMMA ZoneBack ==
  ASSUME NEW z \in {NoZone, Zulu} \cup Offsets, ValidOffset(z), NEW loc \in Locals
  PROVE  LET off == ZoneOffset(z, loc)
             new == IF z = NoZone THEN NoZone ELSE IF off = 0 THEN Zulu ELSE OffToToken(off)
         IN  /\ off \in Int /\ new \in {NoZone, Zulu} \cup Offsets /\ ValidOffset(new)
             /\ ZoneOffset(new, loc) = off /\ (new = NoZone <=> z = NoZone)
<1> DEFINE off == ZoneOffset(z, loc)
           new == IF z = NoZone THEN NoZone ELSE IF off = 0 THEN Zulu ELSE OffToToken(off)
<1>1. CASE z = NoZone
  <2>1. loc \in Int
    BY Numerals DEF Locals
  <2>2. off = loc /\ new = NoZone
    BY <1>1 DEF ZoneOffset, NoZone
  <2>3. QED
    BY <1>1, <2>1, <2>2 DEF ValidOffset, NoZone
<1>2. CASE z = Zulu
  <2>1. off = 0 /\ new = Zulu
    BY <1>2 DEF ZoneOffset, ParseOffset, NoZone, Zulu
  <2>2. QED
    BY <1>2, <2>1 DEF ValidOffset, NoZone, Zulu
<1>3. CASE z \in Offsets
  <2> DEFINE back == OffToToken(ParseOffset(z))
  <2>1. /\ ParseOffset(z) \in Int /\ back \in Offsets /\ ValidOffset(back)
        /\ ParseOffset(back) = ParseOffset(z)
    BY <1>3, OffsetBack, Numerals
  <2>2. z.kind = "num" /\ back.kind = "num"
    BY <1>3, <2>1 DEF Offsets
  <2>3. off = ParseOffset(z) /\ z # NoZone /\ back # NoZone
    BY <2>2 DEF ZoneOffset, NoZone
  <2>4. ZoneOffset(back, loc) = off
    BY <2>1, <2>2, <2>3 DEF ZoneOffset
  <2>5. CASE off = 0
    BY <2>3, <2>5 DEF ZoneOffset, ParseOffset, ValidOffset, NoZone, Zulu
  <2>6. CASE off # 0
    <3>1. new = back
      BY <2>3, <2>6
    <3> HIDE DEF back, off, new
    <3>2. QED
      BY <2>1, <2>3, <2>4, <3>1 DEF off, new
  <2>7. QED
    BY <2>5, <2>6
<1>4. QED
  BY <1>1, <1>2, <1>3

\* An ISO date keeps its form, and stands for the instant it was rendered with.
LEMMA RenderIso ==
  ASSUME NEW t \in Iso, ValidOffset(t.zone), NEW ts \in Sent, NEW loc \in Locals
  PROVE  LET u == Render(t, ts, loc)
         IN  /\ u \in Iso /\ ValidOffset(u.zone)
             /\ u.frac = WriteFraction(t.frac, ts.micro)
             /\ u.wall - ZoneOffset(u.zone, loc) = ts.sec
             /\ u.zone = (IF t.zone = NoZone THEN NoZone
                          ELSE IF ZoneOffset(t.zone, loc) = 0 THEN Zulu ELSE OffToToken(ZoneOffset(t.zone, loc)))
             /\ ZoneOffset(u.zone, loc) = ZoneOffset(t.zone, loc)
<1> DEFINE off == ZoneOffset(t.zone, loc)
           zone == IF t.zone = NoZone THEN NoZone ELSE IF off = 0 THEN Zulu ELSE OffToToken(off)
           frac == WriteFraction(t.frac, ts.micro)
           u == Render(t, ts, loc)
<1>1. /\ t.form = "iso" /\ t.frac \in Fractions /\ t.zone \in {NoZone, Zulu} \cup Offsets
      /\ t = [form |-> "iso", wall |-> t.wall, frac |-> t.frac, zone |-> t.zone]
  BY DEF Iso
<1>2. u = [form |-> "iso", wall |-> ts.sec + off, frac |-> frac, zone |-> zone]
  <2>1. u = [t EXCEPT !.wall = ts.sec + off, !.frac = frac, !.zone = zone]
    BY <1>1 DEF Render, YearInferred
  <2>2. QED
    BY <1>1, <2>1
<1>3. off \in Int /\ zone \in {NoZone, Zulu} \cup Offsets /\ ValidOffset(zone) /\ ZoneOffset(zone, loc) = off
  BY <1>1, ZoneBack
<1>4. frac \in Fractions
  BY <1>1, SentIs, FractionBack
<1>5. ts.sec \in Int
  BY SentIs
<1> HIDE DEF off, zone, frac, u
<1>6. u.form = "iso" /\ u.wall = ts.sec + off /\ u.frac = frac /\ u.zone = zone
  BY <1>2
<1>7. u \in Iso
  BY <1>2, <1>3, <1>4, <1>5 DEF Iso
<1>8. u.wall - ZoneOffset(u.zone, loc) = ts.sec
  BY <1>3, <1>5, <1>6
<1>9. QED
  BY <1>3, <1>6, <1>7, <1>8 DEF off, zone, frac, u

\* So does a common log date.
LEMMA RenderClf ==
  ASSUME NEW t \in Clf, ValidOffset(t.zone), NEW ts \in Sent, NEW loc \in Locals
  PROVE  LET u == Render(t, ts, loc)
         IN  /\ u \in Clf /\ ValidOffset(u.zone)
             /\ u.wall - ParseOffset(u.zone) = ts.sec
             /\ u.zone = OffToToken(ParseOffset(t.zone))
             /\ ParseOffset(u.zone) = ParseOffset(t.zone)
<1> DEFINE off == ParseOffset(t.zone)
           zone == OffToToken(off)
           u == Render(t, ts, loc)
<1>1. t.form = "clf" /\ t.zone \in Offsets /\ t = [form |-> "clf", wall |-> t.wall, zone |-> t.zone]
  BY DEF Clf
<1>2. u = [form |-> "clf", wall |-> ts.sec + off, zone |-> zone]
  <2>1. u = [t EXCEPT !.wall = ts.sec + off, !.zone = zone]
    BY <1>1 DEF Render, YearInferred
  <2>2. QED
    BY <1>1, <2>1
<1>3. off \in 0..(Day - 1) /\ zone \in Offsets /\ ValidOffset(zone) /\ ParseOffset(zone) = off
  BY <1>1, OffsetBack
<1>4. ts.sec \in Int
  BY SentIs
<1> HIDE DEF off, zone, u
<1>5. off \in Int
  BY <1>3, Numerals
<1>6. u.wall = ts.sec + off /\ u.zone = zone /\ u \in Clf
  BY <1>2, <1>3, <1>4, <1>5 DEF Clf
<1>7. u.wall - ParseOffset(u.zone) = ts.sec
  BY <1>3, <1>4, <1>5, <1>6
<1>8. QED
  BY <1>3, <1>6, <1>7 DEF off, zone, u

\* Thousandths fit in three digits.
LEMMA Milliseconds ==
  ASSUME NEW micro \in Millionths
  PROVE  micro \div 1000 \in 0..999 /\ (micro \div 1000) * 1000 = micro - (micro % 1000)
<1> DEFINE k == micro \div 1000
           rest == micro - (micro % 1000)
<1>1. k \in Nat /\ k =< 999 /\ rest = 1000 * k
  BY Thousands
<1> HIDE DEF k, rest
<1>2. k \in 0..999 /\ k * 1000 = rest
  BY <1>1
<1>3. QED
  BY <1>2 DEF k, rest

\* An epoch is written as one that is found.
LEMMA RenderEpoch ==
  ASSUME NEW t \in Epochs, Found(t), NEW ts \in Sent, NEW loc \in Locals
  PROVE  LET u == Render(t, ts, loc)
         IN  /\ u \in Epochs /\ Found(u) /\ u.form = t.form /\ u.sec = ts.sec
             /\ u.unit = (IF t.form = "epoch" THEN "s" ELSE "ms")
             /\ u.milli = (IF t.form = "epoch" THEN 0 ELSE ts.micro \div 1000)
<1> DEFINE u == Render(t, ts, loc)
           k == ts.micro \div 1000
<1>1. /\ t.form \in {"epoch", "number"}
      /\ t = [form |-> t.form, unit |-> t.unit, sec |-> t.sec, milli |-> t.milli]
  BY DEF Epochs
<1>2. /\ ts.sec \in Nat /\ NineDigits =< ts.sec /\ ts.sec =< LastEpoch /\ k \in 0..999
      /\ ts.sec \in 0..LastNumber
  BY SentIs, Milliseconds, Numerals
<1> HIDE DEF k
<1>3. CASE t.form = "epoch"
  <2>1. u = [form |-> "epoch", unit |-> "s", sec |-> ts.sec, milli |-> 0]
    <3>1. u = [t EXCEPT !.unit = "s", !.sec = ts.sec, !.milli = 0]
      BY <1>1, <1>3 DEF Render, YearInferred
    <3>2. QED
      BY <1>1, <1>3, <3>1
  <2> HIDE DEF u
  <2>2. u \in Epochs
    BY <1>2, <2>1 DEF Epochs
  <2>3. Plausible(u)
    <3>1. NineDigits \in Int /\ LastEpoch \in Int /\ NineDigits = 100000000
      BY SMT DEF NineDigits, LastEpoch
    <3>2. u.sec \in NineDigits..LastEpoch
      BY <1>2, <2>1, <3>1
    <3>3. QED
      BY <2>1, <3>1, <3>2, SMT DEF Plausible
  <2>4. Found(u)
    BY <2>1, <2>3 DEF Found, Detected
  <2>5. QED
    BY <1>3, <2>1, <2>2, <2>4 DEF u
<1>4. CASE t.form = "number"
  <2>1. u = [form |-> "number", unit |-> "ms", sec |-> ts.sec, milli |-> k]
    <3>1. u = [t EXCEPT !.unit = "ms", !.sec = ts.sec, !.milli = k]
      BY <1>1, <1>4 DEF Render, YearInferred, k
    <3>2. QED
      BY <1>1, <1>4, <3>1
  <2> HIDE DEF u
  <2>2. u \in Epochs
    BY <1>2, <2>1 DEF Epochs
  <2>3. PlausibleNumber(u)
    BY <1>2, <2>1, SMT DEF PlausibleNumber, NineDigits
  <2>4. Found(u)
    BY <2>1, <2>3 DEF Found
  <2>5. QED
    BY <1>4, <2>1, <2>2, <2>4 DEF u, k
<1>5. QED
  BY <1>1, <1>3, <1>4

\* A date without its year is the place of the instant in its year.
LEMMA RenderNoYear ==
  ASSUME NEW t \in NoYears, NEW ts \in Sent, NEW loc \in Locals
  PROVE  LET u == Render(t, ts, loc)
         IN  /\ u \in NoYears /\ u.form = t.form /\ u.place = Place(ts.sec + loc)
             /\ u.milli = (IF t.form = "android" THEN ts.micro \div 1000 ELSE 0)
<1> DEFINE u == Render(t, ts, loc)
           k == IF t.form = "android" THEN ts.micro \div 1000 ELSE 0
           place == Place(ts.sec + loc)
<1>1. /\ t.form \in {"syslog", "proxifier", "android"}
      /\ t = [form |-> t.form, place |-> t.place, milli |-> t.milli]
  BY DEF NoYears
<1>2. ts.micro \div 1000 \in 0..999 /\ ts.sec \in Sendable
  BY SentIs, Milliseconds
<1>3. k \in 0..999
  BY <1>2
<1>4. place \in Places
  <2>1. ts.sec + loc \in Seconds
    BY <1>2, InSeconds
  <2>2. QED
    BY <2>1, PlaceInYear
<1>5. u = [form |-> t.form, place |-> place, milli |-> k]
  <2>1. u = [t EXCEPT !.place = place, !.milli = k]
    BY <1>1 DEF Render, YearInferred
  <2> HIDE DEF k, place, u
  <2>2. QED
    BY <1>1, <2>1
<1> HIDE DEF k, place, u
<1>6. u \in NoYears /\ u.form = t.form /\ u.place = place /\ u.milli = k
  BY <1>1, <1>3, <1>4, <1>5 DEF NoYears
<1>7. QED
  BY <1>6 DEF place, k, u

\* A local date is written in the local zone, of which nothing is written.
LEMMA RenderLocal ==
  ASSUME NEW t \in Ctf \cup HealthApp, NEW ts \in Sent, NEW loc \in Locals
  PROVE  LET u == Render(t, ts, loc)
         IN  /\ t \in Ctf => u \in Ctf
             /\ t \in HealthApp => u \in HealthApp /\ u.milli = ts.micro \div 1000
             /\ u.form = t.form /\ u.wall = ts.sec + loc
<1> DEFINE u == Render(t, ts, loc)
           k == ts.micro \div 1000
<1>1. ts.sec + loc \in Int /\ k \in 0..999
  BY SentIs, InSeconds, Milliseconds
<1> HIDE DEF k
<1>2. ASSUME t \in Ctf PROVE u \in Ctf /\ u.form = t.form /\ u.wall = ts.sec + loc
  <2>1. t.form = "ctf" /\ t = [form |-> "ctf", wall |-> t.wall]
    BY <1>2 DEF Ctf
  <2>2. u = [t EXCEPT !.wall = ts.sec + loc]
    BY <2>1 DEF Render, YearInferred
  <2>3. u = [form |-> "ctf", wall |-> ts.sec + loc]
    BY <2>1, <2>2
  <2>4. QED
    BY <1>1, <2>1, <2>3 DEF Ctf
<1>3. ASSUME t \in HealthApp
      PROVE  u \in HealthApp /\ u.form = t.form /\ u.wall = ts.sec + loc /\ u.milli = k
  <2>1. t.form = "healthapp" /\ t = [form |-> "healthapp", wall |-> t.wall, milli |-> t.milli]
    BY <1>3 DEF HealthApp
  <2>2. u = [t EXCEPT !.wall = ts.sec + loc, !.milli = k]
    BY <2>1 DEF Render, YearInferred, k
  <2> HIDE DEF u
  <2>3. u = [form |-> "healthapp", wall |-> ts.sec + loc, milli |-> k]
    BY <2>1, <2>2
  <2>4. QED
    BY <1>1, <2>1, <2>3 DEF HealthApp
<1>4. QED
  BY <1>2, <1>3 DEF k

\* Whatever is found is written in its own form, and found again.
LEMMA Rendered ==
  ASSUME NEW t \in Stamps, Found(t), NEW ts \in Sent, NEW loc \in Locals
  PROVE  LET u == Render(t, ts, loc) IN u \in Stamps /\ u.form = t.form /\ Found(u)
<1> DEFINE u == Render(t, ts, loc)
<1>1. CASE t.form = "iso"
  <2>1. t \in Iso /\ ValidOffset(t.zone)
    BY <1>1, FormIs DEF Found, Detected
  <2>2. u \in Iso /\ ValidOffset(u.zone)
    BY <2>1, RenderIso
  <2> HIDE DEF u
  <2>3. u.form = "iso"
    BY <2>2 DEF Iso
  <2>4. QED
    BY <1>1, <2>2, <2>3, StampIs DEF u, Found, Detected
<1>2. CASE t.form = "clf"
  <2>1. t \in Clf /\ ValidOffset(t.zone)
    BY <1>2, FormIs DEF Found, Detected
  <2>2. u \in Clf /\ ValidOffset(u.zone)
    BY <2>1, RenderClf
  <2> HIDE DEF u
  <2>3. u.form = "clf"
    BY <2>2 DEF Clf
  <2>4. QED
    BY <1>2, <2>2, <2>3, StampIs DEF u, Found, Detected
<1>3. CASE t.form = "ctf"
  <2>1. t \in Ctf
    BY <1>3, FormIs
  <2>2. u \in Ctf /\ u.form = "ctf"
    BY <1>3, <2>1, RenderLocal
  <2> HIDE DEF u
  <2>3. QED
    BY <1>3, <2>2, StampIs DEF u, Found, Detected
<1>4. CASE t.form = "healthapp"
  <2>1. t \in HealthApp
    BY <1>4, FormIs
  <2>2. u \in HealthApp /\ u.form = "healthapp"
    BY <1>4, <2>1, RenderLocal
  <2> HIDE DEF u
  <2>3. QED
    BY <1>4, <2>2, StampIs DEF u, Found, Detected
<1>5. CASE t.form \in {"epoch", "number"}
  <2>1. t \in Epochs
    BY <1>5, FormIs
  <2>2. u \in Epochs /\ u.form = t.form /\ Found(u)
    BY <2>1, RenderEpoch
  <2>3. QED
    BY <2>2, StampIs
<1>6. CASE YearInferred(t)
  <2>1. t \in NoYears
    BY <1>6, FormIs
  <2>2. u \in NoYears /\ u.form = t.form
    BY <2>1, RenderNoYear
  <2> HIDE DEF u
  <2>3. Found(u)
    BY <1>6, <2>2 DEF Found, Detected, YearInferred
  <2>4. QED
    BY <2>2, <2>3, StampIs DEF u
<1>7. t.form # "none"
  BY DEF Found, Detected
<1>8. QED
  BY <1>1, <1>2, <1>3, <1>4, <1>5, <1>6, <1>7, FormIs

\* The digits of a fraction are read by their place.
LEMMA FractionReadBack ==
  ASSUME NEW t \in Iso, NEW micro \in Millionths, NEW f \in Fractions, t.frac = WriteFraction(f, micro)
  PROVE  ReadFraction(t.frac) = FractionRead(t, micro)
<1> DEFINE g == t.frac
<1>1. /\ g.width = 0 => ReadFraction(g) = 0
      /\ g.width \in 1..3 => g.value = micro \div 1000
      /\ g.width \in 4..9 => g.value = micro
  BY FractionBack
<1>2. g.width \in 0..9 /\ t.form = "iso"
  BY DEF Iso, Fractions
<1>3. FractionRead(t, micro) =
        CASE g.width = 0        -> 0
          [] g.width \in 1..3   -> (micro \div 1000) * Ten[6 - g.width]
          [] g.width \in {4, 5} -> micro * Ten[6 - g.width]
          [] g.width \in 6..9   -> micro \div Ten[g.width - 6]
  BY <1>2 DEF FractionRead
<1> HIDE DEF g
<1>4. CASE g.width = 0
  BY <1>1, <1>3, <1>4 DEF g
<1>5. CASE g.width \in 1..3
  <2>1. ReadFraction(g) = g.value * Ten[6 - g.width]
    BY <1>5 DEF ReadFraction
  <2>2. FractionRead(t, micro) = (micro \div 1000) * Ten[6 - g.width]
    BY <1>3, <1>5
  <2>3. QED
    BY <1>1, <1>5, <2>1, <2>2 DEF g
<1>6. CASE g.width \in {4, 5}
  <2>1. ReadFraction(g) = g.value * Ten[6 - g.width]
    BY <1>6 DEF ReadFraction
  <2>2. FractionRead(t, micro) = micro * Ten[6 - g.width]
    BY <1>3, <1>6
  <2>3. QED
    BY <1>1, <1>6, <2>1, <2>2 DEF g
<1>7. CASE g.width \in 6..9
  <2>1. ReadFraction(g) = g.value \div Ten[g.width - 6]
    BY <1>7 DEF ReadFraction
  <2>2. FractionRead(t, micro) = micro \div Ten[g.width - 6]
    BY <1>3, <1>7
  <2>3. QED
    BY <1>1, <1>7, <2>1, <2>2 DEF g
<1>8. QED
  BY <1>2, <1>4, <1>5, <1>6, <1>7

\* A rendered date with its year, or epoch, is read as the second it was rendered with, or
\* that of the local zone.
LEMMA ReadBack ==
  ASSUME NEW t \in Stamps, Found(t), NEW ts \in Sent, NEW loc \in Locals, NEW at,
         ~YearInferred(Render(t, ts, loc))
  PROVE  LET u == Render(t, ts, loc) IN Instant(u, at, loc) = ReadsAs(u, ts, at, loc)
<1> DEFINE u == Render(t, ts, loc)
<1>1. u \in Stamps /\ u.form = t.form /\ Found(u)
  BY Rendered
<1>2. ts.sec \in Nat /\ ts.micro \in Millionths
  BY SentIs
<1>3. CASE t.form = "iso"
  <2>1. t \in Iso /\ ValidOffset(t.zone)
    BY <1>3, FormIs DEF Found, Detected
  <2>2. /\ u.frac = WriteFraction(t.frac, ts.micro) /\ u \in Iso
        /\ u.wall - ZoneOffset(u.zone, loc) = ts.sec
    BY <2>1, RenderIso
  <2>3. t.frac \in Fractions
    BY <2>1 DEF Iso
  <2> HIDE DEF u
  <2>4. ReadFraction(u.frac) = FractionRead(u, ts.micro)
    BY <1>2, <2>2, <2>3, FractionReadBack
  <2>5. Instant(u, at, loc) = At(ts.sec, ReadFraction(u.frac))
    BY <1>1, <1>3, <2>2 DEF Instant
  <2>6. SecondRead(u, ts.sec, at, loc) = ts.sec
    BY <1>1, <1>3 DEF SecondRead, YearInferred
  <2>7. QED
    BY <2>4, <2>5, <2>6 DEF ReadsAs, u
<1>4. CASE t.form = "clf"
  <2>1. t \in Clf /\ ValidOffset(t.zone)
    BY <1>4, FormIs DEF Found, Detected
  <2>2. u.wall - ParseOffset(u.zone) = ts.sec
    BY <2>1, RenderClf
  <2> HIDE DEF u
  <2>3. Instant(u, at, loc) = At(ts.sec, 0)
    BY <1>1, <1>4, <2>2 DEF Instant
  <2>4. SecondRead(u, ts.sec, at, loc) = ts.sec /\ FractionRead(u, ts.micro) = 0
    BY <1>1, <1>4 DEF SecondRead, FractionRead, YearInferred
  <2>5. QED
    BY <2>3, <2>4 DEF ReadsAs, u
<1>5. CASE t.form \in {"epoch", "number"}
  <2>1. t \in Epochs
    BY <1>5, FormIs
  <2>2. u.sec = ts.sec /\ u.milli = (IF t.form = "epoch" THEN 0 ELSE ts.micro \div 1000)
    BY <2>1, RenderEpoch
  <2> HIDE DEF u
  <2>3. Instant(u, at, loc) = At(ts.sec, u.milli * 1000)
    BY <1>1, <1>5, <2>2 DEF Instant
  <2>4. SecondRead(u, ts.sec, at, loc) = ts.sec
    BY <1>1, <1>5 DEF SecondRead, YearInferred
  <2>5. FractionRead(u, ts.micro) = u.milli * 1000
    <3>1. CASE t.form = "epoch"
      <4>1. FractionRead(u, ts.micro) = 0
        BY <1>1, <3>1 DEF FractionRead
      <4>2. QED
        BY <2>2, <3>1, <4>1
    <3>2. CASE t.form = "number"
      <4>1. FractionRead(u, ts.micro) = ts.micro - (ts.micro % 1000)
        BY <1>1, <3>2 DEF FractionRead
      <4>2. u.milli * 1000 = ts.micro - (ts.micro % 1000)
        BY <1>2, <2>2, <3>2, Milliseconds
      <4>3. QED
        BY <4>1, <4>2
    <3>3. QED
      BY <1>5, <3>1, <3>2
  <2>6. QED
    BY <2>3, <2>4, <2>5 DEF ReadsAs, u
<1>6. CASE t.form \in {"ctf", "healthapp"}
  <2>1. t \in Ctf \cup HealthApp /\ (t.form = "healthapp" => t \in HealthApp)
    BY <1>6, FormIs
  <2>2. u.wall = ts.sec + loc /\ (t.form = "healthapp" => u.milli = ts.micro \div 1000)
    BY <2>1, RenderLocal
  <2> HIDE DEF u
  <2>3. SecondRead(u, ts.sec, at, loc) = ts.sec + loc
    BY <1>1, <1>6 DEF SecondRead, YearInferred
  <2>4. CASE t.form = "ctf"
    <3>1. Instant(u, at, loc) = At(ts.sec + loc, 0)
      BY <1>1, <2>2, <2>4 DEF Instant
    <3>2. FractionRead(u, ts.micro) = 0
      BY <1>1, <2>4 DEF FractionRead
    <3>3. QED
      BY <2>3, <3>1, <3>2 DEF ReadsAs, u
  <2>5. CASE t.form = "healthapp"
    <3>1. Instant(u, at, loc) = At(ts.sec + loc, u.milli * 1000)
      BY <1>1, <2>2, <2>5 DEF Instant
    <3>2. FractionRead(u, ts.micro) = ts.micro - (ts.micro % 1000)
      BY <1>1, <2>5 DEF FractionRead
    <3>3. u.milli * 1000 = ts.micro - (ts.micro % 1000)
      BY <1>2, <2>2, <2>5, Milliseconds
    <3>4. QED
      BY <2>3, <3>1, <3>2, <3>3 DEF ReadsAs, u
  <2>6. QED
    BY <1>6, <2>4, <2>5
<1>7. ~YearInferred(t) /\ t.form # "none"
  BY <1>1 DEF YearInferred, Found, Detected
<1>8. QED
  BY <1>1, <1>3, <1>4, <1>5, <1>6, <1>7, FormIs

\* A date without its year is read as that second for 364 days, or as a year early.
LEMMA YearReadBack ==
  ASSUME NEW t \in Stamps, Found(t), NEW ts \in Sent, NEW loc \in Locals, NEW at \in Sendable,
         YearInferred(Render(t, ts, loc)), ts.sec =< at, at - ts.sec < 364 * Day
  PROVE  LET u == Render(t, ts, loc) IN Instant(u, at, loc) = ReadsAs(u, ts, at, loc)
<1> DEFINE u == Render(t, ts, loc)
           y == YearOf(ts.sec + loc)
           early == ts.sec - (YearStart(y) - YearStart(y - 1))
<1>1. u.form = t.form
  BY Rendered
<1>2. t \in NoYears
  BY <1>1, FormIs DEF YearInferred
<1>3. u.place = Place(ts.sec + loc) /\ u.milli = (IF t.form = "android" THEN ts.micro \div 1000 ELSE 0)
  BY <1>2, RenderNoYear
<1>4. ts.sec \in Sendable /\ ts.micro \in Millionths
  BY SentIs
<1>5. ResolveNoYear(Place(ts.sec + loc), at, loc) = IF y > YearOf(at) THEN early ELSE ts.sec
  <2>1. ts.sec + loc \in Seconds /\ at \in Seconds
    BY <1>4, InSeconds
  <2>2. y \in Int /\ YearOf(at) \in Int
    BY <2>1, YearFound DEF Years
  <2>3. CASE y > YearOf(at)
    BY <1>4, <2>3, YearEarly
  <2>4. CASE y =< YearOf(at)
    <3>1. ~(y > YearOf(at))
      BY <2>2, <2>4
    <3>2. QED
      BY <1>4, <2>4, <3>1, YearBack
  <2>5. QED
    BY <2>2, <2>3, <2>4
<1> HIDE DEF u, y, early
<1>6. YearInferred(u) /\ u.form \notin {"iso", "clf", "ctf", "healthapp", "epoch", "number"}
  BY DEF u, YearInferred
<1>7. Instant(u, at, loc) = At(ResolveNoYear(u.place, at, loc), u.milli * 1000)
  BY <1>6 DEF YearInferred, Instant
<1>8. SecondRead(u, ts.sec, at, loc) = IF y > YearOf(at) THEN early ELSE ts.sec
  BY <1>6 DEF SecondRead, y, early
<1>9. FractionRead(u, ts.micro) = u.milli * 1000
  <2>1. CASE t.form = "android"
    <3>1. FractionRead(u, ts.micro) = ts.micro - (ts.micro % 1000)
      BY <1>1, <2>1 DEF FractionRead
    <3>2. u.milli * 1000 = ts.micro - (ts.micro % 1000)
      BY <1>3, <1>4, <2>1, Milliseconds
    <3>3. QED
      BY <3>1, <3>2
  <2>2. CASE t.form # "android"
    <3>1. FractionRead(u, ts.micro) = 0
      BY <1>1, <1>6, <2>2 DEF FractionRead
    <3>2. QED
      BY <1>3, <2>2, <3>1
  <2>3. QED
    BY <2>1, <2>2
<1>10. Instant(u, at, loc) = ReadsAs(u, ts, at, loc)
  BY <1>3, <1>5, <1>7, <1>8, <1>9 DEF ReadsAs
<1>11. QED
  BY <1>10 DEF u

SameFormat(old, new) ==
  IF old.form = "iso" THEN new.width >= old.width /\ [new EXCEPT !.width = old.width] = old
  ELSE new = old

\* The program is at peace with its own output.
LEMMA PeaceAgain ==
  ASSUME NEW t \in Stamps, Found(t), NEW ts \in Sent, NEW loc \in Locals, NEW next \in Sent
  PROVE  LET u == Render(t, ts, loc) IN SameFormat(Format(u), Format(Render(u, next, loc)))
<1> DEFINE u == Render(t, ts, loc)
           v == Render(u, next, loc)
<1>1. u \in Stamps /\ u.form = t.form /\ Found(u)
  BY Rendered
<1> HIDE DEF u
<1>2. v.form = u.form
  BY <1>1, Rendered
<1> HIDE DEF v
<1>3. CASE t.form = "iso"
  <2>1. t \in Iso /\ ValidOffset(t.zone) /\ u \in Iso /\ ValidOffset(u.zone)
    BY <1>1, <1>3, FormIs DEF Found, Detected
  <2>2. /\ u.frac = WriteFraction(t.frac, ts.micro)
        /\ u.zone = (IF t.zone = NoZone THEN NoZone
                     ELSE IF ZoneOffset(t.zone, loc) = 0 THEN Zulu ELSE OffToToken(ZoneOffset(t.zone, loc)))
        /\ ZoneOffset(u.zone, loc) = ZoneOffset(t.zone, loc)
    BY <2>1, RenderIso DEF u
  <2>3. /\ v.frac = WriteFraction(u.frac, next.micro)
        /\ v.zone = (IF u.zone = NoZone THEN NoZone
                     ELSE IF ZoneOffset(u.zone, loc) = 0 THEN Zulu ELSE OffToToken(ZoneOffset(u.zone, loc)))
    BY <2>1, RenderIso DEF v
  <2>4. t.frac \in Fractions /\ u.frac \in Fractions /\ ts.micro \in Millionths /\ next.micro \in Millionths
    BY <2>1, SentIs DEF Iso
  <2>5. /\ u.frac.width = 0 <=> t.frac.width = 0
        /\ t.frac.width # 0 => u.frac.point = "."
    BY <2>2, <2>4, FractionBack
  <2>6. /\ v.frac.width >= u.frac.width
        /\ u.frac.width = 0 => v.frac = u.frac
        /\ u.frac.width # 0 => v.frac.point = "."
    BY <2>3, <2>4, FractionBack
  <2>7. v.frac.point = u.frac.point
    BY <2>5, <2>6
  <2>8. v.zone = u.zone
    <3>1. u.zone = NoZone <=> t.zone = NoZone
      <4>1. t.zone \in {NoZone, Zulu} \cup Offsets
        BY <2>1 DEF Iso
      <4>2. QED
        BY <2>1, <2>2, <4>1, ZoneBack
    <3>2. QED
      BY <2>2, <2>3, <3>1
  <2>9. Format(u) = [form |-> "iso", zone |-> u.zone, width |-> u.frac.width, point |-> u.frac.point]
    BY <1>1, <1>3 DEF Format
  <2>10. Format(v) = [form |-> "iso", zone |-> u.zone, width |-> v.frac.width, point |-> u.frac.point]
    BY <1>1, <1>2, <1>3, <2>7, <2>8 DEF Format
  <2>11. QED
    BY <2>6, <2>9, <2>10 DEF SameFormat, u, v
<1>4. CASE t.form = "clf"
  <2>1. t \in Clf /\ ValidOffset(t.zone) /\ u \in Clf /\ ValidOffset(u.zone)
    BY <1>1, <1>4, FormIs DEF Found, Detected
  <2>2. u.zone = OffToToken(ParseOffset(t.zone)) /\ ParseOffset(u.zone) = ParseOffset(t.zone)
    BY <2>1, RenderClf DEF u
  <2>3. v.zone = OffToToken(ParseOffset(u.zone))
    BY <2>1, RenderClf DEF v
  <2>4. Format(u) = [form |-> "clf", zone |-> u.zone] /\ Format(v) = [form |-> "clf", zone |-> u.zone]
    BY <1>1, <1>2, <1>4, <2>2, <2>3 DEF Format
  <2>5. QED
    BY <2>4 DEF SameFormat, u, v
<1>5. CASE t.form \in {"epoch", "number"}
  <2>1. t \in Epochs /\ u \in Epochs
    BY <1>1, <1>5, FormIs
  <2>2. u.unit = (IF t.form = "epoch" THEN "s" ELSE "ms")
    BY <2>1, RenderEpoch DEF u
  <2>3. v.unit = (IF u.form = "epoch" THEN "s" ELSE "ms")
    BY <1>1, <2>1, RenderEpoch DEF v
  <2>4. Format(u) = [form |-> t.form, unit |-> u.unit] /\ Format(v) = [form |-> t.form, unit |-> u.unit]
    BY <1>1, <1>2, <1>5, <2>2, <2>3 DEF Format
  <2>5. QED
    BY <1>5, <2>4 DEF SameFormat, u, v
<1>6. CASE t.form \notin {"iso", "clf", "epoch", "number"}
  <2>1. Format(u) = [form |-> t.form] /\ Format(v) = [form |-> t.form]
    BY <1>1, <1>2, <1>6 DEF Format
  <2>2. QED
    BY <1>6, <2>1 DEF SameFormat, u, v
<1>7. QED
  BY <1>3, <1>4, <1>5, <1>6
-------------------------------------------------------------------------------
(* The recent window. *)

\* Every instant drawn is in the window, and no older than an epoch of nine digits.
LEMMA DrawnInWindow ==
  ASSUME NEW w \in Windows, NEW loc \in Locals, NEW at \in Sendable, 1000000000 =< at,
         w.kind = "seconds" => at - w.seconds >= NineDigits,
         NEW ts \in Drawn(WindowStart(w, at, loc), at)
  PROVE  /\ ts \in Sent /\ ts.sec =< at
         /\ w.kind = "today" => (ts.sec + loc) \div Day = (at + loc) \div Day
         /\ w.kind = "now" => at - ts.sec =< 3600
         /\ w.kind = "seconds" => at - ts.sec =< w.seconds
<1> DEFINE start == WindowStart(w, at, loc)
           rest == (at + loc) % Day
           q == (at + loc) \div Day
<1>1. /\ at \in Int /\ loc \in Int /\ at =< Horizon /\ Horizon \in Int
  BY Numerals, TimestampAssumption DEF Sendable, Locals
<1>2. rest \in Int /\ rest >= 0 /\ rest < Day /\ at + loc = Day * q + rest /\ q \in Int
  <2>1. at + loc \in Int
    BY <1>1
  <2>2. QED
    BY <2>1, SplitDay
<1>3. /\ w.kind \in {"today", "now", "seconds"}
      /\ w.kind = "seconds" => w.seconds \in Nat
  <2>1. \/ w \in [kind : {"today", "now"}]
        \/ w \in [kind : {"seconds"}, seconds : 0..Horizon]
    BY TimestampAssumption
  <2>2. CASE w \in [kind : {"today", "now"}]
    BY <2>2
  <2>3. CASE w \in [kind : {"seconds"}, seconds : 0..Horizon]
    BY <1>1, <2>3
  <2>4. QED
    BY <2>1, <2>2, <2>3
<1>4. start = CASE w.kind = "today" -> at - rest [] w.kind = "now" -> at - 3600 [] w.kind = "seconds" -> at - w.seconds
  BY DEF WindowStart
<1> HIDE DEF start, rest, q
<1>5. /\ w.kind = "today" => start = at - rest
      /\ w.kind = "now" => start = at - 3600
      /\ w.kind = "seconds" => start = at - w.seconds
  BY <1>4
<1>6. start \in Int /\ NineDigits =< start /\ start =< at
  <2>1. CASE w.kind = "today"
    <3>1. start = at - rest
      BY <1>5, <2>1
    <3>2. NineDigits \in Int /\ Day \in Int /\ NineDigits + 1000 * Day < 1000000000 /\ Day >= 0
      BY Numerals
    <3>3. QED
      BY <1>1, <1>2, <3>1, <3>2
  <2>2. CASE w.kind = "now"
    BY <1>1, <1>5, <2>2, SMT DEF NineDigits
  <2>3. CASE w.kind = "seconds"
    BY <1>1, <1>3, <1>5, <2>3
  <2>4. QED
    BY <1>3, <2>1, <2>2, <2>3
<1>7. /\ ts = At(ts.sec, ts.micro) /\ ts.micro \in Millionths
      /\ ts.sec \in Int /\ start =< ts.sec /\ ts.sec =< at
  <2>1. CASE start = at
    <3>1. ts = At(at, 0)
      BY <2>1 DEF Drawn, start
    <3>2. 0 \in Millionths
      BY TimestampAssumption
    <3>3. QED
      BY <1>1, <2>1, <3>1, <3>2 DEF At
  <2>2. CASE start # at
    <3> DEFINE middle == (start \div 2) + (at \div 2)
    <3>1. PICK s \in {start, middle, at - 1}, u \in Micros : ts = At(s, u)
      BY <2>2 DEF Drawn, start
    <3>2. middle \in Int /\ start =< middle /\ middle =< at
      BY <1>1, <1>6, <2>2
    <3> HIDE DEF middle
    <3>3. s \in Int /\ start =< s /\ s =< at
      BY <1>1, <1>6, <2>2, <3>2
    <3>4. u \in Millionths
      BY TimestampAssumption
    <3>5. ts.sec = s /\ ts.micro = u
      BY <3>1 DEF At
    <3>6. QED
      BY <3>1, <3>3, <3>4, <3>5
  <2>3. QED
    BY <2>1, <2>2
<1>8. ts \in Sent
  <2>1. NineDigits \in Int
    BY Numerals
  <2>2. ts.sec \in NineDigits..Horizon
    BY <1>1, <1>6, <1>7, <2>1
  <2>3. ts = [sec |-> ts.sec, micro |-> ts.micro]
    BY <1>7 DEF At
  <2>4. QED
    BY <1>7, <2>2, <2>3 DEF Sent, Sendable
<1>9. ASSUME w.kind = "today" PROVE (ts.sec + loc) \div Day = (at + loc) \div Day
  <2> DEFINE day == (ts.sec + loc) \div Day
             left == (ts.sec + loc) % Day
  <2>1. left \in Int /\ left >= 0 /\ left < Day /\ ts.sec + loc = Day * day + left /\ day \in Int
    <3>1. ts.sec + loc \in Int
      BY <1>1, <1>7
    <3>2. QED
      BY <3>1, SplitDay
  <2>2. start = at - rest
    BY <1>5, <1>9
  <2> HIDE DEF day, left
  <2>3. day = q
    BY <1>1, <1>2, <1>7, <2>1, <2>2 DEF Day
  <2>4. QED
    BY <2>3 DEF day, q
<1>10. QED
  BY <1>1, <1>3, <1>5, <1>7, <1>8, <1>9
-------------------------------------------------------------------------------
(* The invariant. *)

Records == [where : {"plain", "field", "other"}, ts : Stamps, words : SUBSET Keywords]

Typed ==
  /\ local \in LocalOffsets /\ window \in Windows /\ runs \in 0..Runs /\ mode \in {"replay", "synthetic"}
  /\ now \in Int /\ 1000000000 =< now /\ now =< Horizon /\ anchor \in Int /\ 1000000000 =< anchor /\ anchor =< now
  /\ event \in [timestamp : Sent \cup {NoTimestamp}, ts_detected : BOOLEAN, ts_year_inferred : BOOLEAN]
  /\ event.ts_year_inferred => event.ts_detected
  /\ line \in Records

\* The window never reaches back before epochs of nine digits.
Reach == window.kind = "seconds" => now - window.seconds >= NineDigits

\* The line is one that was found, with the timestamp of the event in its place.
Written ==
  Rewritten =>
    /\ event.timestamp \in Sent /\ Transformable(line)
    /\ \E t \in Stamps : Found(t) /\ line.ts = Render(t, event.timestamp, local)

Inv == Typed /\ Reach /\ Written /\ InWindow /\ NeverSkipped

\* A line stays transformable when another timestamp of the same form takes the place of its own.
LEMMA TransformableFound ==
  ASSUME NEW l \in Records
  PROVE  /\ Transformable(l) => Found(l.ts)
         /\ \A u : Transformable(l) /\ u.form = l.ts.form /\ Found(u) => Transformable([l EXCEPT !.ts = u])
<1>1. Transformable(l) => Found(l.ts)
  <2>1. CASE l.ts.form = "number"
    <3>1. ~Detected(l.ts)
      BY <2>1 DEF Detected
    <3>2. QED
      BY <2>1, <3>1 DEF Transformable, InField, InLine, Found
  <2>2. CASE l.ts.form # "number"
    BY <2>2 DEF Transformable, InField, InLine, Found
  <2>3. QED
    BY <2>1, <2>2
<1>2. ASSUME NEW u, Transformable(l), u.form = l.ts.form, Found(u)
      PROVE  Transformable([l EXCEPT !.ts = u])
  <2> DEFINE m == [l EXCEPT !.ts = u]
  <2>1. m.ts = u /\ m.where = l.where
    BY DEF Records
  <2> HIDE DEF m
  <2>2. CASE l.ts.form = "number"
    <3>1. ~Detected(l.ts)
      BY <2>2 DEF Detected
    <3>2. l.where = "field" /\ PlausibleNumber(u)
      BY <1>2, <2>2, <3>1 DEF Transformable, InField, InLine, Found
    <3>3. InField(m)
      BY <1>2, <2>1, <2>2, <3>2 DEF InField
    <3>4. QED
      BY <3>3 DEF Transformable, m
  <2>3. CASE l.ts.form # "number"
    <3>1. Detected(u)
      BY <1>2, <2>3 DEF Found
    <3>2. InField(l) => InField(m)
      BY <1>2, <2>1, <2>3, <3>1 DEF InField
    <3>3. InLine(l) => InLine(m)
      BY <1>2, <2>1, <3>1 DEF InLine
    <3>4. QED
      BY <1>2, <3>2, <3>3 DEF Transformable, m
  <2>4. QED
    BY <2>2, <2>3 DEF m
<1>3. QED
  BY <1>1, <1>2

\* The times of a state are in the ranges of the lemmas above.
LEMMA LocalIs ==
  ASSUME Typed
  PROVE  local \in Locals /\ now \in Sendable /\ anchor \in Sendable
<1>1. local \in Locals
  BY TimestampAssumption DEF Typed, Locals
<1>2. NineDigits \in Int /\ NineDigits < 1000000000 /\ Horizon \in Int
  BY Numerals, TimestampAssumption
<1>3. QED
  BY <1>1, <1>2 DEF Typed, Sendable

\* It holds at first.
LEMMA InitInv == Init => Inv
<1> SUFFICES ASSUME Init PROVE Inv
  OBVIOUS
<1>1. /\ event.timestamp = NoTimestamp /\ ~Rewritten
      /\ event = [timestamp |-> NoTimestamp, ts_detected |-> FALSE, ts_year_inferred |-> FALSE]
  BY DEF Init, Rewritten
<1>2. line \in Records
  BY TimestampAssumption, WireAssumption DEF Init, Records
<1>3. now \in Int /\ 1000000000 =< now /\ now =< Horizon
  <2>1. Horizon \in Int /\ now \in 1000000000..Horizon
    BY Numerals, TimestampAssumption DEF Init
  <2>2. QED
    BY <2>1
<1>4. 0 \in 0..Runs
  BY TimestampAssumption
<1>5. Typed
  BY <1>1, <1>2, <1>3, <1>4 DEF Init, Typed
<1>6. Reach
  BY TimestampAssumption DEF Init, Reach
<1>7. QED
  BY <1>1, <1>5, <1>6 DEF Inv, Written, InWindow, NeverSkipped

\* What an event is told of its line.
LEMMA BuiltIs ==
  ASSUME Typed, NEW ts
  PROVE  /\ Built(ts).timestamp = ts /\ Built(ts).ts_detected = InLine(line)
         /\ Built(ts) \in [timestamp : {ts}, ts_detected : BOOLEAN, ts_year_inferred : BOOLEAN]
         /\ Built(ts).ts_year_inferred => Built(ts).ts_detected
<1>1. InLine(line) \in BOOLEAN /\ (InLine(line) /\ YearInferred(line.ts)) \in BOOLEAN
  BY DEF InLine
<1>2. QED
  BY <1>1 DEF Built

\* A run that leaves the line alone sends the event undated.
LEMMA UndatedKeeps ==
  ASSUME Inv, NEW m \in {"replay", "synthetic"}, Start(m), event' = Built(NoTimestamp), UNCHANGED line,
         m = "synthetic" => ~InLine(line)
  PROVE  Inv'
<1>1. ~Rewritten'
  BY BuiltIs DEF Inv, Rewritten
<1>2. Typed'
  <2>1. runs' \in 0..Runs
    BY TimestampAssumption DEF Inv, Typed, Start
  <2>2. event' \in [timestamp : Sent \cup {NoTimestamp}, ts_detected : BOOLEAN, ts_year_inferred : BOOLEAN]
    BY BuiltIs DEF Inv
  <2>3. event'.ts_year_inferred => event'.ts_detected
    BY BuiltIs DEF Inv
  <2>4. QED
    BY <2>1, <2>2, <2>3 DEF Inv, Typed, Start
<1>3. Reach'
  BY DEF Inv, Reach, Start
<1>4. NeverSkipped'
  BY BuiltIs DEF Inv, NeverSkipped, Start
<1>5. QED
  BY <1>1, <1>2, <1>3, <1>4 DEF Inv, Written, InWindow

\* A run that rewrites the line leaves what was written as it says.
LEMMA RewriteKeeps ==
  ASSUME Inv, NEW ts \in Drawn(WindowStart(window, now, local), now), Rewrite(ts)
  PROVE  Inv'
<1>1. local \in Locals /\ now \in Sendable /\ window \in Windows /\ 1000000000 =< now /\ line \in Records
  BY LocalIs DEF Inv, Typed
<1>2. /\ ts \in Sent /\ ts.sec =< now
      /\ window.kind = "today" => (ts.sec + local) \div Day = (now + local) \div Day
      /\ window.kind = "now" => now - ts.sec =< 3600
      /\ window.kind = "seconds" => now - ts.sec =< window.seconds
  BY <1>1, DrawnInWindow DEF Inv, Reach
<1>3. event'.timestamp = ts /\ anchor' = now /\ local' = local /\ window' = window /\ now' = now
  BY BuiltIs DEF Inv, Rewrite, Start
<1>4. Rewritten'
  <2>1. ts.sec \in Nat
    BY <1>2, SentIs
  <2>2. NoTimestamp.sec = -1
    BY DEF NoTimestamp, At
  <2>3. QED
    BY <1>3, <2>1, <2>2 DEF Rewritten
<1> DEFINE u == Render(line.ts, ts, local)
<1>5. Found(line.ts) /\ line.ts \in Stamps
  BY <1>1, TransformableFound DEF Rewrite, Records
<1>6. u \in Stamps /\ u.form = line.ts.form /\ Found(u)
  BY <1>1, <1>2, <1>5, Rendered
<1>7. line' = [line EXCEPT !.ts = u]
  BY DEF Rewrite
<1> HIDE DEF u
<1>8. line' \in Records /\ line'.ts = u
  BY <1>1, <1>6, <1>7 DEF Records
<1>9. Transformable(line')
  BY <1>1, <1>6, <1>7, TransformableFound DEF Rewrite
<1>10. Typed'
  <2>1. runs' \in 0..Runs
    BY TimestampAssumption DEF Inv, Typed, Rewrite, Start
  <2>2. event' \in [timestamp : Sent \cup {NoTimestamp}, ts_detected : BOOLEAN, ts_year_inferred : BOOLEAN]
    BY <1>2, BuiltIs DEF Inv, Rewrite
  <2>3. event'.ts_year_inferred => event'.ts_detected
    BY BuiltIs DEF Inv, Rewrite
  <2>4. QED
    BY <1>8, <2>1, <2>2, <2>3 DEF Inv, Typed, Rewrite, Start
<1>11. Written'
  BY <1>2, <1>3, <1>5, <1>8, <1>9 DEF Written, u
<1>12. InWindow'
  BY <1>2, <1>3 DEF InWindow
<1>13. QED
  BY <1>3, <1>4, <1>10, <1>11, <1>12 DEF Inv, Reach, NeverSkipped

\* Every step keeps it.
LEMMA NextInv == Inv /\ [Next]_vars => Inv'
<1> SUFFICES ASSUME Inv, [Next]_vars PROVE Inv'
  OBVIOUS
<1>1. ASSUME Replay PROVE Inv'
  BY <1>1, UndatedKeeps DEF Replay
<1>2. ASSUME NEW ts \in Drawn(WindowStart(window, now, local), now), Rewrite(ts) PROVE Inv'
  BY <1>2, RewriteKeeps
<1>3. ASSUME PassThrough PROVE Inv'
  <2>1. ~InLine(line)
    BY <1>3 DEF PassThrough, Transformable
  <2>2. QED
    BY <1>3, <2>1, UndatedKeeps DEF PassThrough
<1>4. ASSUME NEW a \in Ages, Age(a) PROVE Inv'
  <2>1. a \in Nat /\ Horizon \in Int
    BY Numerals, TimestampAssumption
  <2>2. Typed'
    BY <1>4, <2>1 DEF Inv, Typed, Age
  <2>3. Reach'
    <3>1. CASE window.kind = "seconds"
      <4>1. window.seconds \in Int /\ NineDigits \in Int
        BY <2>1, <3>1, Numerals, TimestampAssumption DEF Inv, Typed
      <4>2. QED
        BY <1>4, <2>1, <4>1 DEF Inv, Typed, Reach, Age
    <3>2. CASE window.kind # "seconds"
      BY <1>4, <3>2 DEF Reach, Age
    <3>3. QED
      BY <3>1, <3>2
  <2>4. QED
    BY <1>4, <2>2, <2>3 DEF Inv, Written, InWindow, NeverSkipped, Rewritten, Age, Transformable, InField, InLine
<1>5. ASSUME UNCHANGED vars PROVE Inv'
  BY <1>5 DEF vars, Inv, Typed, Reach, Written, InWindow, NeverSkipped, Rewritten
<1>6. QED
  BY <1>1, <1>2, <1>3, <1>4, <1>5 DEF Next, Finished

\* The invariant holds in every reachable state.
THEOREM InvAlways == Spec => []Inv
<1>1. Init => Inv
  BY InitInv
<1>2. Inv /\ [Next]_vars => Inv'
  BY NextInv
<1>3. QED
  BY <1>1, <1>2, PTL DEF Spec
-------------------------------------------------------------------------------
(* The theorems. *)

\* Every line that a run leaves has a timestamp of one of the formats.
THEOREM TimestampTypeCorrect == Spec => []TypeOK
<1>1. Inv => TypeOK
  <2> SUFFICES ASSUME Inv PROVE TypeOK
    OBVIOUS
  <2>1. Horizon \in Int /\ -1 \in -1..Horizon /\ NineDigits \in Nat /\ 0 \in Millionths
    <3>1. Horizon \in Int /\ Horizon >= Day /\ Day \in Nat /\ NineDigits \in Nat
      BY Numerals, TimestampAssumption
    <3>2. QED
      BY <3>1, TimestampAssumption
  <2>2. event.timestamp \in [sec : -1..Horizon, micro : Millionths]
    <3>1. CASE event.timestamp \in Sent
      <4>1. event.timestamp.sec \in -1..Horizon
        BY <2>1, <3>1, SentIs
      <4>2. QED
        BY <3>1, <4>1, SentIs DEF At
    <3>2. CASE event.timestamp = NoTimestamp
      BY <2>1, <3>2 DEF NoTimestamp, At
    <3>3. QED
      BY <3>1, <3>2 DEF Inv, Typed
  <2>3. now \in 0..Horizon /\ anchor \in 0..now
    BY <2>1 DEF Inv, Typed
  <2>4. QED
    BY <2>2, <2>3 DEF Inv, Typed, Records, TypeOK
<1>2. QED
  BY <1>1, InvAlways, PTL

\* What the invariant says of a line that was written.
LEMMA Rewrote ==
  ASSUME Inv, Rewritten
  PROVE  /\ event.timestamp \in Sent /\ line.ts \in Stamps /\ Found(line.ts) /\ Transformable(line)
         /\ \E t \in Stamps : Found(t) /\ line.ts = Render(t, event.timestamp, local)
         /\ local \in Locals /\ now \in Sendable
<1>1. /\ event.timestamp \in Sent /\ Transformable(line)
      /\ \E t \in Stamps : Found(t) /\ line.ts = Render(t, event.timestamp, local)
  BY DEF Inv, Written
<1>2. local \in Locals /\ now \in Sendable
  BY LocalIs DEF Inv
<1>3. line.ts \in Stamps /\ Found(line.ts)
  BY <1>1, <1>2, Rendered
<1>4. QED
  BY <1>1, <1>2, <1>3

\* What a run writes, in any form, is found again and read as the second the event was sent
\* with, but for local dates without a zone and the hours of a local new year, which are off
\* by the offset of the zone and by a year; a date without its year for 364 days.
THEOREM ReadsBackAlways == Spec => []ReadsBack
<1>1. Inv => InstantReadsBack
  <2> SUFFICES ASSUME Inv, Rewritten, ~YearInferred(line.ts)
               PROVE  /\ Transformable(line)
                      /\ Instant(line.ts, now, local) = ReadsAs(line.ts, event.timestamp, now, local)
    BY DEF InstantReadsBack
  <2>1. PICK t \in Stamps : Found(t) /\ line.ts = Render(t, event.timestamp, local)
    BY Rewrote
  <2>2. event.timestamp \in Sent /\ local \in Locals /\ Transformable(line)
    BY Rewrote
  <2>3. QED
    BY <2>1, <2>2, ReadBack
<1>2. Inv => YearReadsBack
  <2> DEFINE sent == event.timestamp.sec
  <2> SUFFICES ASSUME Inv, Rewritten, YearInferred(line.ts)
               PROVE  /\ Transformable(line)
                      /\ now - sent < 364 * Day =>
                           Instant(line.ts, now, local) = ReadsAs(line.ts, event.timestamp, now, local)
    BY DEF YearReadsBack
  <2>1. PICK t \in Stamps : Found(t) /\ line.ts = Render(t, event.timestamp, local)
    BY Rewrote
  <2>2. event.timestamp \in Sent /\ local \in Locals /\ now \in Sendable /\ Transformable(line)
    BY Rewrote
  <2>3. sent =< now
    <3>1. sent \in Int /\ sent =< anchor
      BY <2>2, SentIs DEF Inv, InWindow
    <3>2. QED
      BY <3>1 DEF Inv, Typed
  <2>4. QED
    BY <2>1, <2>2, <2>3, YearReadBack
<1>3. Inv => ReadsBack
  BY <1>1, <1>2 DEF ReadsBack
<1>4. QED
  BY <1>3, InvAlways, PTL

\* A synthetic run dates every event whose timestamp it finds, and dates it in the window.
THEOREM DatedInWindowAlways == Spec => []DatedInWindow
<1>1. Inv => DatedInWindow
  BY DEF Inv, DatedInWindow
<1>2. QED
  BY <1>1, InvAlways, PTL

\* What one run wrote, another writes in the same format.
THEOREM SettlesDownAlways == Spec => SettlesDown
<1> DEFINE Peace == (Rewritten /\ line' # line) => SameFormat(Format(line.ts), Format(line'.ts))
<1>1. Inv /\ [Next]_vars => Peace
  <2> SUFFICES ASSUME Inv, [Next]_vars, Rewritten, line' # line
               PROVE  SameFormat(Format(line.ts), Format(line'.ts))
    OBVIOUS
  <2>1. PICK next \in Drawn(WindowStart(window, now, local), now) : Rewrite(next)
    BY DEF Next, Replay, PassThrough, Age, Finished, vars
  <2>2. next \in Sent
    BY LocalIs, DrawnInWindow DEF Inv, Typed, Reach
  <2>3. PICK t \in Stamps : Found(t) /\ line.ts = Render(t, event.timestamp, local)
    BY Rewrote
  <2>4. event.timestamp \in Sent /\ local \in Locals
    BY Rewrote
  <2>5. line'.ts = Render(line.ts, next, local)
    BY <2>1 DEF Rewrite, Inv, Typed, Records
  <2>6. QED
    BY <2>2, <2>3, <2>4, <2>5, PeaceAgain
<1>2. Inv /\ [Next]_vars => [(Rewritten /\ line' # line) =>
       LET old == Format(line.ts)
           new == Format(line'.ts)
       IN  IF old.form = "iso" THEN new.width >= old.width /\ [new EXCEPT !.width = old.width] = old
           ELSE new = old]_vars
  BY <1>1 DEF SameFormat
<1>3. QED
  BY <1>2, InvAlways, PTL DEF Spec, SettlesDown
-------------------------------------------------------------------------------
(* What a receiver is told. *)

\* The table of keywords, one by one.
LEMMA PatternsAre ==
  /\ DOMAIN Patterns = 1..12
  /\ Patterns[1] = <<"FATAL", "FATAL">> /\ Patterns[2] = <<"ERROR", "ERROR">> /\ Patterns[3] = <<"ERR:", "ERROR">>
  /\ Patterns[4] = <<"error", "ERROR">> /\ Patterns[5] = <<"WARN", "WARN">> /\ Patterns[6] = <<"WRN", "WARN">>
  /\ Patterns[7] = <<"NOTICE", "NOTICE">> /\ Patterns[8] = <<"CRITICAL", "CRITICAL">> /\ Patterns[9] = <<"INFO", "INFO">>
  /\ Patterns[10] = <<"DEBUG", "DEBUG">> /\ Patterns[11] = <<"TRACE", "TRACE">> /\ Patterns[12] = <<"VERBOSE", "VERBOSE">>
BY DEF Patterns

\* How loud each keyword is, in the order they are looked for.
LEMMA Loudness ==
  ASSUME NEW i \in 1..12
  PROVE  /\ i = 1 => SeverityNumber(Patterns[i][2]) = 21
         /\ i \in 2..4 => SeverityNumber(Patterns[i][2]) = 17
         /\ i \in 5..6 => SeverityNumber(Patterns[i][2]) = 13
         /\ i = 7 => SeverityNumber(Patterns[i][2]) = 9
         /\ i = 8 => SeverityNumber(Patterns[i][2]) = 21 /\ Patterns[i][1] = "CRITICAL"
         /\ i = 9 => SeverityNumber(Patterns[i][2]) = 9
         /\ i \in 10..12 => SeverityNumber(Patterns[i][2]) = 5
<1>1. /\ SeverityNumber("FATAL") = 21 /\ SeverityNumber("ERROR") = 17 /\ SeverityNumber("WARN") = 13
      /\ SeverityNumber("NOTICE") = 9 /\ SeverityNumber("CRITICAL") = 21 /\ SeverityNumber("INFO") = 9
      /\ SeverityNumber("DEBUG") = 5 /\ SeverityNumber("TRACE") = 5 /\ SeverityNumber("VERBOSE") = 5
  BY DEF SeverityNumber
<1>2. i \in {1, 2, 3, 4, 5, 6, 7, 8, 9, 10, 11, 12}
  OBVIOUS
<1>3. QED
  BY <1>1, <1>2, PatternsAre

\* The level is that of the first pattern whose keyword is there.
LEMMA FirstHit ==
  ASSUME NEW words, NEW i \in 1..12, Patterns[i][1] \in words
  PROVE  \E j \in 1..12 : /\ j =< i /\ Patterns[j][1] \in words
                          /\ Severity(words) = Patterns[j][2]
<1> DEFINE hits == {n \in DOMAIN Patterns : Patterns[n][1] \in words}
           first == CHOOSE n \in hits : \A m \in hits : n =< m
<1>1. i \in hits /\ \A n \in hits : n \in 1..12 /\ Patterns[n][1] \in words
  BY PatternsAre
<1> HIDE DEF hits
<1>2. \E n \in hits : \A m \in hits : n =< m
  <2> DEFINE H(n) == n \in hits
  <2>1. \A n \in hits : n \in {1, 2, 3, 4, 5, 6, 7, 8, 9, 10, 11, 12}
    BY <1>1
  <2>2. QED
    BY <1>1, <2>1
<1>3. first \in hits /\ \A m \in hits : first =< m
  BY <1>2
<1>4. Severity(words) = Patterns[first][2]
  BY <1>1 DEF Severity, hits
<1> HIDE DEF first
<1>5. QED
  BY <1>1, <1>3, <1>4

\* Each keyword stands for one pattern.
LEMMA OwnLevel ==
  ASSUME NEW i \in 1..12
  PROVE  Severity({Patterns[i][1]}) = Patterns[i][2]
<1>1. PICK j \in 1..12 : /\ Patterns[j][1] \in {Patterns[i][1]}
                         /\ Severity({Patterns[i][1]}) = Patterns[j][2]
  BY FirstHit
<1>2. i \in {1, 2, 3, 4, 5, 6, 7, 8, 9, 10, 11, 12} /\ j \in {1, 2, 3, 4, 5, 6, 7, 8, 9, 10, 11, 12}
  OBVIOUS
<1>3. Patterns[j] = Patterns[i]
  BY <1>1, <1>2, PatternsAre
<1>4. QED
  BY <1>1, <1>3

\* No keyword but CRITICAL is louder than the first one found.
LEMMA LoudestOf ==
  ASSUME NEW words \in SUBSET Keywords, NEW w \in words \ {"CRITICAL"}
  PROVE  SeverityNumber(Severity({w})) =< SeverityNumber(Severity(words))
<1>1. PICK i \in 1..12 : w = Patterns[i][1]
  BY PatternsAre DEF Keywords
<1>2. PICK j \in 1..12 : j =< i /\ Severity(words) = Patterns[j][2]
  BY <1>1, FirstHit
<1>3. Severity({w}) = Patterns[i][2]
  BY <1>1, OwnLevel
<1>4. i # 8
  BY <1>1, Loudness
<1>5. SeverityNumber(Patterns[i][2]) =< SeverityNumber(Patterns[j][2])
  <2>1. CASE i = 1
    BY <1>2, <2>1, Loudness
  <2>2. CASE i \in 2..4
    BY <1>2, <2>2, Loudness
  <2>3. CASE i \in 5..6
    BY <1>2, <2>3, Loudness
  <2>4. CASE i = 7
    BY <1>2, <2>4, Loudness
  <2>5. CASE i = 9
    BY <1>2, <2>5, Loudness
  <2>6. CASE i \in 10..12
    BY <1>2, <2>6, Loudness
  <2>7. QED
    BY <1>4, <2>1, <2>2, <2>3, <2>4, <2>5, <2>6
<1>6. QED
  BY <1>2, <1>3, <1>5

\* What is written shows the second and the fraction it was rendered with.
LEMMA Shown ==
  ASSUME NEW t \in Stamps, Found(t), NEW ts \in Sent, NEW loc \in Locals
  PROVE  LET u == Render(t, ts, loc) IN ShowsSecond(u, ts.sec, loc) /\ ShowsFraction(u, ts.micro)
<1> DEFINE u == Render(t, ts, loc)
<1>1. u.form = t.form
  BY Rendered
<1>2. ts.sec \in Int /\ ts.micro \in Millionths
  BY SentIs
<1>3. CASE t.form = "iso"
  <2>1. t \in Iso /\ ValidOffset(t.zone)
    BY <1>3, FormIs DEF Found, Detected
  <2>2. t.frac \in Fractions /\ t.zone \in {NoZone, Zulu} \cup Offsets
    BY <2>1 DEF Iso
  <2>3. /\ u.frac = WriteFraction(t.frac, ts.micro) /\ u.wall - ZoneOffset(u.zone, loc) = ts.sec
        /\ u.zone = (IF t.zone = NoZone THEN NoZone
                     ELSE IF ZoneOffset(t.zone, loc) = 0 THEN Zulu ELSE OffToToken(ZoneOffset(t.zone, loc)))
    BY <2>1, RenderIso
  <2> HIDE DEF u
  <2>4. SignedOffset(u.zone, loc) = ZoneOffset(u.zone, loc)
    <3>1. CASE u.zone = NoZone
      BY <3>1 DEF SignedOffset, ZoneOffset, NoZone
    <3>2. CASE u.zone = Zulu
      BY <3>2 DEF SignedOffset, ZoneOffset, ParseOffset, Zulu
    <3>3. CASE u.zone # NoZone /\ u.zone # Zulu
      <4>1. u.zone = OffToToken(ZoneOffset(t.zone, loc)) /\ t.zone # NoZone /\ ZoneOffset(t.zone, loc) # 0
        BY <2>3, <3>3
      <4>2. t.zone \in Offsets
        BY <2>2, <4>1 DEF ZoneOffset, ParseOffset, Zulu
      <4>3. ZoneOffset(t.zone, loc) = ParseOffset(t.zone)
        BY <4>2 DEF ZoneOffset, Offsets
      <4>4. u.zone \in Offsets /\ u.zone.sign = "+"
        BY <2>1, <4>1, <4>2, <4>3, OffsetBack
      <4>5. QED
        BY <4>4 DEF SignedOffset, ZoneOffset, ParseOffset, Offsets
    <3>4. QED
      BY <3>1, <3>2, <3>3
  <2>5. ShowsSecond(u, ts.sec, loc)
    BY <1>1, <1>3, <2>3, <2>4 DEF ShowsSecond, YearInferred
  <2>6. ShowsFraction(u, ts.micro)
    BY <1>1, <1>2, <1>3, <2>2, <2>3, FractionBack DEF ShowsFraction
  <2>7. QED
    BY <2>5, <2>6 DEF u
<1>4. CASE t.form = "clf"
  <2>1. t \in Clf /\ ValidOffset(t.zone) /\ t.zone \in Offsets
    BY <1>4, FormIs DEF Found, Detected, Clf
  <2>2. u.wall - ParseOffset(u.zone) = ts.sec /\ u.zone = OffToToken(ParseOffset(t.zone))
    BY <2>1, RenderClf
  <2>3. u.zone \in Offsets /\ u.zone.sign = "+"
    BY <2>1, <2>2, OffsetBack
  <2> HIDE DEF u
  <2>4. SignedOffset(u.zone, loc) = ParseOffset(u.zone)
    BY <2>3 DEF SignedOffset, ParseOffset, Offsets
  <2>5. ShowsSecond(u, ts.sec, loc)
    BY <1>1, <1>4, <2>2, <2>4 DEF ShowsSecond, YearInferred
  <2>6. QED
    BY <1>1, <1>4, <2>5 DEF u, ShowsFraction
<1>5. CASE t.form \in {"epoch", "number"}
  <2>1. t \in Epochs
    BY <1>5, FormIs
  <2>2. u.sec = ts.sec /\ u.milli = (IF t.form = "epoch" THEN 0 ELSE ts.micro \div 1000)
    BY <2>1, RenderEpoch
  <2> HIDE DEF u
  <2>3. ShowsSecond(u, ts.sec, loc)
    BY <1>1, <1>5, <2>2 DEF ShowsSecond, YearInferred
  <2>4. ShowsFraction(u, ts.micro)
    BY <1>1, <1>5, <2>2 DEF ShowsFraction
  <2>5. QED
    BY <2>3, <2>4 DEF u
<1>6. CASE t.form \in {"ctf", "healthapp"}
  <2>1. t \in Ctf \cup HealthApp /\ (t.form = "healthapp" => t \in HealthApp)
    BY <1>6, FormIs
  <2>2. u.wall = ts.sec + loc /\ (t.form = "healthapp" => u.milli = ts.micro \div 1000)
    BY <2>1, RenderLocal
  <2>3. loc \in Int
    BY Numerals DEF Locals
  <2> HIDE DEF u
  <2>4. ShowsSecond(u, ts.sec, loc)
    <3>1. ShowsSecond(u, ts.sec, loc) <=> u.wall - loc = ts.sec
      BY <1>1, <1>6 DEF ShowsSecond, YearInferred
    <3>2. QED
      BY <1>2, <2>2, <2>3, <3>1
  <2>5. ShowsFraction(u, ts.micro)
    BY <1>1, <1>6, <2>2 DEF ShowsFraction
  <2>6. QED
    BY <2>4, <2>5 DEF u
<1>7. CASE YearInferred(t)
  <2>1. t \in NoYears
    BY <1>7, FormIs
  <2>2. u.place = Place(ts.sec + loc) /\ u.milli = (IF t.form = "android" THEN ts.micro \div 1000 ELSE 0)
    BY <2>1, RenderNoYear
  <2> HIDE DEF u
  <2>3. YearInferred(u) /\ u.form \notin {"iso", "clf", "ctf", "healthapp", "epoch", "number"}
    BY <1>1, <1>7 DEF YearInferred
  <2>4. ShowsSecond(u, ts.sec, loc)
    BY <2>2, <2>3 DEF ShowsSecond
  <2>5. ShowsFraction(u, ts.micro)
    BY <1>1, <2>2, <2>3 DEF ShowsFraction
  <2>6. QED
    BY <2>4, <2>5 DEF u
<1>8. t.form # "none"
  BY DEF Found, Detected
<1>9. QED
  BY <1>3, <1>4, <1>5, <1>6, <1>7, <1>8, FormIs

\* The time told is that which stands in the body of a rewritten event, in any form and zone;
\* the severity is no less than any keyword of the line stands for, but for CRITICAL.
THEOREM ToldTruthfullyAlways == Spec => []ToldTruthfully
<1>1. Inv => WireAgrees
  <2> SUFFICES ASSUME Inv, Rewritten, NEW d \in {0, 3600}, NEW u \in Micros
               PROVE  LET sent == TimeSent(event, At(anchor + d, u)) IN
                      /\ ShowsSecond(line.ts, HecTime(sent).sec, local)
                      /\ ShowsSecond(line.ts, OtlpTime(sent).sec, local)
                      /\ ShowsFraction(line.ts, OtlpTime(sent).micro)
                      /\ HecTime(sent).milli = OtlpTime(sent).micro \div 1000
    BY DEF WireAgrees
  <2> DEFINE sent == TimeSent(event, At(anchor + d, u))
  <2>1. PICK t \in Stamps : Found(t) /\ line.ts = Render(t, event.timestamp, local)
    BY Rewrote
  <2>2. event.timestamp \in Sent /\ local \in Locals
    BY Rewrote
  <2>3. sent = event.timestamp
    BY DEF TimeSent, Rewritten
  <2> HIDE DEF sent
  <2>4. ShowsSecond(line.ts, sent.sec, local) /\ ShowsFraction(line.ts, sent.micro)
    BY <2>1, <2>2, <2>3, Shown
  <2>5. QED
    BY <2>4 DEF HecTime, OtlpTime, sent
<1>2. Inv => LoudestLevel
  <2> SUFFICES ASSUME Inv, NEW w \in line.words \ {"CRITICAL"}
               PROVE  SeverityNumber(Severity({w})) =< SeverityNumber(Severity(line.words))
    BY DEF LoudestLevel
  <2>1. line \in Records
    BY DEF Inv, Typed
  <2>2. line.words \in SUBSET Keywords
    BY <2>1 DEF Records
  <2>3. QED
    BY <2>2, LoudestOf
<1>3. Inv => ToldTruthfully
  BY <1>1, <1>2 DEF ToldTruthfully
<1>4. QED
  BY <1>3, InvAlways, PTL
===============================================================================
