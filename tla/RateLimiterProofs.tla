--------------------------- MODULE RateLimiterProofs ---------------------------
(***************************************************************************)
(* Proofs about RateLimiter for any workers, rate, batch size and bounds.  *)
(* The invariant that carries them is an account: what is in the bucket    *)
(* plus what was granted is what the bucket was given up to `last'.        *)
(***************************************************************************)
EXTENDS RateLimiter, TLAPS

Limited == rate > 0

Balanced == Limited => tokens + PerEvent * granted = Capacity + rate * last

Inv == TypeOK /\ Balanced

LEMMA CostNat == ASSUME NEW n \in Nat PROVE Cost(n) \in Nat /\ Cost(n) = PerEvent * n
BY RateLimiterAssumption DEF Cost

LEMMA CapacityNat == Capacity \in Nat
BY RateLimiterAssumption DEF Capacity

\* What the bucket holds now, and what it was given by now.
LEMMA RefilledAccount ==
  ASSUME Inv
  PROVE  /\ Refilled \in Nat
         /\ Limited => Refilled + PerEvent * granted = Capacity + rate * now
<1>1. /\ rate \in Nat /\ now \in Nat /\ last \in Nat /\ last =< now /\ tokens \in Nat
      /\ granted \in Nat /\ PerEvent \in Nat /\ Capacity \in Nat
  BY RateLimiterAssumption, CapacityNat DEF Inv, TypeOK
<1>2. now - last \in Nat /\ rate * (now - last) \in Nat
  BY <1>1
<1>3. rate * (now - last) = rate * now - rate * last
  BY <1>1
<1>4. PerEvent * granted \in Nat /\ rate * now \in Nat /\ rate * last \in Nat
  BY <1>1
<1>5. Refilled \in Nat
  BY <1>1, <1>2 DEF Refilled
<1>6. ASSUME Limited
      PROVE  Refilled + PerEvent * granted = Capacity + rate * now
  <2>1. tokens + PerEvent * granted = Capacity + rate * last
    BY <1>6 DEF Inv, Balanced
  <2>2. QED
    BY <1>1, <1>3, <1>4, <2>1 DEF Refilled
<1>7. QED
  BY <1>5, <1>6

LEMMA InvInit == Init => Inv
<1> SUFFICES ASSUME Init PROVE Inv
  OBVIOUS
<1>1. TypeOK
  BY RateLimiterAssumption, CapacityNat DEF Init, TypeOK, NoMark
<1>2. Balanced
  BY <1>1, RateLimiterAssumption, CapacityNat DEF Init, Balanced, TypeOK
<1>3. QED
  BY <1>1, <1>2 DEF Inv

\* A worker that leaves with its tokens keeps the account.
LEMMA InvGrant == ASSUME Inv, NEW w \in Workers, Grant(w) PROVE Inv'
<1>t. /\ need[w] \in Nat /\ granted \in Nat /\ PerEvent \in Nat \ {0} /\ now \in Nat
      /\ rate \in Nat /\ rate' = rate /\ Capacity \in Nat /\ last \in 0..now
  BY RateLimiterAssumption, CapacityNat DEF Inv, TypeOK, Grant, Leave
<1>1. /\ Refilled \in Nat /\ Cost(need[w]) \in Nat /\ Cost(need[w]) = PerEvent * need[w]
      /\ Limited => Refilled + PerEvent * granted = Capacity + rate * now
  BY <1>t, RefilledAccount, CostNat
<1>2. tokens' = Refilled - Cost(need[w]) /\ tokens' \in Nat
  BY <1>1 DEF Grant
<1>3. granted' = granted + need[w] /\ granted' \in Nat /\ last' = now /\ now' = now
  BY <1>t DEF Grant, Leave
<1>4. TypeOK'
  BY <1>t, <1>2, <1>3, RateLimiterAssumption DEF Inv, TypeOK, Grant, Leave
<1>5. PerEvent * granted' = PerEvent * granted + PerEvent * need[w]
  BY <1>t, <1>3
<1>6. PerEvent * granted \in Nat /\ PerEvent * need[w] \in Nat /\ rate * now \in Nat
  BY <1>t
<1>7. Balanced'
  <2>1. Limited' => Limited
    BY <1>t DEF Limited
  <2>2. rate' * last' = rate * now /\ Capacity' = Capacity
    BY <1>t, <1>3 DEF Capacity
  <2>3. QED
    BY <1>1, <1>2, <1>5, <1>6, <2>1, <2>2 DEF Balanced
<1>8. QED
  BY <1>4, <1>7 DEF Inv

\* A worker that naps has turned the time since `last' into tokens.
LEMMA InvNap == ASSUME Inv, NEW w \in Workers, Nap(w) PROVE Inv'
<1>t. /\ granted \in Nat /\ now \in Nat /\ rate \in Nat /\ rate > 0 /\ MaxNap \in Nat
      /\ rate' = rate /\ granted' = granted /\ last' = now /\ now' = now /\ tokens' = Refilled
      /\ need[w] \in Nat
  BY RateLimiterAssumption DEF Inv, TypeOK, Nap
<1>1. /\ Refilled \in Nat /\ Cost(need[w]) \in Nat
      /\ Limited => Refilled + PerEvent * granted = Capacity + rate * now
  BY <1>t, RefilledAccount, CostNat
<1>2. now + NapTicks(Cost(need[w]) - Refilled) \in Nat
  <2> DEFINE d == Cost(need[w]) - Refilled
  <2>1. d \in Int /\ (d + rate - 1) \div rate \in Int
    BY <1>t, <1>1
  <2> HIDE DEF d
  <2>2. NapTicks(d) \in Nat
    BY <1>t, <2>1 DEF NapTicks
  <2>3. QED
    BY <1>t, <2>2 DEF d
<1>3. TypeOK'
  BY <1>t, <1>1, <1>2 DEF Inv, TypeOK, Nap
<1>4. Balanced'
  BY <1>t, <1>1 DEF Balanced, Limited, Capacity
<1>5. QED
  BY <1>3, <1>4 DEF Inv

LEMMA InvNext == Inv /\ [Next]_vars => Inv'
<1> SUFFICES ASSUME Inv, [Next]_vars PROVE Inv'
  OBVIOUS
<1>1. ASSUME NEW w \in Workers, NEW n \in 1..BatchSize, Ask(w, n)
      PROVE  Inv'
  BY <1>1, RateLimiterAssumption DEF Inv, TypeOK, Balanced, Limited, Capacity, Ask
<1>2. ASSUME NEW w \in Workers, Unlimited(w)
      PROVE  Inv'
  <2>1. need[w] \in Nat /\ granted + need[w] \in Nat
    BY RateLimiterAssumption DEF Inv, TypeOK
  <2>2. QED
    BY <1>2, <2>1, RateLimiterAssumption DEF Inv, TypeOK, Balanced, Limited, Unlimited, Leave
<1>3. ASSUME NEW w \in Workers, Grant(w)
      PROVE  Inv'
  BY <1>3, InvGrant
<1>4. ASSUME NEW w \in Workers, Nap(w)
      PROVE  Inv'
  BY <1>4, InvNap
<1>5. ASSUME NEW w \in Workers, Wake(w)
      PROVE  Inv'
  BY <1>5 DEF Inv, TypeOK, Balanced, Limited, Capacity, Wake
<1>6. CASE Tick
  BY <1>6 DEF Inv, TypeOK, Balanced, Limited, Capacity, Tick
<1>7. CASE Observe
  BY <1>7 DEF Inv, TypeOK, Balanced, Limited, Capacity, Observe
<1>8. CASE Horizon \/ UNCHANGED vars
  BY <1>8 DEF Inv, TypeOK, Balanced, Limited, Capacity, Horizon, vars
<1>9. QED
  BY <1>1, <1>2, <1>3, <1>4, <1>5, <1>6, <1>7, <1>8 DEF Next

LEMMA InvAlways == Spec => []Inv
BY InvInit, InvNext, PTL DEF Spec

\* The state stays within its types; the bucket is never overdrawn.
THEOREM LimiterTypeCorrect == Spec => []TypeOK
<1>1. Inv => TypeOK
  BY DEF Inv
<1>2. QED
  BY <1>1, InvAlways, PTL

\* Over the whole run the limiter grants at most one batch plus the rate times
\* the time elapsed, whatever the number of workers, the sizes of the batches,
\* the length of the naps and the order in which the workers ask.
THEOREM RateBoundAlways == Spec => []RateBound
<1>1. Inv => RateBound
  <2> SUFFICES ASSUME Inv, Limited
               PROVE  PerEvent * granted =< Capacity + rate * now
    BY DEF RateBound, Limited
  <2>1. Refilled \in Nat /\ Refilled + PerEvent * granted = Capacity + rate * now
    BY RefilledAccount
  <2>2. PerEvent * granted \in Nat /\ rate * now \in Nat /\ Capacity \in Nat
    BY RateLimiterAssumption, CapacityNat DEF Inv, TypeOK
  <2>3. QED
    BY <2>1, <2>2
<1>2. QED
  BY <1>1, InvAlways, PTL
-------------------------------------------------------------------------------
(* Naps are as short as the deficit allows. *)

\* Rounding up to whole ticks adds less than one tick's refill.
LEMMA NapIsTight ==
  ASSUME NEW d \in Nat \ {0}, rate \in Nat \ {0}
  PROVE  NapTicks(d) \in Nat /\ rate * NapTicks(d) < d + rate
<1> DEFINE q == (d + rate - 1) \div rate
<1>1. q \in Int /\ rate * q =< d + rate - 1 /\ d + rate - 1 < rate * q + rate
  OBVIOUS
<1>2. q >= 1
  <2>1. d + rate - 1 >= rate
    OBVIOUS
  <2>2. QED
    BY <1>1, <2>1
<1>3. NapTicks(d) = IF q > MaxNap THEN MaxNap ELSE q
  BY <1>2 DEF NapTicks
<1> HIDE DEF q
<1>4. NapTicks(d) \in Nat /\ NapTicks(d) =< q
  BY <1>1, <1>2, <1>3, RateLimiterAssumption
<1>5. rate * NapTicks(d) =< rate * q
  BY <1>1, <1>4
<1>6. rate * NapTicks(d) \in Int /\ rate * q \in Int
  BY <1>1, <1>4
<1>7. QED
  BY <1>1, <1>4, <1>5, <1>6

\* A refill moves the same amount from the clock to the bucket.
LEMMA RefillShift ==
  ASSUME Inv, NEW t \in Nat
  PROVE  Refilled + rate * (t - now) = tokens + rate * (t - last)
<1>1. rate \in Nat /\ now \in Nat /\ last \in Nat /\ tokens \in Nat
  BY RateLimiterAssumption DEF Inv, TypeOK
<1>2. /\ rate * (t - now) = rate * t - rate * now
      /\ rate * (t - last) = rate * t - rate * last
      /\ rate * (now - last) = rate * now - rate * last
  BY <1>1
<1>3. rate * t \in Int /\ rate * now \in Int /\ rate * last \in Int
  BY <1>1
<1>4. QED
  BY <1>1, <1>2, <1>3 DEF Refilled

TightFor(w) == pc[w] = "nap" => tokens + rate * (wake[w] - last) < Cost(need[w]) + rate

\* Another worker's grant or nap, and everything that is no grant or nap.
LEMMA TightOthers ==
  ASSUME Inv, NEW v \in Workers, TightFor(v),
         rate' = rate, wake'[v] = wake[v], need'[v] = need[v],
         pc'[v] = "nap" => pc[v] = "nap",
         \/ tokens' = tokens /\ last' = last
         \/ /\ tokens' \in Nat /\ tokens' =< Refilled /\ last' = now
  PROVE  TightFor(v)'
<1> SUFFICES ASSUME pc[v] = "nap"
             PROVE  tokens' + rate * (wake[v] - last') < Cost(need[v]) + rate
  BY DEF TightFor, Cost
<1>1. /\ rate \in Nat /\ now \in Nat /\ last \in Nat /\ tokens \in Nat
      /\ wake[v] \in Nat /\ need[v] \in Nat
  BY RateLimiterAssumption DEF Inv, TypeOK
<1>2. Cost(need[v]) \in Nat /\ Refilled \in Nat
  BY <1>1, CostNat, RefilledAccount
<1>3. tokens + rate * (wake[v] - last) < Cost(need[v]) + rate
  BY DEF TightFor
<1>4. CASE tokens' = tokens /\ last' = last
  BY <1>3, <1>4
<1>5. CASE tokens' \in Nat /\ tokens' =< Refilled /\ last' = now
  <2>1. Refilled + rate * (wake[v] - now) = tokens + rate * (wake[v] - last)
    BY <1>1, RefillShift
  <2>2. rate * (wake[v] - now) \in Int /\ rate * (wake[v] - last) \in Int
    BY <1>1
  <2>3. QED
    BY <1>1, <1>2, <1>3, <1>5, <2>1, <2>2
<1>6. QED
  BY <1>4, <1>5

LEMMA TightNext == Inv /\ NapsAreTight /\ [Next]_vars => NapsAreTight'
<1> SUFFICES ASSUME Inv, NapsAreTight, [Next]_vars, NEW v \in Workers
             PROVE  TightFor(v)'
  BY DEF NapsAreTight, TightFor
<1>t. TightFor(v)
  BY DEF NapsAreTight, TightFor
<1>y. /\ pc \in [Workers -> {"away", "ask", "nap"}] /\ need \in [Workers -> 0..BatchSize]
      /\ wake \in [Workers -> Nat] /\ rate \in Nat /\ now \in Nat
      /\ BatchSize \in Nat /\ Refilled \in Nat
  BY RateLimiterAssumption, RefilledAccount DEF Inv, TypeOK
<1>1. ASSUME NEW w \in Workers, Grant(w)
      PROVE  TightFor(v)'
  <2>1. rate' = rate /\ last' = now /\ tokens' = Refilled - Cost(need[w])
    BY <1>1 DEF Grant, Leave
  <2>2. Cost(need[w]) \in Nat /\ Cost(need[w]) =< Refilled
    BY <1>1, <1>y, CostNat DEF Grant
  <2>3. tokens' \in Nat /\ tokens' =< Refilled
    BY <1>y, <2>1, <2>2
  <2>4. CASE v = w
    BY <1>1, <1>y, <2>4 DEF Grant, Leave, TightFor
  <2>5. CASE v # w
    <3>1. wake'[v] = wake[v] /\ need'[v] = need[v] /\ pc'[v] = pc[v]
      BY <1>1, <1>y, <2>5 DEF Grant, Leave
    <3>2. QED
      BY <1>t, <2>1, <2>3, <3>1, TightOthers
  <2>6. QED
    BY <2>4, <2>5
<1>2. ASSUME NEW w \in Workers, Nap(w)
      PROVE  TightFor(v)'
  <2>1. rate' = rate /\ last' = now /\ tokens' = Refilled /\ need' = need /\ rate > 0
    BY <1>2 DEF Nap
  <2>2. CASE v = w
    <3> DEFINE d == Cost(need[w]) - Refilled
    <3>1. Cost(need[w]) \in Nat /\ d \in Nat \ {0}
      BY <1>2, <1>y, CostNat DEF Nap
    <3>2. wake'[w] = now + NapTicks(d)
      BY <1>2, <1>y DEF Nap
    <3> HIDE DEF d
    <3>3. NapTicks(d) \in Nat /\ rate * NapTicks(d) < d + rate
      BY <1>y, <2>1, <3>1, NapIsTight
    <3>4. wake'[w] - last' = NapTicks(d)
      BY <1>y, <2>1, <3>2, <3>3
    <3>5. rate * NapTicks(d) \in Int /\ Refilled + d = Cost(need[w])
      BY <1>y, <3>1, <3>3 DEF d
    <3>6. Refilled + rate * NapTicks(d) < Cost(need[w]) + rate
      BY <1>y, <3>1, <3>3, <3>5
    <3>7. QED
      BY <2>1, <2>2, <3>4, <3>6 DEF TightFor, Cost
  <2>3. CASE v # w
    <3>1. wake'[v] = wake[v] /\ need'[v] = need[v] /\ pc'[v] = pc[v]
      BY <1>2, <1>y, <2>3 DEF Nap
    <3>2. QED
      BY <1>t, <1>y, <2>1, <3>1, TightOthers
  <2>4. QED
    BY <2>2, <2>3
<1>3. ASSUME NEW w \in Workers,
             (\E n \in 1..BatchSize : Ask(w, n)) \/ Unlimited(w) \/ Wake(w)
      PROVE  TightFor(v)'
  <2>1. rate' = rate /\ tokens' = tokens /\ last' = last
    BY <1>3 DEF Ask, Unlimited, Leave, Wake
  <2>2. CASE v = w
    BY <1>3, <1>y, <2>2 DEF Ask, Unlimited, Leave, Wake, TightFor
  <2>3. CASE v # w
    <3>1. wake'[v] = wake[v] /\ need'[v] = need[v] /\ pc'[v] = pc[v]
      BY <1>3, <1>y, <2>3 DEF Ask, Unlimited, Leave, Wake
    <3>2. QED
      BY <1>t, <2>1, <3>1, TightOthers
  <2>4. QED
    BY <2>2, <2>3
<1>4. CASE Tick \/ Observe \/ Horizon \/ UNCHANGED vars
  <2>1. UNCHANGED <<rate, tokens, last, pc, need, wake>>
    BY <1>4 DEF Tick, Observe, Horizon, vars
  <2>2. QED
    BY <1>t, <2>1, TightOthers
<1>5. QED
  BY <1>1, <1>2, <1>3, <1>4 DEF Next

\* Whoever competes for the bucket, a nap is never longer than its deficit
\* needs, rounded up to a whole tick.
THEOREM NapsAreTightAlways == Spec => []NapsAreTight
<1>1. Init => NapsAreTight
  BY DEF Init, NapsAreTight
<1>2. QED
  BY <1>1, InvAlways, TightNext, PTL DEF Spec
===============================================================================
