------------------------------ MODULE RateLimiter ------------------------------
(***************************************************************************)
(* RateLimiter (src/pipeline.rs): the token bucket the workers share.  A   *)
(* worker that wants to send n events calls wait(n), which asks for n      *)
(* tokens and naps until it gets them.                                     *)
(*                                                                         *)
(* Time is counted in ticks, one for the least nap (5 ms).  Tokens are     *)
(* counted in units, PerEvent of them for an event, so that a rate of less *)
(* than one event per tick is a whole number of units per tick; the f64 of *)
(* the code carries the same quantities.  Pipeline lets one worker in at a *)
(* time (OneBatchInFlight); here any number of them compete, as the        *)
(* limiter is meant to be used.                                            *)
(***************************************************************************)
EXTENDS Integers, FiniteSets

CONSTANTS
  Workers,    \* the tasks that share the limiter
  Rates,      \* the values of --rate, in units per tick; 0 for no limit
  PerEvent,   \* units a single event costs
  BatchSize,  \* capacity_tokens, and the most a worker asks for
  MaxNap,     \* the longest nap, 200 ms in the code
  MaxAsks,    \* bound on the calls of wait
  MaxTime     \* bound on the clock

ASSUME RateLimiterAssumption ==
  /\ IsFiniteSet(Workers) /\ Rates \subseteq Nat
  /\ PerEvent \in Nat \ {0} /\ BatchSize \in Nat \ {0} /\ MaxNap \in Nat \ {0}
  /\ MaxAsks \in Nat /\ MaxTime \in Nat

VARIABLES
  rate,     \* rate_hz, set once
  now,      \* the clock
  tokens,   \* LimiterState.tokens, in units
  last,     \* LimiterState.last
  pc,       \* each worker: "away", "ask" or "nap"
  need,     \* the events each waiting worker asks for
  wake,     \* when each napping worker wakes
  asks,     \* calls of wait so far
  granted,  \* history: events granted
  mark      \* history: when an observer started to count, and `granted' then

vars == <<rate, now, tokens, last, pc, need, wake, asks, granted, mark>>

NoMark == [at |-> -1, granted |-> 0]

Capacity == BatchSize * PerEvent
Cost(n) == n * PerEvent

Init ==
  /\ rate \in Rates
  /\ now = 0 /\ tokens = Capacity /\ last = 0
  /\ pc = [w \in Workers |-> "away"]
  /\ need = [w \in Workers |-> 0]
  /\ wake = [w \in Workers |-> 0]
  /\ asks = 0 /\ granted = 0 /\ mark = NoMark

\* tokens += elapsed * rate
Refilled == tokens + rate * (now - last)

\* Mutant of NapTicks: always the longest nap.
NapTicksFixed(deficit) == MaxNap

\* The nap a deficit asks for, at least one tick and at most MaxNap.
NapTicks(deficit) ==
  LET ticks == (deficit + rate - 1) \div rate
  IN  IF ticks < 1 THEN 1 ELSE IF ticks > MaxNap THEN MaxNap ELSE ticks

\* A worker has received a batch of n events and calls wait(n).
Ask(w, n) ==
  /\ pc[w] = "away" /\ asks < MaxAsks
  /\ pc' = [pc EXCEPT ![w] = "ask"]
  /\ need' = [need EXCEPT ![w] = n]
  /\ asks' = asks + 1
  /\ UNCHANGED <<rate, now, tokens, last, wake, granted, mark>>

\* The worker has its tokens and leaves to send.
Leave(w) ==
  /\ pc' = [pc EXCEPT ![w] = "away"]
  /\ need' = [need EXCEPT ![w] = 0]
  /\ granted' = granted + need[w]
  /\ UNCHANGED <<rate, now, wake, asks, mark>>

\* rate_hz <= 0: nothing is counted.
Unlimited(w) ==
  /\ pc[w] = "ask" /\ rate = 0
  /\ Leave(w)
  /\ UNCHANGED <<tokens, last>>

\* Mutant of Grant: one tick's tokens are lent.
GrantOnCredit(w) ==
  /\ pc[w] = "ask" /\ rate > 0 /\ Refilled + rate >= Cost(need[w])
  /\ tokens' = Refilled - Cost(need[w]) /\ last' = now
  /\ Leave(w)

\* wait_duration finds enough tokens and takes them.
Grant(w) ==
  /\ pc[w] = "ask" /\ rate > 0 /\ Refilled >= Cost(need[w])
  /\ tokens' = Refilled - Cost(need[w]) /\ last' = now
  /\ Leave(w)

\* Mutant of Nap: the refill is kept but its time is not.
NapForgetsTime(w) ==
  /\ pc[w] = "ask" /\ rate > 0 /\ Refilled < Cost(need[w])
  /\ tokens' = Refilled
  /\ wake' = [wake EXCEPT ![w] = now + NapTicks(Cost(need[w]) - Refilled)]
  /\ pc' = [pc EXCEPT ![w] = "nap"]
  /\ UNCHANGED <<rate, now, last, need, asks, granted, mark>>

\* Not enough: the refill is kept and the worker naps.
Nap(w) ==
  /\ pc[w] = "ask" /\ rate > 0 /\ Refilled < Cost(need[w])
  /\ tokens' = Refilled /\ last' = now
  /\ wake' = [wake EXCEPT ![w] = now + NapTicks(Cost(need[w]) - Refilled)]
  /\ pc' = [pc EXCEPT ![w] = "nap"]
  /\ UNCHANGED <<rate, now, need, asks, granted, mark>>

\* The nap is over, now or some time ago, and the loop asks again.
Wake(w) ==
  /\ pc[w] = "nap" /\ now >= wake[w]
  /\ pc' = [pc EXCEPT ![w] = "ask"]
  /\ UNCHANGED <<rate, now, tokens, last, need, wake, asks, granted, mark>>

Tick ==
  /\ now < MaxTime
  /\ now' = now + 1
  /\ UNCHANGED <<rate, tokens, last, pc, need, wake, asks, granted, mark>>

\* An observer starts to count the events granted.
Observe ==
  /\ mark = NoMark
  /\ mark' = [at |-> now, granted |-> granted]
  /\ UNCHANGED <<rate, now, tokens, last, pc, need, wake, asks, granted>>

\* What happens after MaxTime is not looked at.
Horizon == now = MaxTime /\ UNCHANGED vars

Next ==
  \/ \E w \in Workers :
       \/ \E n \in 1..BatchSize : Ask(w, n)
       \/ Unlimited(w) \/ Grant(w) \/ Nap(w) \/ Wake(w)
  \/ Tick
  \/ Observe
  \/ Horizon

Spec == Init /\ [][Next]_vars
-------------------------------------------------------------------------------
\* Type invariant: in particular the bucket is never overdrawn.
TypeOK ==
  /\ rate \in Rates
  /\ now \in Nat /\ tokens \in Nat /\ last \in 0..now
  /\ pc \in [Workers -> {"away", "ask", "nap"}]
  /\ need \in [Workers -> 0..BatchSize]
  /\ wake \in [Workers -> Nat]
  /\ asks \in Nat /\ granted \in Nat
  /\ mark \in [at : Nat \cup {-1}, granted : Nat]

\* From the start of the run on, the events granted never exceed one batch
\* plus the rate times the time elapsed, however many workers compete and nap.
RateBound == rate > 0 => PerEvent * granted =< Capacity + rate * now

\* Nobody sleeps through its tokens: when a nap is due the bucket holds less
\* than one tick's refill beyond what was asked for.
NapsAreTight ==
  \A w \in Workers :
    pc[w] = "nap" => tokens + rate * (wake[w] - last) < Cost(need[w]) + rate

\* The rate is the aggregate cap at any time (pipeline.rs "a configured rate R
\* is the aggregate events/sec cap", architecture "a single token-bucket
\* (capacity ~1 batch, refill R/sec)"): whenever one starts to count, no more
\* is granted than one batch plus the rate times the time since.
WindowRate ==
  rate > 0 /\ mark # NoMark =>
    PerEvent * (granted - mark.granted) =< Capacity + rate * (now - mark.at)
===============================================================================
