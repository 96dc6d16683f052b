-------------------------------- MODULE Ledger --------------------------------
(***************************************************************************)
(* What a run promises about its events, without tasks, channel or locks:  *)
(* events are made one by one; each is settled once, in the order they     *)
(* were made, as sent or failed in batches of at most BatchSize; a fatal   *)
(* error stops settling for good and what is left is discarded; a crash of *)
(* a worker loses at most one batch; the run ends when nothing is open,    *)
(* unless a crash left it without workers.                                 *)
(***************************************************************************)
EXTENDS Integers

CONSTANTS Lines, BatchSize

VARIABLES
  made,       \* events generated
  sent,       \* events counted as sent
  failed,     \* events counted as failed
  discarded,  \* events dropped after the fatal error
  lost,       \* events lost with a crashed worker
  fatal,      \* a fatal error happened
  over        \* the run has ended

vars == <<made, sent, failed, discarded, lost, fatal, over>>

Open == made - (sent + failed + discarded + lost)

Init ==
  /\ made = 0 /\ sent = 0 /\ failed = 0 /\ discarded = 0 /\ lost = 0
  /\ fatal = FALSE /\ over = FALSE

Make ==
  /\ ~over /\ made < Lines
  /\ made' = made + 1
  /\ UNCHANGED <<sent, failed, discarded, lost, fatal, over>>

\* A batch of k events is settled, f of them as failed; only then may the
\* error be fatal.
Settle(k, f) ==
  /\ ~over /\ ~fatal /\ k =< Open
  /\ sent' = sent + (k - f) /\ failed' = failed + f
  /\ fatal' \in {FALSE, f > 0}
  /\ UNCHANGED <<made, discarded, lost, over>>

Discard(k) ==
  /\ ~over /\ fatal /\ k =< Open
  /\ discarded' = discarded + k
  /\ UNCHANGED <<made, sent, failed, lost, fatal, over>>

Crash(k) ==
  /\ ~over /\ ~fatal /\ k =< Open
  /\ lost' = lost + k
  /\ UNCHANGED <<made, sent, failed, discarded, fatal, over>>

Close ==
  /\ ~over /\ (Open = 0 \/ lost > 0)
  /\ over' = TRUE
  /\ UNCHANGED <<made, sent, failed, discarded, lost, fatal>>

Next ==
  \/ Make
  \/ \E k \in 1..BatchSize :
       (\E f \in 0..k : Settle(k, f)) \/ Discard(k) \/ Crash(k)
  \/ Close

Spec == Init /\ [][Next]_vars
===============================================================================
