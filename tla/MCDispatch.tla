------------------------------ MODULE MCDispatch ------------------------------
(* Small instance of Dispatch for TLC. *)
EXTENDS Dispatch

\* No header, an immediate retry, two seconds, longer than the backoff cap.
MCRetryAfters == {NoRetryAfter, 0, 2000, 60000}
MCRetryChoices == {0, 1, 3, 7}
MCJitters == {1, 99}
===============================================================================
