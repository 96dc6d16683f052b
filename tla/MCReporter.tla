------------------------------ MODULE MCReporter ------------------------------
(* A small instance of Reporter for TLC. *)
EXTENDS Reporter
===============================================================================
