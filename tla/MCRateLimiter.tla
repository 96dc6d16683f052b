----------------------------- MODULE MCRateLimiter -----------------------------
(* Small instances of RateLimiter for TLC. *)
EXTENDS RateLimiter, TLC

\* Workers differ only by name.
Symmetry == Permutations(Workers)
===============================================================================
