------------------------------ MODULE MCPipeline ------------------------------
(* Small instances of Pipeline for TLC. *)
EXTENDS Pipeline, TLC

\* Workers differ only by name; used in runs without liveness properties.
Symmetry == Permutations(Workers)
===============================================================================
