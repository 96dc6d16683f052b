------------------------------ MODULE MCSampling ------------------------------
(* Small instance of Sampling for TLC. *)
EXTENDS Sampling

\* One line; an empty first line; three lines longer than BigFile.
MCShapes == { <<2>>, <<1, 3>>, <<3, 1, 2>> }
===============================================================================
