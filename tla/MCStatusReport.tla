---------------------------- MODULE MCStatusReport ----------------------------
(* StatusReport for TLC: words and offsets are interchangeable. *)
EXTENDS StatusReport, TLC

Interchangeable == Permutations(Words) \cup Permutations(Offsets)
===============================================================================
