------------------------------- MODULE Counting -------------------------------
(* How many elements of a sequence are in a set. *)
EXTENDS Integers, Sequences, FiniteSets

Count(s, T) == Cardinality({i \in 1 .. Len(s) : s[i] \in T})
===============================================================================
