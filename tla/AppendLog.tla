------------------------------ MODULE AppendLog ------------------------------
(***************************************************************************)
(* What a console log promises (shared_state.h, lines 57-74): every line   *)
(* pushed gets the next number, from 1 on, and a snapshot is the newest    *)
(* lines with their numbers, oldest first; as many as were asked for, or   *)
(* as the log keeps, or as there are.  Each call takes effect at once.     *)
(***************************************************************************)
EXTENDS Naturals, Sequences

CONSTANTS Lines,        \* the lines that are logged
          Keeps,        \* CONSOLE_LOG_LINES
          Windows       \* the max_lines that callers ask for

VARIABLES log,          \* all lines ever pushed; the number of a line is its place
          out           \* what the last snapshot returned

vars == <<log, out>>

Init == log = <<>> /\ out = <<>>

Push(l) == log' = Append(log, l) /\ UNCHANGED out

Least(a, b) == IF a <= b THEN a ELSE b

Newest(n) == [i \in 1 .. n |->
                [seq |-> Len(log) - n + i, line |-> log[Len(log) - n + i]]]

Snapshot(max_lines) ==
    /\ out' = Newest(Least(Len(log), Least(Keeps, max_lines)))
    /\ UNCHANGED log

Next == (\E l \in Lines : Push(l)) \/ (\E w \in Windows : Snapshot(w))

Spec == Init /\ [][Next]_vars
==============================================================================
