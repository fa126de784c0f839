----------------------------- MODULE BoundedFifo -----------------------------
(***************************************************************************)
(* What the outbound G-code queue promises its two users (shared_state.h,  *)
(* lines 76-79): core0 pushes a line and is told whether it was accepted,  *)
(* core1 pops the oldest accepted line or is told there is none.  Each     *)
(* call takes effect at one instant, on a first-in first-out sequence that *)
(* never holds more than Depth lines.                                      *)
(***************************************************************************)
EXTENDS Naturals, Sequences

CONSTANTS Lines,        \* the G-code lines
          NoLine,       \* what a caller holds before it was given a line
          Depth         \* GCODE_QUEUE_DEPTH

VARIABLES fifo,         \* the accepted lines not yet popped, oldest first
          pushed,       \* what the last push returned: was the line accepted
          popped        \* what the last pop returned: [ok, line]

vars == <<fifo, pushed, popped>>

Init ==
    /\ fifo = <<>>
    /\ pushed = FALSE
    /\ popped = [ok |-> FALSE, line |-> NoLine]

PushAccepted(l) ==
    /\ Len(fifo) < Depth
    /\ fifo' = Append(fifo, l)
    /\ pushed' = TRUE
    /\ UNCHANGED popped

PushRejected ==
    /\ Len(fifo) = Depth
    /\ pushed' = FALSE
    /\ UNCHANGED <<fifo, popped>>

PopLine ==
    /\ fifo # <<>>
    /\ fifo' = Tail(fifo)
    /\ popped' = [ok |-> TRUE, line |-> Head(fifo)]
    /\ UNCHANGED pushed

\* A failed pop leaves the caller's buffer alone.
PopNothing ==
    /\ fifo = <<>>
    /\ popped' = [popped EXCEPT !.ok = FALSE]
    /\ UNCHANGED <<fifo, pushed>>

Next == (\E l \in Lines : PushAccepted(l)) \/ PushRejected \/ PopLine \/ PopNothing

Spec == Init /\ [][Next]_vars
==============================================================================
