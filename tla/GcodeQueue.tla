------------------------------ MODULE GcodeQueue ------------------------------
(***************************************************************************)
(* The outbound G-code queue of src/shared_state.c: a ring of              *)
(* GCODE_QUEUE_DEPTH slots, pushed by core0 (the HTTP handlers) and popped *)
(* by core1 (grbl_link.c), both inside queue_mutex.  A call is modelled    *)
(* statement by statement, so that what the mutex buys is checked and not  *)
(* assumed.  The contents of a line are abstract: callers never hand over  *)
(* more than GCODE_LINE_LEN - 1 characters (api_handlers.c:171), so the    *)
(* strncpy calls copy whole lines.                                         *)
(***************************************************************************)
EXTENDS Naturals, Sequences

CONSTANTS GCODE_QUEUE_DEPTH, Lines, NoLine

ASSUME DepthAssumption == GCODE_QUEUE_DEPTH \in Nat \ {0}

VARIABLES gcode_lines, queue_head, queue_count,   \* the ring
          queue_mutex,                            \* "free", or the core that holds it
          push_pc, push_line, push_ok,            \* core0, inside gcode_queue_push
          pop_pc, pop_out, pop_ok                 \* core1, inside gcode_queue_pop

ring == <<gcode_lines, queue_head, queue_count>>
pushing == <<push_pc, push_line, push_ok>>
popping == <<pop_pc, pop_out, pop_ok>>
vars == <<ring, queue_mutex, pushing, popping>>

Slots == 0 .. GCODE_QUEUE_DEPTH - 1

TypeOK ==
    /\ gcode_lines \in [Slots -> Lines \cup {NoLine}]
    /\ queue_head \in Slots
    /\ queue_count \in 0 .. GCODE_QUEUE_DEPTH
    /\ queue_mutex \in {"free", "core0", "core1"}
    /\ push_pc \in {"idle", "store", "count", "exit"}
    /\ push_line \in Lines \cup {NoLine}
    /\ push_ok \in BOOLEAN
    /\ pop_pc \in {"idle", "copy", "advance", "count", "exit"}
    /\ pop_out \in Lines \cup {NoLine}
    /\ pop_ok \in BOOLEAN

Init ==
    /\ gcode_lines = [s \in Slots |-> NoLine]
    /\ queue_head = 0
    /\ queue_count = 0
    /\ queue_mutex = "free"
    /\ push_pc = "idle" /\ push_line = NoLine /\ push_ok = FALSE
    /\ pop_pc = "idle" /\ pop_out = NoLine /\ pop_ok = FALSE
-------------------------------------------------------------------------------
\* Mutant: a mutex nobody waits for.
AcquireWithoutWaiting(core) == queue_mutex' = core

Acquire(core) == queue_mutex = "free" /\ queue_mutex' = core
HasRoom == queue_count < GCODE_QUEUE_DEPTH

(* gcode_queue_push, on core0 *)

PushEnter(l) ==
    /\ push_pc = "idle"
    /\ Acquire("core0")
    /\ push_line' = l
    /\ push_ok' = HasRoom
    /\ push_pc' = IF push_ok' THEN "store" ELSE "exit"
    /\ UNCHANGED <<ring, popping>>

PushStore ==
    /\ push_pc = "store"
    /\ push_pc' = "count"
    /\ gcode_lines' = [gcode_lines EXCEPT
           ![(queue_head + queue_count) % GCODE_QUEUE_DEPTH] = push_line]
    /\ UNCHANGED <<queue_head, queue_count, queue_mutex, push_line, push_ok, popping>>

PushCount ==
    /\ push_pc = "count"
    /\ push_pc' = "exit"
    /\ queue_count' = queue_count + 1
    /\ UNCHANGED <<gcode_lines, queue_head, queue_mutex, push_line, push_ok, popping>>

PushExit ==
    /\ push_pc = "exit"
    /\ push_pc' = "idle"
    /\ queue_mutex' = "free"
    /\ UNCHANGED <<ring, push_line, push_ok, popping>>
-------------------------------------------------------------------------------
(* gcode_queue_pop, on core1 *)

\* Mutant: a pop that waits for a line instead of reporting an empty queue.
PopEnterBlocking ==
    /\ pop_pc = "idle"
    /\ queue_count > 0
    /\ Acquire("core1")
    /\ pop_ok' = TRUE
    /\ pop_pc' = "copy"
    /\ UNCHANGED <<ring, pushing, pop_out>>

PopEnter ==
    /\ pop_pc = "idle"
    /\ Acquire("core1")
    /\ pop_ok' = (queue_count > 0)
    /\ pop_pc' = IF pop_ok' THEN "copy" ELSE "exit"
    /\ UNCHANGED <<ring, pushing, pop_out>>

PopCopy ==
    /\ pop_pc = "copy"
    /\ pop_pc' = "advance"
    /\ pop_out' = gcode_lines[queue_head]
    /\ UNCHANGED <<ring, queue_mutex, pushing, pop_ok>>

PopAdvance ==
    /\ pop_pc = "advance"
    /\ pop_pc' = "count"
    /\ queue_head' = (queue_head + 1) % GCODE_QUEUE_DEPTH
    /\ UNCHANGED <<gcode_lines, queue_count, queue_mutex, pushing, pop_out, pop_ok>>

PopCount ==
    /\ pop_pc = "count"
    /\ pop_pc' = "exit"
    /\ queue_count' = queue_count - 1
    /\ UNCHANGED <<gcode_lines, queue_head, queue_mutex, pushing, pop_out, pop_ok>>

PopExit ==
    /\ pop_pc = "exit"
    /\ pop_pc' = "idle"
    /\ queue_mutex' = "free"
    /\ UNCHANGED <<ring, pushing, pop_out, pop_ok>>

-------------------------------------------------------------------------------
Pop == PopEnter \/ PopCopy \/ PopAdvance \/ PopCount \/ PopExit
PushBody == PushStore \/ PushCount \/ PushExit
Push == (\E l \in Lines : PushEnter(l)) \/ PushBody

Next == Push \/ Pop

\* Nobody owes core0 another push, but a call that has begun runs on; core1 polls the
\* queue on every pass of its loop and gets the mutex whenever it keeps coming free.
Fairness ==
    /\ WF_vars(PushBody)
    /\ WF_vars(PopCopy \/ PopAdvance \/ PopCount \/ PopExit)
    /\ SF_vars(PopEnter)

SafetySpec == Init /\ [][Next]_vars
Spec == SafetySpec /\ Fairness
-------------------------------------------------------------------------------
(* The refinement mapping.  A call takes effect when it gets the mutex: while *)
(* a push or a pop is under way the abstract queue already shows its outcome. *)

Ring(first, n) == [i \in 1 .. n |-> gcode_lines[(first + i - 1) % GCODE_QUEUE_DEPTH]]

Fifo ==
    CASE push_pc \in {"store", "count"}  -> Append(Ring(queue_head, queue_count), push_line)
      [] pop_pc \in {"copy", "advance"}  -> Ring(queue_head + 1, queue_count - 1)
      [] pop_pc = "count"                -> Ring(queue_head, queue_count - 1)
      [] OTHER                           -> Ring(queue_head, queue_count)

Popped == [ok   |-> pop_ok,
           line |-> IF pop_pc = "copy" THEN gcode_lines[queue_head] ELSE pop_out]

Abstract == INSTANCE BoundedFifo WITH
    Depth <- GCODE_QUEUE_DEPTH, fifo <- Fifo, pushed <- push_ok, popped <- Popped

\* The ring and its mutex behave as one bounded FIFO with atomic operations: no line is
\* lost, overwritten, duplicated or handed out of order, whatever the two cores interleave
\* (shared_state.h:76-78).
ImplementsFifo == Abstract!Init /\ [][Abstract!Next]_(Abstract!vars)

\* Core1 never blocks forever in gcode_queue_pop, and so never starves its own loop (the
\* watchdog of main.c would reset the board): from any state its next pop returns.
PopReturns == []<>(pop_pc = "exit") /\ []<>(pop_pc = "idle")
===============================================================================
