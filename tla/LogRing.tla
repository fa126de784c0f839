------------------------------- MODULE LogRing -------------------------------
(***************************************************************************)
(* The console logs of src/shared_state.c: rings of CONSOLE_LOG_LINES      *)
(* lines, pushed by core1 (grbl_link.c) and copied by core0 (handle_status *)
(* in api_handlers.c), each inside a mutex of its own.  The two rings have *)
(* the same code but for the sequence numbers, which only the filtered one *)
(* has; this is that one, statement by statement.                          *)
(***************************************************************************)
EXTENDS Naturals, Sequences

CONSTANTS CONSOLE_LOG_LINES, Lines, NoLine,
          Windows,      \* STATUS_FILTERED_LINES, and other max_lines
          MaxPushes     \* bound on the lines logged

RingAssumption ==
    /\ CONSOLE_LOG_LINES \in Nat \ {0}
    /\ Windows \subseteq Nat
    /\ MaxPushes \in Nat

VARIABLES lines, seqs, head, count, next_seq,   \* the ring
          mutex,                                \* "free", or the core that holds it
          push_pc, push_line,                   \* core1, inside shared_state_filtered_push
          snap_pc, snap_n, snap_skip, snap_i,   \* core0, inside shared_state_filtered_snapshot
          copied,                               \* out[] and out_seq[] as far as written
          out,                                  \* what the last snapshot returned
          log                                   \* history: the lines pushed, oldest first

ring == <<lines, seqs, head, count, next_seq>>
pushing == <<push_pc, push_line, log>>
snapping == <<snap_pc, snap_n, snap_skip, snap_i, copied, out>>
vars == <<ring, mutex, pushing, snapping>>

Slots == 0 .. CONSOLE_LOG_LINES - 1
Entry == [seq : Nat, line : Lines \cup {NoLine}]

TypeOK ==
    /\ lines \in [Slots -> Lines \cup {NoLine}]
    /\ seqs \in [Slots -> Nat]
    /\ head \in Slots
    /\ count \in 0 .. CONSOLE_LOG_LINES
    /\ next_seq \in Nat
    /\ mutex \in {"free", "core0", "core1"}
    /\ push_pc \in {"idle", "store", "number", "count", "exit"}
    /\ push_line \in Lines \cup {NoLine}
    /\ snap_pc \in {"idle", "copy"}
    /\ snap_n \in 0 .. CONSOLE_LOG_LINES /\ snap_skip \in 0 .. CONSOLE_LOG_LINES /\ snap_i \in Nat
    /\ copied \in Seq(Entry) /\ out \in Seq(Entry)
    /\ log \in Seq(Lines)

Init ==
    /\ lines = [s \in Slots |-> NoLine]
    /\ seqs = [s \in Slots |-> 0]
    /\ head = 0 /\ count = 0 /\ next_seq = 1
    /\ mutex = "free"
    /\ push_pc = "idle" /\ push_line = NoLine
    /\ snap_pc = "idle" /\ snap_n = 0 /\ snap_skip = 0 /\ snap_i = 0
    /\ copied = <<>> /\ out = <<>>
    /\ log = <<>>
-------------------------------------------------------------------------------
\* Mutant: a mutex nobody waits for.
AcquireWithoutWaiting(core) == mutex' = core

Acquire(core) == mutex = "free" /\ mutex' = core

WriteIdx == (head + count) % CONSOLE_LOG_LINES

(* shared_state_filtered_push, on core1 *)

PushEnter(l) ==
    /\ push_pc = "idle"
    /\ Len(log) < MaxPushes
    /\ Acquire("core1")
    /\ push_line' = l
    /\ push_pc' = "store"
    /\ UNCHANGED <<ring, log, snapping>>

PushStore ==
    /\ push_pc = "store"
    /\ push_pc' = "number"
    /\ lines' = [lines EXCEPT ![WriteIdx] = push_line]
    /\ UNCHANGED <<seqs, head, count, next_seq, mutex, push_line, log, snapping>>

PushNumber ==
    /\ push_pc = "number"
    /\ push_pc' = "count"
    /\ seqs' = [seqs EXCEPT ![WriteIdx] = next_seq]
    /\ next_seq' = next_seq + 1
    /\ UNCHANGED <<lines, head, count, mutex, push_line, log, snapping>>

Room == count < CONSOLE_LOG_LINES

\* A full ring gives up its oldest line, whose slot the new one has taken.
PushCount ==
    /\ push_pc = "count"
    /\ push_pc' = "exit"
    /\ IF Room
       THEN count' = count + 1 /\ UNCHANGED head
       ELSE head' = (head + 1) % CONSOLE_LOG_LINES /\ UNCHANGED count
    /\ UNCHANGED <<lines, seqs, next_seq, mutex, push_line, log, snapping>>

PushExit ==
    /\ push_pc = "exit"
    /\ push_pc' = "idle"
    /\ mutex' = "free"
    /\ log' = Append(log, push_line)
    /\ UNCHANGED <<ring, push_line, snapping>>
-------------------------------------------------------------------------------
(* shared_state_filtered_snapshot, on core0 *)

SnapEnter(max_lines) ==
    /\ snap_pc = "idle"
    /\ Acquire("core0")
    /\ snap_n' = IF count < max_lines THEN count ELSE max_lines
    /\ snap_skip' = count - snap_n'
    /\ snap_i' = 0
    /\ copied' = <<>>
    /\ snap_pc' = "copy"
    /\ UNCHANGED <<ring, pushing, out>>

SnapIdx == (head + snap_skip + snap_i) % CONSOLE_LOG_LINES

SnapCopy ==
    /\ snap_pc = "copy"
    /\ snap_i < snap_n
    /\ copied' = Append(copied, [seq |-> seqs[SnapIdx], line |-> lines[SnapIdx]])
    /\ snap_i' = snap_i + 1
    /\ UNCHANGED <<ring, mutex, pushing, snap_pc, snap_n, snap_skip, out>>

SnapExit ==
    /\ snap_pc = "copy"
    /\ snap_i = snap_n
    /\ snap_pc' = "idle"
    /\ mutex' = "free"
    /\ out' = copied
    /\ UNCHANGED <<ring, pushing, snap_n, snap_skip, snap_i, copied>>
-------------------------------------------------------------------------------
PushBody == PushStore \/ PushNumber \/ PushCount \/ PushExit
Push == (\E l \in Lines : PushEnter(l)) \/ PushBody
SnapBody == SnapCopy \/ SnapExit
Snapshot == (\E w \in Windows : SnapEnter(w)) \/ SnapBody

Next == Push \/ Snapshot

Spec == Init /\ [][Next]_vars
-------------------------------------------------------------------------------
Abstract == INSTANCE AppendLog WITH Keeps <- CONSOLE_LOG_LINES

\* Whatever the two cores interleave, a snapshot is the newest lines of the log at one moment,
\* in order, each with its own number: never a half-written line, a line with another's number,
\* or a window with a gap (shared_state.h:57-74).
ImplementsLog == Abstract!Init /\ [][Abstract!Next]_(Abstract!vars)
===============================================================================
