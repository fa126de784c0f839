----------------------------- MODULE SharedState -----------------------------
(***************************************************************************)
(* src/shared_state.c as the two cores use it: the G-code queue and a      *)
(* console log, each under a mutex of its own.  A core is inside one call  *)
(* at a time: core0 pushes commands (handle_gcode_post) or copies the log  *)
(* (handle_status), core1 pops commands (grbl_link_core1_main) or pushes   *)
(* to the log (on_line).                                                   *)
(***************************************************************************)
EXTENDS GcodeQueue

CONSTANTS CONSOLE_LOG_LINES, LogLines, Windows, MaxPushes

VARIABLES log_lines, log_seqs, log_head, log_count, log_next_seq, log_mutex,
          log_push_pc, log_push_line, log_snap_pc, log_snap_n, log_snap_skip, log_snap_i,
          log_copied, log_out, log

Log == INSTANCE LogRing WITH
    Lines <- LogLines, lines <- log_lines, seqs <- log_seqs, head <- log_head,
    count <- log_count, next_seq <- log_next_seq, mutex <- log_mutex,
    push_pc <- log_push_pc, push_line <- log_push_line, snap_pc <- log_snap_pc,
    snap_n <- log_snap_n, snap_skip <- log_snap_skip, snap_i <- log_snap_i,
    copied <- log_copied, out <- log_out

ASSUME LogAssumption == Log!RingAssumption

logvars == <<log_lines, log_seqs, log_head, log_count, log_next_seq, log_mutex,
             log_push_pc, log_push_line, log_snap_pc, log_snap_n, log_snap_skip, log_snap_i,
             log_copied, log_out, log>>
allvars == <<vars, logvars>>

SharedInit == Init /\ Log!Init

\* What a core does in one of the two it does while it is in no call of the other.
InQueue(call) == call /\ UNCHANGED logvars
InLog(call)   == call /\ UNCHANGED vars

GcodePost == log_snap_pc = "idle" /\ InQueue(Push)
Status    == push_pc = "idle" /\ InLog(Log!Snapshot)
Core1Pop  == log_push_pc = "idle" /\ InQueue(Pop)
OnLine    == pop_pc = "idle" /\ InLog(Log!Push)

SharedNext == GcodePost \/ Status \/ Core1Pop \/ OnLine

\* A call that has begun runs on, and core1 polls the queue on every pass of its loop.
SharedFairness ==
    /\ WF_allvars(InQueue(PushBody))
    /\ WF_allvars(InLog(Log!SnapBody))
    /\ WF_allvars(InLog(Log!PushBody))
    /\ WF_allvars(InQueue(PopCopy \/ PopAdvance \/ PopCount \/ PopExit))
    /\ SF_allvars(log_push_pc = "idle" /\ InQueue(PopEnter))

SharedSpec == SharedInit /\ [][SharedNext]_allvars /\ SharedFairness
-------------------------------------------------------------------------------
\* Both rings keep their indices in range, whatever is under way in the other.
SharedTypeOK == TypeOK /\ Log!TypeOK

\* Whatever the two cores interleave, a snapshot is the newest lines of the log at one moment,
\* in order, each with its own number: never a half-written line, a line with another's number,
\* or a window with a gap (shared_state.h:57-74).
ImplementsLog == Log!ImplementsLog
===============================================================================
