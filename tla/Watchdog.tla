------------------------------- MODULE Watchdog -------------------------------
(***************************************************************************)
(* src/main.c: the boot of core0, its loop, and the hardware watchdog that *)
(* it feeds while core1's tick counter moves.  Time passes in whole units; *)
(* a core that runs gets through its loop at least once in LOOP of them.   *)
(* Between two looks of core0 the 32-bit counter cannot come round, so it  *)
(* is enough to know whether it moved.                                     *)
(***************************************************************************)
EXTENDS Integers

CONSTANTS LOOP,         \* longest pass of either core, the 20 ms wait included
          STALL,        \* CORE1_STALL_TIMEOUT_MS
          WATCHDOG,     \* WATCHDOG_TIMEOUT_MS
          InitFails,    \* may cyw43_arch_init fail
          MaxFaults     \* bound on how often something gets stuck

ASSUME TimesAssumption ==
    /\ LOOP \in Nat \ {0} /\ STALL \in Nat /\ WATCHDOG \in Nat
    /\ 2 * LOOP < STALL /\ 2 * LOOP < WATCHDOG
    /\ InitFails \in BOOLEAN /\ MaxFaults \in Nat

VARIABLES core0,        \* where core0 is
          wedged,       \* core0 hangs there
          core1,        \* "runs"; "deaf": tuh_task returns, but nothing is heard; "stuck" in it
          moved,        \* core1_tick_count # last_core1_tick
          idle,         \* time since last_core1_progress
          flagged,      \* core1_flagged_stalled
          connected,    \* state.connected
          left,         \* time until the watchdog resets the board; -1 while it is not armed
          faults,       \* what MaxFaults bounds
          silent,       \* history: time since core1's last tick, from the arming on
          asleep,       \* history: time since core0 last began a pass, or armed
          steady        \* history: for how long neither core has been stuck

vars == <<core0, wedged, core1, moved, idle, flagged, connected, left, faults,
          silent, asleep, steady>>

Longest == STALL + WATCHDOG + 3 * LOOP

TypeOK ==
    /\ core0 \in {"init", "bringup", "look", "act", "wait", "returned"}
    /\ core1 \in {"runs", "deaf", "stuck"}
    /\ wedged \in BOOLEAN /\ moved \in BOOLEAN /\ flagged \in BOOLEAN /\ connected \in BOOLEAN
    /\ idle \in 0 .. Longest /\ silent \in 0 .. Longest /\ asleep \in 0 .. Longest
    /\ steady \in 0 .. Longest
    /\ left \in -1 .. WATCHDOG
    /\ faults \in 0 .. MaxFaults

Booting == core0 \in {"init", "bringup"}
Armed == left # -1

Init ==
    /\ core0 = "init" /\ wedged = FALSE
    /\ core1 = "runs" /\ moved = FALSE
    /\ idle = 0 /\ flagged = FALSE
    /\ connected = FALSE
    /\ left = -1
    /\ faults = 0
    /\ silent = 0 /\ asleep = 0 /\ steady = 0
-------------------------------------------------------------------------------
\* cyw43_arch_init, line 48: on a failure main returns, and core1 goes on alone.
InitRadio ==
    /\ core0 = "init"
    /\ ~wedged
    /\ core0' \in {"bringup"} \cup (IF InitFails THEN {"returned"} ELSE {})
    /\ UNCHANGED <<wedged, core1, moved, idle, flagged, connected, left, faults, silent,
                   asleep, steady>>

\* Mutant: the watchdog is not enabled.
NotEnabled == -1

Enabled == WATCHDOG

\* Bring-up and the HTTP server are done: the watchdog is armed, and the loop's locals set.
Arm ==
    /\ core0 = "bringup"
    /\ ~wedged
    /\ core0' = "look"
    /\ left' = Enabled
    /\ moved' = FALSE /\ idle' = 0 /\ flagged' = FALSE
    /\ silent' = 0 /\ asleep' = 0
    /\ UNCHANGED <<wedged, core1, connected, faults, steady>>

\* Mutants: the flag stays once it was set; only a flagged stall restarts the clock.
ProgressKeepingFlag == moved' = FALSE /\ idle' = 0 /\ UNCHANGED flagged
ProgressUnlessFlagged ==
    moved' = FALSE /\ flagged' = flagged /\ idle' = IF flagged THEN idle ELSE 0

Progress == moved' = FALSE /\ idle' = 0 /\ flagged' = FALSE

\* The top of the loop: WiFi, the LED, and core1's tick counter.
Look ==
    /\ core0 = "look"
    /\ ~wedged
    /\ IF moved THEN Progress ELSE UNCHANGED <<moved, idle, flagged>>
    /\ core0' = "act"
    /\ asleep' = 0
    /\ UNCHANGED <<wedged, core1, connected, left, faults, silent, steady>>

Alive == idle < STALL

\* watchdog_update.
Fed == IF Armed THEN WATCHDOG ELSE left

\* Mutant: the watchdog is fed after the test, whichever way it went.
UnfedFedAnyway == Fed

Unfed == left

Act ==
    /\ core0 = "act"
    /\ ~wedged
    /\ IF Alive
       THEN left' = Fed /\ UNCHANGED <<flagged, connected>>
       ELSE /\ flagged' = TRUE
            /\ connected' = (connected /\ flagged)
            /\ left' = Unfed
    /\ core0' = "wait"
    /\ UNCHANGED <<wedged, core1, moved, idle, faults, silent, asleep, steady>>

\* cyw43_arch_wait_for_work_until returns.
Wake ==
    /\ core0 = "wait"
    /\ ~wedged
    /\ core0' = "look"
    /\ UNCHANGED <<wedged, core1, moved, idle, flagged, connected, left, faults, silent,
                   asleep, steady>>

Core0 == InitRadio \/ Arm \/ Look \/ Act \/ Wake

\* A pass of core1's loop.  While it hears grblHAL, it may report or lose the connection.
Core1Pass ==
    /\ core1 # "stuck"
    /\ moved' = TRUE
    /\ silent' = 0
    /\ connected' \in (IF core1 = "runs" THEN BOOLEAN ELSE {connected})
    /\ UNCHANGED <<core0, wedged, core1, idle, flagged, left, faults, asleep, steady>>
-------------------------------------------------------------------------------
\* A bad cable leaves TinyUSB deaf or stuck; it may come back by itself.
LinkChanges ==
    /\ core1' \in {"runs", "deaf", "stuck"} \ {core1}
    /\ faults' = faults + (IF core1 = "runs" THEN 1 ELSE 0)
    /\ faults' <= MaxFaults
    /\ steady' = IF core1' = "stuck" THEN 0 ELSE steady
    /\ UNCHANGED <<core0, wedged, moved, idle, flagged, connected, left, silent, asleep>>

Core0Wedges ==
    /\ ~wedged
    /\ core0 # "returned"
    /\ faults < MaxFaults
    /\ faults' = faults + 1
    /\ wedged' = TRUE
    /\ steady' = 0
    /\ UNCHANGED <<core0, core1, moved, idle, flagged, connected, left, silent, asleep>>

Later(t) == IF t < Longest THEN t + 1 ELSE t

\* A running core does not let more than LOOP pass, and an expired watchdog no time at all.
TimePasses ==
    /\ left # 0
    /\ core1 = "stuck" \/ silent < LOOP
    /\ Booting \/ core0 = "returned" \/ wedged \/ asleep < LOOP
    /\ idle' = Later(idle)
    /\ silent' = Later(silent)
    /\ asleep' = Later(asleep)
    /\ steady' = IF core1 = "stuck" \/ wedged THEN 0 ELSE Later(steady)
    /\ left' = IF Armed THEN left - 1 ELSE left
    /\ UNCHANGED <<core0, wedged, core1, moved, flagged, connected, faults>>

\* The chip resets: both cores and the USB peripheral start anew.
Reset ==
    /\ left = 0
    /\ core0' = "init" /\ wedged' = FALSE
    /\ core1' = "runs" /\ moved' = FALSE
    /\ idle' = 0 /\ flagged' = FALSE
    /\ connected' = FALSE
    /\ left' = -1
    /\ silent' = 0 /\ asleep' = 0 /\ steady' = 0
    /\ UNCHANGED faults

Next == Core0 \/ Core1Pass \/ LinkChanges \/ Core0Wedges \/ TimePasses \/ Reset

\* A core that is neither stuck nor wedged goes on, time passes, an expired watchdog resets.
Fairness ==
    /\ WF_vars(Core0) /\ WF_vars(Core1Pass)
    /\ WF_vars(TimePasses) /\ WF_vars(Reset)

Spec == Init /\ [][Next]_vars /\ Fairness
-------------------------------------------------------------------------------
\* Once armed, a core1 that no longer ticks, or a core0 that no longer loops, has the board
\* reset within the two timeouts and a pass: never later, and the watchdog is never set to more
\* than its period (the clocks stay in range).
ResetInTime ==
    /\ TypeOK
    /\ Armed => silent <= STALL + WATCHDOG + LOOP /\ asleep <= WATCHDOG + LOOP

\* A short stall is forgiven, and nothing but a stall resets the board: two passes after the
\* last of the cores is back, the watchdog has been fed, and is fed from then on.
RecoveryIsFed == Armed /\ steady > 2 * LOOP => left >= WATCHDOG - 2 * LOOP

\* A core1 that stays away is shown as disconnected, also the second time (main.c:84, 93-95).
\* Its last tick may be seen a pass late, and the stall another two: one to look, one to act.
StallIsShown == Armed /\ silent >= STALL + 3 * LOOP /\ ~wedged => ~connected

\* A core1 stuck for good is reset, also one that got stuck while the board still boots,
\* unless core0 hung or gave up before it armed the watchdog (main.c:48-50, 67-69).
NeverArms == (wedged /\ Booting) \/ core0 = "returned"
StuckIsReset == core1 = "stuck" ~> core1 # "stuck" \/ NeverArms
===============================================================================
