---------------------------- MODULE WatchdogProofs ----------------------------
(***************************************************************************)
(* Theorems about Watchdog, for any times that satisfy TimesAssumption and *)
(* any number of faults: what the clocks of core0, of core1 and of the     *)
(* watchdog say of each other.  And about Led, for any numbers of flashes  *)
(* and reports: what each flash and each pulse was for.                    *)
(***************************************************************************)
EXTENDS Watchdog, Led, TLAPS

\* The watchdog is armed in the loop and nowhere else.
Looping == core0 \in {"look", "act", "wait"}

\* Between two looks of a core0 that is not wedged no more than a pass goes by, and the
\* watchdog was fed no longer ago than core0 last began a pass, or two.
Feeding ==
    /\ ~wedged => asleep <= LOOP
    /\ left + asleep <= WATCHDOG + LOOP

\* A tick that core0 has not seen is younger than its pass; one that it has seen it saw before
\* it was a pass old, and has counted from then on.
Ticking ==
    /\ moved => silent <= asleep
    /\ ~moved => idle <= silent /\ silent <= idle + LOOP
    /\ left + silent <= STALL + WATCHDOG + LOOP

\* Cores that both run are as quick as that says, a look of core0 finds a tick, and the pass
\* it began feeds the watchdog.
Steady ==
    /\ steady > 0 => ~wedged /\ core1 # "stuck"
    /\ Armed /\ steady > 0 => silent <= LOOP
    /\ Armed /\ steady > asleep =>
          /\ idle <= asleep + LOOP
          /\ core0 # "act" => left >= WATCHDOG - asleep
    /\ core0 = "act" /\ steady > asleep + LOOP => left >= WATCHDOG - asleep - LOOP

\* A stall that has lasted since core0 last tested for it is flagged, and shown since.
Flagging ==
    /\ flagged /\ ~moved => ~connected
    /\ Armed /\ ~moved =>
          /\ core0 # "act" /\ idle >= STALL + asleep => flagged
          /\ core0 = "act" /\ idle >= STALL + asleep + LOOP => flagged

\* The inductive invariant.
WatchdogInv ==
    /\ TypeOK
    /\ Armed <=> Looping
    /\ ~Armed => ~flagged
    /\ Armed => Feeding /\ Ticking
    /\ Steady
    /\ Flagging
-------------------------------------------------------------------------------
\* The times, as numbers.
Times ==
    /\ LOOP \in Nat \ {0} /\ STALL \in Nat /\ WATCHDOG \in Nat /\ Longest \in Nat
    /\ 2 * LOOP < STALL /\ 2 * LOOP < WATCHDOG /\ Longest = STALL + WATCHDOG + 3 * LOOP

LEMMA TimesFact == Times
  BY TimesAssumption DEF Times, Longest

LEMMA LaterType ==
  ASSUME NEW t \in 0 .. Longest
  PROVE  Later(t) \in 0 .. Longest /\ Later(t) <= t + 1 /\ Later(t) >= t
         /\ (Later(t) = t + 1 \/ Later(t) = Longest)
<1> DEFINE m == Longest
<1>1. m \in Nat
  BY TimesFact DEF Times
<1> HIDE DEF m
<1>2. t \in 0 .. m /\ Later(t) = IF t < m THEN t + 1 ELSE t
  BY DEF Later, m
<1> QED
  BY <1>1, <1>2 DEF m

LEMMA WatchdogTypes ==
  ASSUME TypeOK, [Next]_vars
  PROVE  TypeOK'
<1>1. 0 \in 0 .. Longest /\ WATCHDOG \in -1 .. WATCHDOG /\ -1 \in -1 .. WATCHDOG
  BY TimesFact DEF Times
<1>2. CASE UNCHANGED vars
  BY <1>2 DEF TypeOK, vars
<1>3. CASE InitRadio
  BY <1>3 DEF InitRadio, TypeOK
<1>4. CASE Arm
  BY <1>1, <1>4 DEF Arm, Enabled, TypeOK
<1>5. CASE Look
  BY <1>1, <1>5 DEF Look, Progress, TypeOK
<1>6. CASE Act
  BY <1>1, <1>6 DEF Act, Fed, Unfed, TypeOK
<1>7. CASE Wake
  BY <1>7 DEF Wake, TypeOK
<1>8. CASE Core1Pass
  BY <1>1, <1>8 DEF Core1Pass, TypeOK
<1>9. CASE LinkChanges
  <2>1. faults' \in 0 .. MaxFaults
    BY <1>9, TimesAssumption DEF LinkChanges, TypeOK
  <2>2. steady' \in 0 .. Longest
    BY <1>1, <1>9 DEF LinkChanges, TypeOK
  <2> QED
    BY <1>9, <2>1, <2>2 DEF LinkChanges, TypeOK
<1>10. CASE Core0Wedges
  <2>1. faults' \in 0 .. MaxFaults
    BY <1>10, TimesAssumption DEF Core0Wedges, TypeOK
  <2> QED
    BY <1>1, <1>10, <2>1 DEF Core0Wedges, TypeOK
<1>11. CASE TimePasses
  <2>1. /\ idle' \in 0 .. Longest /\ silent' \in 0 .. Longest /\ asleep' \in 0 .. Longest
        /\ steady' \in 0 .. Longest
    BY <1>1, <1>11, LaterType DEF TimePasses, TypeOK
  <2>2. left' \in -1 .. WATCHDOG
    BY <1>11, TimesFact DEF TimePasses, Armed, TypeOK, Times
  <2> QED
    BY <1>11, <2>1, <2>2 DEF TimePasses, TypeOK
<1>12. CASE Reset
  BY <1>1, <1>12 DEF Reset, TypeOK
<1> QED
  BY <1>2, <1>3, <1>4, <1>5, <1>6, <1>7, <1>8, <1>9, <1>10, <1>11, <1>12 DEF Next, Core0
-------------------------------------------------------------------------------
(* The steps. *)

\* The parts of the invariant, as the steps need them.
Clocks ==
    /\ idle \in Nat /\ silent \in Nat /\ asleep \in Nat /\ steady \in Nat
    /\ idle <= Longest /\ silent <= Longest /\ asleep <= Longest /\ steady <= Longest
    /\ left \in Int /\ left >= -1 /\ left <= WATCHDOG

LEMMA ClocksFact ==
  ASSUME TypeOK
  PROVE  Clocks
  BY TimesFact DEF TypeOK, Clocks, Times

LEMMA ClocksFactNext == TypeOK' => Clocks'
<1>1. TypeOK => Clocks
  BY ClocksFact
<1> QED
  BY <1>1, PTL

\* Time that passes while the watchdog is armed.
LEMMA ArmedTime ==
  ASSUME WatchdogInv, TimePasses, Armed
  PROVE  /\ Clocks /\ Clocks' /\ Times
         /\ silent' = silent + 1 /\ asleep' = asleep + 1 /\ left' = left - 1 /\ left > 0
         /\ idle' <= idle + 1 /\ (idle' = idle + 1 \/ idle' = Longest)
         /\ steady' # 0 => /\ core1 # "stuck" /\ ~wedged /\ silent < LOOP /\ asleep < LOOP
                           /\ (steady' = steady + 1 \/ (steady' = Longest /\ steady = Longest))
         /\ ~wedged => asleep < LOOP
<1>1. Clocks /\ Times /\ TypeOK
  BY ClocksFact, TimesFact DEF WatchdogInv
<1>2. Clocks'
  BY <1>1, WatchdogTypes, ClocksFactNext DEF Next
<1>3. left' = left - 1 /\ left > 0
  BY <1>1 DEF TimePasses, Armed, Clocks
<1>4. asleep <= WATCHDOG + LOOP /\ silent <= STALL + WATCHDOG + LOOP
  BY <1>1, <1>3 DEF WatchdogInv, Feeding, Ticking, Clocks, Times
<1>5. asleep < Longest /\ silent < Longest
  BY <1>1, <1>4 DEF Clocks, Times
<1>6. asleep' = asleep + 1 /\ silent' = silent + 1
  BY <1>5 DEF TimePasses, Later
<1>7. idle' <= idle + 1 /\ (idle' = idle + 1 \/ idle' = Longest)
  BY LaterType DEF TimePasses, WatchdogInv, TypeOK
<1>8. core0 # "returned" /\ ~Booting
  BY DEF WatchdogInv, Looping, Booting
<1>9. ASSUME steady' # 0
      PROVE  /\ core1 # "stuck" /\ ~wedged /\ silent < LOOP /\ asleep < LOOP
             /\ (steady' = steady + 1 \/ (steady' = Longest /\ steady = Longest))
  <2>1. core1 # "stuck" /\ ~wedged /\ steady' = Later(steady)
    BY <1>9 DEF TimePasses
  <2>2. silent < LOOP /\ asleep < LOOP
    BY <1>8, <2>1 DEF TimePasses
  <2>3. steady' = steady + 1 \/ (steady' = Longest /\ steady = Longest)
    BY <1>1, <2>1 DEF Later, Clocks, Times
  <2> QED
    BY <2>1, <2>2, <2>3
<1>10. ~wedged => asleep < LOOP
  BY <1>8 DEF TimePasses
<1> QED
  BY <1>1, <1>2, <1>3, <1>6, <1>7, <1>9, <1>10

LEMMA TimePassesKeepsInv ==
  ASSUME WatchdogInv, TimePasses
  PROVE  WatchdogInv'
<1>1. TypeOK'
  BY WatchdogTypes DEF WatchdogInv, Next
<1>2. UNCHANGED <<core0, wedged, core1, moved, flagged, connected, faults>>
  BY DEF TimePasses
<1>3. /\ Armed <=> Looping
      /\ ~Armed => ~flagged
      /\ Armed => Feeding /\ Ticking
      /\ Steady /\ Flagging
  BY DEF WatchdogInv
<1>4. CASE ~Armed
  <2>1. left' = left /\ ~Armed' /\ ~Looping' /\ ~flagged'
    BY <1>2, <1>3, <1>4 DEF TimePasses, Armed, Looping
  <2>2. steady' > 0 => ~wedged' /\ core1' # "stuck"
    BY <1>2 DEF TimePasses
  <2>3. Steady'
    BY <2>1, <2>2 DEF Steady, Looping
  <2>4. Flagging'
    BY <2>1 DEF Flagging
  <2> QED
    BY <1>1, <2>1, <2>3, <2>4 DEF WatchdogInv
<1>5. CASE Armed
  <2>1. /\ Clocks /\ Clocks' /\ Times
        /\ silent' = silent + 1 /\ asleep' = asleep + 1 /\ left' = left - 1 /\ left > 0
        /\ idle' <= idle + 1 /\ (idle' = idle + 1 \/ idle' = Longest)
        /\ steady' # 0 => /\ core1 # "stuck" /\ ~wedged /\ silent < LOOP /\ asleep < LOOP
                          /\ (steady' = steady + 1 \/ (steady' = Longest /\ steady = Longest))
        /\ ~wedged => asleep < LOOP
    BY <1>5, ArmedTime
  <2>2. Armed' /\ Looping'
    BY <1>2, <1>3, <1>5, <2>1 DEF Armed, Looping, Clocks
  <2>3. Feeding'
    BY <1>2, <1>3, <1>5, <2>1 DEF Feeding, Clocks, Times
  <2>4. Ticking'
    <3>1. moved' => silent' <= asleep'
      BY <1>2, <1>3, <1>5, <2>1 DEF Ticking, Clocks
    <3>2. ~moved' => idle' <= silent'
      BY <1>2, <1>3, <1>5, <2>1 DEF Ticking, Clocks
    <3>3. ~moved' => silent' <= idle' + LOOP
      <4>1. CASE idle' = idle + 1
        BY <1>2, <1>3, <1>5, <2>1, <4>1 DEF Ticking, Clocks, Times
      <4>2. CASE idle' = Longest
        <5>1. silent' <= Longest /\ Longest \in Nat /\ LOOP \in Nat /\ silent' \in Nat
          BY <2>1 DEF Clocks, Times
        <5>2. silent' <= Longest + LOOP
          BY <5>1
        <5> QED
          BY <4>2, <5>2
      <4> QED
        BY <2>1, <4>1, <4>2
    <3>4. left' + silent' <= STALL + WATCHDOG + LOOP
      BY <1>3, <1>5, <2>1 DEF Ticking, Clocks, Times
    <3> QED
      BY <3>1, <3>2, <3>3, <3>4 DEF Ticking
  <2>5. Steady'
    BY <1>2, <1>3, <1>5, <2>1 DEF Steady, Clocks, Times, Armed
  <2>6. Flagging'
    BY <1>2, <1>3, <1>5, <2>1 DEF Flagging, Clocks, Times, Armed
  <2> QED
    BY <1>1, <2>2, <2>3, <2>4, <2>5, <2>6 DEF WatchdogInv
<1> QED
  BY <1>4, <1>5

LEMMA ArmKeepsInv ==
  ASSUME WatchdogInv, Arm
  PROVE  WatchdogInv'
<1>1. TypeOK' /\ Times
  BY WatchdogTypes, TimesFact DEF WatchdogInv, Next, Core0
<1>2. /\ core0' = "look" /\ left' = WATCHDOG /\ moved' = FALSE /\ idle' = 0
      /\ flagged' = FALSE /\ silent' = 0 /\ asleep' = 0 /\ wedged' = wedged
      /\ core1' = core1 /\ steady' = steady
  BY DEF Arm, Enabled
<1>3. Armed' /\ Looping'
  BY <1>1, <1>2 DEF Armed, Looping, Times
<1>4. Feeding' /\ Ticking'
  BY <1>1, <1>2 DEF Feeding, Ticking, Times
<1>5. Steady'
  BY <1>1, <1>2 DEF WatchdogInv, Steady, Times
<1>6. Flagging'
  BY <1>1, <1>2 DEF Flagging, Times
<1> QED
  BY <1>1, <1>3, <1>4, <1>5, <1>6 DEF WatchdogInv

LEMMA LookKeepsInv ==
  ASSUME WatchdogInv, Look
  PROVE  WatchdogInv'
<1>1. TypeOK' /\ Times /\ Clocks
  BY WatchdogTypes, TimesFact, ClocksFact DEF WatchdogInv, Next, Core0
<1>2. /\ core0 = "look" /\ ~wedged /\ core0' = "act" /\ asleep' = 0 /\ left' = left
      /\ silent' = silent /\ wedged' = wedged /\ core1' = core1 /\ steady' = steady
      /\ connected' = connected /\ moved' = FALSE
      /\ idle' = (IF moved THEN 0 ELSE idle)
      /\ flagged' = (IF moved THEN FALSE ELSE flagged)
  BY DEF Look, Progress, WatchdogInv, TypeOK
<1>3. Armed /\ Feeding /\ Ticking /\ Steady /\ Flagging
  BY <1>2 DEF WatchdogInv, Looping
<1>4. asleep <= LOOP
  BY <1>2, <1>3 DEF Feeding
<1>5. Armed' /\ Looping'
  BY <1>2, <1>3 DEF Armed, Looping
<1>6. Feeding'
  BY <1>1, <1>2, <1>3 DEF Feeding, Clocks, Times
<1>7. Ticking'
  BY <1>1, <1>2, <1>3, <1>4 DEF Ticking, Clocks, Times
<1>8. Steady'
  BY <1>1, <1>2, <1>3, <1>4, <1>7 DEF Steady, Ticking, Clocks, Times, Armed
<1>9. Flagging'
  BY <1>1, <1>2, <1>3, <1>4 DEF Flagging, Clocks, Times, Armed
<1> QED
  BY <1>1, <1>5, <1>6, <1>7, <1>8, <1>9 DEF WatchdogInv

LEMMA ActKeepsInv ==
  ASSUME WatchdogInv, Act
  PROVE  WatchdogInv'
<1>1. TypeOK' /\ Times /\ Clocks
  BY WatchdogTypes, TimesFact, ClocksFact DEF WatchdogInv, Next, Core0
<1>2. /\ core0 = "act" /\ ~wedged /\ core0' = "wait" /\ wedged' = wedged /\ core1' = core1
      /\ moved' = moved /\ idle' = idle /\ silent' = silent /\ asleep' = asleep
      /\ steady' = steady
  BY DEF Act
<1>3. Armed /\ Feeding /\ Ticking /\ Steady /\ Flagging
  BY <1>2 DEF WatchdogInv, Looping
<1>4. asleep <= LOOP
  BY <1>2, <1>3 DEF Feeding
<1>5. CASE Alive
  <2>1. left' = WATCHDOG /\ flagged' = flagged /\ connected' = connected
    BY <1>3, <1>5 DEF Act, Fed
  <2>2. idle < STALL
    BY <1>5 DEF Alive
  <2>3. Armed' /\ Looping'
    BY <1>1, <1>2, <2>1 DEF Armed, Looping, Times
  <2>4. Feeding'
    BY <1>1, <1>2, <1>4, <2>1 DEF Feeding, Clocks, Times
  <2>5. Ticking'
    BY <1>1, <1>2, <1>3, <1>4, <2>1, <2>2 DEF Ticking, Clocks, Times
  <2>6. Steady'
    BY <1>1, <1>2, <1>3, <2>1 DEF Steady, Clocks, Times, Armed
  <2>7. Flagging'
    BY <1>1, <1>2, <1>3, <2>1, <2>2 DEF Flagging, Clocks, Times, Armed
  <2> QED
    BY <1>1, <2>3, <2>4, <2>5, <2>6, <2>7 DEF WatchdogInv
<1>6. CASE ~Alive
  <2>1. left' = left /\ flagged' = TRUE /\ connected' = (connected /\ flagged)
    BY <1>6 DEF Act, Unfed
  <2>2. ~(idle < STALL)
    BY <1>6 DEF Alive
  <2>3. Armed' /\ Looping'
    BY <1>2, <1>3, <2>1 DEF Armed, Looping
  <2>4. Feeding'
    BY <1>2, <1>3, <2>1 DEF Feeding
  <2>5. Ticking'
    BY <1>2, <1>3, <2>1 DEF Ticking
  <2>6. ~(steady > asleep)
    BY <1>1, <1>3, <1>4, <2>2 DEF Steady, Clocks, Times
  <2>7. Steady'
    BY <1>2, <1>3, <2>1, <2>6 DEF Steady, Armed
  <2>8. Flagging'
    BY <1>2, <1>3, <2>1 DEF Flagging, Armed
  <2> QED
    BY <1>1, <2>3, <2>4, <2>5, <2>7, <2>8 DEF WatchdogInv
<1> QED
  BY <1>5, <1>6

LEMMA Core1PassKeepsInv ==
  ASSUME WatchdogInv, Core1Pass
  PROVE  WatchdogInv'
<1>1. TypeOK' /\ Times /\ Clocks
  BY WatchdogTypes, TimesFact, ClocksFact DEF WatchdogInv, Next
<1>2. /\ moved' = TRUE /\ silent' = 0
      /\ UNCHANGED <<core0, wedged, core1, idle, flagged, left, faults, asleep, steady>>
  BY DEF Core1Pass
<1>3. Ticking' \/ ~Armed
  BY <1>1, <1>2 DEF Ticking, Clocks, Times, TypeOK
<1>4. Steady'
  BY <1>1, <1>2 DEF WatchdogInv, Steady, Armed, Times
<1>5. Flagging'
  BY <1>2 DEF Flagging
<1> QED
  BY <1>1, <1>2, <1>3, <1>4, <1>5 DEF WatchdogInv, Armed, Looping, Feeding

LEMMA FaultsKeepInv ==
  ASSUME WatchdogInv, LinkChanges \/ Core0Wedges
  PROVE  WatchdogInv'
<1>1. TypeOK' /\ Times /\ Clocks
  BY WatchdogTypes, TimesFact, ClocksFact DEF WatchdogInv, Next
<1>2. UNCHANGED <<core0, moved, idle, flagged, connected, left, silent, asleep>>
  BY DEF LinkChanges, Core0Wedges
<1>3. /\ wedged => wedged'
      /\ steady' = 0 \/ (steady' = steady /\ wedged' = wedged /\ core1' # "stuck")
  BY DEF LinkChanges, Core0Wedges
<1>4. Steady'
  BY <1>1, <1>2, <1>3 DEF WatchdogInv, Steady, Armed, Clocks, Times, Looping
<1> QED
  BY <1>1, <1>2, <1>3, <1>4 DEF WatchdogInv, Armed, Looping, Feeding, Ticking, Flagging

LEMMA ResetKeepsInv ==
  ASSUME WatchdogInv, Reset
  PROVE  WatchdogInv'
<1>1. TypeOK' /\ Times
  BY WatchdogTypes, TimesFact DEF WatchdogInv, Next
<1>2. /\ left' = -1 /\ core0' = "init" /\ flagged' = FALSE /\ steady' = 0 /\ asleep' = 0
  BY DEF Reset
<1>3. ~Armed' /\ ~Looping'
  BY <1>2 DEF Armed, Looping
<1>4. Steady'
  BY <1>1, <1>2, <1>3 DEF Steady, Looping, Times
<1>5. Flagging'
  BY <1>2, <1>3 DEF Flagging
<1> QED
  BY <1>1, <1>2, <1>3, <1>4, <1>5 DEF WatchdogInv

LEMMA WatchdogInvariant == Spec => []WatchdogInv
<1>1. Init => WatchdogInv
  <2> SUFFICES ASSUME Init PROVE WatchdogInv
    OBVIOUS
  <2>1. Times
    BY TimesFact
  <2>2. TypeOK
    <3>1. 0 \in 0 .. Longest /\ -1 \in -1 .. WATCHDOG /\ 0 \in 0 .. MaxFaults
      BY <2>1, TimesAssumption DEF Times
    <3> QED
      BY <3>1 DEF Init, TypeOK
  <2>3. ~Armed /\ ~Looping /\ ~flagged
    BY DEF Init, Armed, Looping
  <2>4. Steady
    BY <2>1, <2>3 DEF Init, Steady, Times
  <2> QED
    BY <2>2, <2>3, <2>4 DEF WatchdogInv, Flagging
<1>2. WatchdogInv /\ [Next]_vars => WatchdogInv'
  <2> SUFFICES ASSUME WatchdogInv, [Next]_vars PROVE WatchdogInv'
    OBVIOUS
  <2>1. CASE UNCHANGED vars
    BY <2>1 DEF vars, WatchdogInv, TypeOK, Armed, Looping, Feeding, Ticking, Steady, Flagging
  <2>2. CASE InitRadio \/ Wake
    <3>1. TypeOK'
      BY WatchdogTypes DEF WatchdogInv
    <3>2. /\ UNCHANGED <<wedged, core1, moved, idle, flagged, connected, left, faults, silent,
                         asleep, steady>>
          /\ core0 # "act" /\ core0' # "act" /\ (Looping' <=> Looping)
      BY <2>2 DEF InitRadio, Wake, Looping
    <3> QED
      BY <3>1, <3>2 DEF WatchdogInv, Armed, Feeding, Ticking, Steady, Flagging
  <2>3. CASE Arm
    BY <2>3, ArmKeepsInv
  <2>4. CASE Look
    BY <2>4, LookKeepsInv
  <2>5. CASE Act
    BY <2>5, ActKeepsInv
  <2>6. CASE Core1Pass
    BY <2>6, Core1PassKeepsInv
  <2>7. CASE LinkChanges \/ Core0Wedges
    BY <2>7, FaultsKeepInv
  <2>8. CASE TimePasses
    BY <2>8, TimePassesKeepsInv
  <2>9. CASE Reset
    BY <2>9, ResetKeepsInv
  <2> QED
    BY <2>1, <2>2, <2>3, <2>4, <2>5, <2>6, <2>7, <2>8, <2>9 DEF Next, Core0
<1> QED
  BY <1>1, <1>2, PTL DEF Spec
-------------------------------------------------------------------------------
\* A core that stays away has the board reset within the two timeouts and a pass.
THEOREM BoardIsReset == Spec => []ResetInTime
<1>1. WatchdogInv => ResetInTime
  <2> SUFFICES ASSUME WatchdogInv, Armed
               PROVE  silent <= STALL + WATCHDOG + LOOP /\ asleep <= WATCHDOG + LOOP
    BY DEF WatchdogInv, ResetInTime
  <2>1. Clocks /\ Times /\ left # -1
    BY ClocksFact, TimesFact DEF WatchdogInv, Armed
  <2> QED
    BY <2>1 DEF WatchdogInv, Feeding, Ticking, Clocks, Times
<1> QED
  BY <1>1, WatchdogInvariant, PTL

\* Two passes after the last of the cores is back the watchdog has been fed, and stays so.
THEOREM ShortStallIsForgiven == Spec => []RecoveryIsFed
<1>1. WatchdogInv => RecoveryIsFed
  <2> SUFFICES ASSUME WatchdogInv, Armed, steady > 2 * LOOP
               PROVE  left >= WATCHDOG - 2 * LOOP
    BY DEF RecoveryIsFed
  <2>1. Clocks /\ Times
    BY ClocksFact, TimesFact DEF WatchdogInv
  <2>2. steady > 0 /\ asleep <= LOOP
    BY <2>1 DEF WatchdogInv, Steady, Feeding, Clocks, Times
  <2>3. steady > asleep /\ steady > asleep + LOOP
    BY <2>1, <2>2 DEF Clocks, Times
  <2>4. left >= WATCHDOG - asleep \/ left >= WATCHDOG - asleep - LOOP
    BY <2>3 DEF WatchdogInv, Steady
  <2> QED
    BY <2>1, <2>2, <2>4 DEF Clocks, Times
<1> QED
  BY <1>1, WatchdogInvariant, PTL

\* A core1 that stays away is shown as disconnected.
THEOREM DisconnectionIsShown == Spec => []StallIsShown
<1>1. WatchdogInv => StallIsShown
  <2> SUFFICES ASSUME WatchdogInv, Armed, silent >= STALL + 3 * LOOP, ~wedged
               PROVE  ~connected
    BY DEF StallIsShown
  <2>1. Clocks /\ Times /\ Feeding /\ Ticking /\ Flagging
    BY ClocksFact, TimesFact DEF WatchdogInv
  <2>2. asleep <= LOOP
    BY <2>1 DEF Feeding
  <2>3. ~moved
    BY <2>1, <2>2 DEF Ticking, Clocks, Times
  <2>4. idle >= STALL + asleep /\ idle >= STALL + asleep + LOOP
    BY <2>1, <2>2, <2>3 DEF Ticking, Clocks, Times
  <2> QED
    BY <2>1, <2>3, <2>4 DEF Flagging
<1> QED
  BY <1>1, WatchdogInvariant, PTL
-------------------------------------------------------------------------------
(* What core0 also does on each pass: the LED. *)

\* The LED's flashes are those the cue has counted, and the one that is on.
LedShown ==
    /\ main # "loop" <=> phase = "BOOT"
    /\ main = "start" => lit.flashes = 0
    /\ phase = "BOOT" => lit.flashes = 0 /\ ~led_on
    /\ heartbeat_active => phase = "NORMAL"
    /\ phase = "GOT_IP" =>
          /\ got_ip_flashes_done < GOT_IP_FLASH_COUNT
          /\ lit.flashes = got_ip_flashes_done + (IF led_on THEN 1 ELSE 0)
    /\ phase = "NORMAL" => lit.flashes = GOT_IP_FLASH_COUNT /\ (led_on => heartbeat_active)

\* Each pulse that was shown, and the one that is armed, was armed by a report of its own.
Earned(shown, armed, n) ==
    (shown + (IF armed THEN 1 ELSE 0)) * LED_HEARTBEAT_EVERY_N_LINES <= n

\* The inductive invariant.
LedInv == LedTypeOK /\ LedShown /\ Earned(lit.pulses, led_pulse_pending, led_line_count)

\* Between two multiples of N lie N - 1 numbers: the pulse armed at a multiple has its own N.
LEMMA NextMultiple ==
  ASSUME NEW N \in Nat \ {0}, NEW p \in Nat, NEW n \in Nat, p * N <= n, (n + 1) % N = 0
  PROVE  (p + 1) * N <= n + 1
<1>1. PICK k \in Int : n + 1 = N * k
  <2> DEFINE k == (n + 1) \div N
  <2>1. k \in Int /\ n + 1 = (N * k) + ((n + 1) % N)
    OBVIOUS
  <2>2. n + 1 = N * k
    BY <2>1
  <2> HIDE DEF k
  <2> QED
    BY <2>1, <2>2
<1>2. p < k
  <2>1. CASE k <= p
    <3>1. N * k <= N * p
      BY <2>1
    <3> QED
      BY <3>1, <1>1
  <2> QED
    BY <2>1
<1>3. (p + 1) * N <= k * N
  BY <1>2
<1> QED
  BY <1>1, <1>3

\* What a report and a shown pulse do to the account of the pulses.
LEMMA EarnedStep ==
  ASSUME NEW p \in Nat, NEW armed \in BOOLEAN, NEW n \in Nat,
         Earned(p, armed, n)
  PROVE  /\ Earned(p, armed \/ Arms(n + 1), n + 1)
         /\ p * LED_HEARTBEAT_EVERY_N_LINES <= n
         /\ armed => Earned(p + 1, FALSE, n)
<1> DEFINE N == LED_HEARTBEAT_EVERY_N_LINES
<1>1. N \in Nat \ {0}
  BY LedAssumption
<1>2. p * N \in Nat /\ (p + 1) * N \in Nat /\ (p + 1) * N = p * N + N
  BY <1>1
<1>3. ~armed /\ Arms(n + 1) => (p + 1) * N <= n + 1
  <2> SUFFICES ASSUME ~armed, Arms(n + 1) PROVE (p + 1) * N <= n + 1
    OBVIOUS
  <2>1. p * N <= n
    BY DEF Earned
  <2>2. (n + 1) % N = 0
    BY DEF Arms
  <2> HIDE DEF N
  <2> QED
    BY <1>1, <2>1, <2>2, NextMultiple
<1> DEFINE a == p * N
           b == (p + 1) * N
<1>4. a \in Nat /\ b \in Nat /\ a <= b
  BY <1>1, <1>2
<1>5. p + 0 = p /\ (p + 1) + 0 = p + 1
  OBVIOUS
<1>6. IF armed THEN b <= n ELSE a <= n
  BY <1>5 DEF Earned
<1>7. Arms(n + 1) \in BOOLEAN
  BY DEF Arms
<1>8. IF armed \/ Arms(n + 1) THEN b <= n + 1 ELSE a <= n + 1
  <2> HIDE DEF a, b
  <2> QED
    BY <1>3, <1>4, <1>6 DEF a, b
<1>9. a <= n
  <2> HIDE DEF a, b
  <2> QED
    BY <1>4, <1>6
<1> QED
  BY <1>5, <1>6, <1>7, <1>8, <1>9 DEF Earned

LEMMA LedInitial == LedInit => LedInv
<1> SUFFICES ASSUME LedInit PROVE LedInv
  OBVIOUS
<1>0. /\ GOT_IP_FLASH_COUNT \in Nat \ {0} /\ BLINK \in Nat \ {0} /\ FLASH \in Nat \ {0}
      /\ PULSE \in Nat \ {0} /\ MaxLines \in Nat
  BY LedAssumption
<1> USE DEF LedInit
<1>1. LedTypeOK
  <2>1. /\ 0 \in 0 .. (BLINK + FLASH) /\ 0 \in 0 .. PULSE /\ 0 \in 0 .. GOT_IP_FLASH_COUNT
        /\ 0 \in 0 .. MaxLines
    BY <1>0
  <2>2. lit \in [flashes : Nat, pulses : Nat]
    OBVIOUS
  <2> QED
    BY <2>1, <2>2 DEF LedTypeOK
<1>2. LedShown
  BY DEF LedShown
<1>3. Earned(lit.pulses, led_pulse_pending, led_line_count)
  BY LedAssumption DEF Earned
<1> QED
  BY <1>1, <1>2, <1>3 DEF LedInv

LEMMA LedKeeps ==
  ASSUME LedInv, [LedNext]_led_vars
  PROVE  LedInv'
<1>0. /\ GOT_IP_FLASH_COUNT \in Nat \ {0} /\ BLINK \in Nat \ {0} /\ FLASH \in Nat \ {0}
      /\ PULSE \in Nat \ {0} /\ MaxLines \in Nat
  BY LedAssumption
<1>t. LedTypeOK /\ LedShown /\ Earned(lit.pulses, led_pulse_pending, led_line_count)
  BY DEF LedInv
<1>r. /\ {0, FLASH, BLINK} \subseteq 0 .. (BLINK + FLASH) /\ {0, PULSE} \subseteq 0 .. PULSE
      /\ 0 \in 0 .. GOT_IP_FLASH_COUNT
  BY <1>0
<1> USE <1>0, <1>t
<1> DEFINE Pulses == Earned(lit.pulses, led_pulse_pending, led_line_count)
<1>l. /\ lit.pulses \in Nat /\ lit.flashes \in Nat
      /\ lit = [flashes |-> lit.flashes, pulses |-> lit.pulses]
  BY DEF LedTypeOK
<1>1. CASE InitLed
  <2> USE <1>1 DEF InitLed, pulse
  <2>1. LedTypeOK'
    BY <1>r DEF LedTypeOK
  <2>2. LedShown'
    BY DEF LedShown
  <2> QED
    BY <2>1, <2>2 DEF LedInv
<1>2. CASE NotifyGotIp
  <2> USE <1>2 DEF NotifyGotIp, pulse
  <2>1. LedTypeOK'
    BY <1>r DEF LedTypeOK
  <2>2. LedShown'
    BY DEF LedShown
  <2> QED
    BY <2>1, <2>2 DEF LedInv
<1>3. CASE LedTask
  <2>1. CASE phase # "NORMAL" /\ next_deadline = 0 /\ TaskGotIp /\ UNCHANGED main /\ main = "loop"
    <3>1. phase = "GOT_IP"
      BY <2>1 DEF LedShown, LedTypeOK
    <3>2. Pulses' /\ lit'.pulses = lit.pulses /\ lit' \in [flashes : Nat, pulses : Nat]
      BY <2>1, <1>l DEF TaskGotIp, pulse
    <3>3. CASE led_on
      <4>1. got_ip_flashes_done' = got_ip_flashes_done + 1 /\ UNCHANGED lit /\ led_on' = FALSE
        BY <2>1, <3>3 DEF TaskGotIp
      <4>2. phase' = IF got_ip_flashes_done + 1 >= GOT_IP_FLASH_COUNT THEN "NORMAL" ELSE "GOT_IP"
        BY <2>1, <3>3 DEF TaskGotIp, FlashesDone
      <4>3. LedTypeOK'
        BY <2>1, <3>1, <3>2, <3>3, <4>1, <4>2 DEF LedTypeOK, TaskGotIp, pulse, LedShown
      <4>4. LedShown'
        BY <2>1, <3>1, <3>3, <4>1, <4>2 DEF LedTypeOK, TaskGotIp, LedShown
      <4> QED
        BY <4>3, <4>4, <3>2 DEF LedInv
    <3>4. CASE ~led_on
      <4>1. UNCHANGED <<got_ip_flashes_done, phase, heartbeat_active>> /\ led_on' = TRUE
        BY <2>1, <3>4 DEF TaskGotIp, LedTypeOK
      <4>2. lit'.flashes = lit.flashes + 1
        BY <2>1, <3>4, <1>l DEF TaskGotIp
      <4>3. LedTypeOK'
        BY <2>1, <3>1, <3>2, <3>4, <4>1, <4>2 DEF LedTypeOK, TaskGotIp, pulse
      <4>4. LedShown'
        BY <2>1, <3>1, <3>4, <4>1, <4>2, <1>l DEF LedTypeOK, LedShown
      <4> QED
        BY <4>3, <4>4, <3>2 DEF LedInv
    <3> QED
      BY <3>3, <3>4 DEF LedTypeOK
  <2>2. CASE phase = "NORMAL" /\ heartbeat_active /\ HeartbeatOff
    <3> USE <2>2 DEF HeartbeatOff, HeartbeatEnds, pulse
    <3>1. LedTypeOK'
      BY DEF LedTypeOK
    <3>2. LedShown'
      BY DEF LedShown
    <3> QED
      BY <3>1, <3>2 DEF LedInv
  <2>3. CASE phase = "NORMAL" /\ ~heartbeat_active /\ HeartbeatOn
    <3>0. /\ led_pulse_pending /\ led_pulse_pending' = FALSE /\ led_on' = TRUE
          /\ heartbeat_active' = TRUE /\ heartbeat_off_at' = PULSE
          /\ lit' = [lit EXCEPT !.pulses = @ + 1]
          /\ UNCHANGED <<main, phase, next_deadline, got_ip_flashes_done, led_line_count>>
      BY <2>3 DEF HeartbeatOn, Taken
    <3>1. /\ lit'.pulses = lit.pulses + 1 /\ lit'.flashes = lit.flashes
          /\ lit' \in [flashes : Nat, pulses : Nat]
      BY <3>0, <1>l
    <3>2. LedTypeOK'
      BY <1>r, <3>0, <3>1 DEF LedTypeOK
    <3>3. LedShown'
      BY <2>3, <3>0, <3>1 DEF LedShown
    <3>4. Earned(lit.pulses + 1, FALSE, led_line_count)
      <4>1. led_line_count \in Nat /\ led_pulse_pending \in BOOLEAN
        BY DEF LedTypeOK
      <4> QED
        BY <1>l, <3>0, <4>1, EarnedStep
    <3>5. Pulses'
      BY <3>0, <3>1, <3>4
    <3> QED
      BY <3>2, <3>3, <3>5 DEF LedInv
  <2>4. phase = "BOOT" => ~LedTask
    BY DEF LedTask, LedShown
  <2> QED
    BY <1>3, <2>1, <2>2, <2>3, <2>4 DEF LedTask
<1>4. CASE NotifyStatusLine
  <2>0. /\ led_line_count < MaxLines /\ led_line_count' = led_line_count + 1
        /\ led_pulse_pending' = (led_pulse_pending \/ Arms(led_line_count + 1))
        /\ UNCHANGED <<main, phase, led_on, next_deadline, got_ip_flashes_done,
                      heartbeat_active, heartbeat_off_at, lit>>
    BY <1>4 DEF NotifyStatusLine, led, Arms
  <2>1. LedTypeOK'
    <3>1. led_pulse_pending' \in BOOLEAN
      BY <2>0 DEF LedTypeOK
    <3>2. led_line_count' \in 0 .. MaxLines
      BY <2>0 DEF LedTypeOK
    <3> QED
      BY <2>0, <3>1, <3>2 DEF LedTypeOK
  <2>2. LedShown'
    BY <2>0 DEF LedShown
  <2>3. Pulses'
    <3>1. led_line_count \in Nat /\ led_pulse_pending \in BOOLEAN
      BY DEF LedTypeOK
    <3>2. Earned(lit.pulses, led_pulse_pending \/ Arms(led_line_count + 1), led_line_count + 1)
      BY <1>l, <3>1, EarnedStep
    <3> QED
      BY <2>0, <3>2
  <2> QED
    BY <2>1, <2>2, <2>3 DEF LedInv
<1>5. CASE DeadlinesNear
  <2> USE <1>5 DEF DeadlinesNear, Down, pulse
  <2>1. LedTypeOK'
    BY DEF LedTypeOK
  <2>2. LedShown'
    BY DEF LedShown
  <2> QED
    BY <2>1, <2>2 DEF LedInv
<1>6. CASE UNCHANGED led_vars
  <2> USE <1>6 DEF led_vars, led, pulse
  <2>1. LedTypeOK'
    BY DEF LedTypeOK
  <2>2. LedShown'
    BY DEF LedShown
  <2> QED
    BY <2>1, <2>2 DEF LedInv
<1> QED
  BY <1>1, <1>2, <1>3, <1>4, <1>5, <1>6 DEF LedNext

-------------------------------------------------------------------------------
\* The cue is played once and each pulse is earned, for any numbers of flashes and reports.
THEOREM HeartbeatIsEarned == LedSpec => []LitAsPromised
<1>1. LedInit => LedInv
  BY LedInitial
<1>2. LedInv /\ [LedNext]_led_vars => LedInv'
  BY LedKeeps
<1>3. LedInv => LitAsPromised
  <2> SUFFICES ASSUME LedInv PROVE LitAsPromised
    OBVIOUS
  <2>1. lit.pulses \in Nat /\ led_pulse_pending \in BOOLEAN /\ led_line_count \in Nat
    BY LedAssumption DEF LedInv, LedTypeOK
  <2>2. lit.pulses * LED_HEARTBEAT_EVERY_N_LINES <= led_line_count
    BY <2>1, EarnedStep DEF LedInv
  <2> QED
    BY <2>2 DEF LedInv, LedShown, LitAsPromised
<1> QED
  BY <1>1, <1>2, <1>3, PTL DEF LedSpec
===============================================================================
