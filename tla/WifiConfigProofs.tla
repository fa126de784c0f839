--------------------------- MODULE WifiConfigProofs ---------------------------
(***************************************************************************)
(* Theorems about WifiConfig, for any credentials, any number of posts,    *)
(* resets and failed saves, and any network.                               *)
(***************************************************************************)
EXTENDS WifiConfig, TLAPS

-------------------------------------------------------------------------------
(* The record in flash. *)

\* A record that was programmed whole is believed.
LEMMA WholeIsLoadable ==
  ASSUME NEW c \in Creds, NEW r, r = RecordOf(c)
  PROVE  r \in Record /\ r.magic = TRUE /\ r.text = c /\ r.crc = c /\ c # Scrambled
  BY CredsAssumption DEF RecordOf, Record

LEMMA ErasedIsRecord == Erased \in Record /\ Erased.magic = FALSE
  BY DEF Erased, Record

\* What an interrupted erase leaves is believed only if it is the old record.
LEMMA TornErase ==
  ASSUME NEW old \in Record, NEW r \in Between(old, Erased)
  PROVE  /\ r \in Record
         /\ r.magic = TRUE /\ r.text # Scrambled /\ r.crc = r.text => r = old
<1>1. r \in Record /\ \A f \in DOMAIN r : r[f] \in {old[f], Erased[f]}
  BY DEF Between
<1>2. /\ r.magic \in {old.magic, FALSE} /\ r.text \in {old.text, Scrambled}
      /\ r.crc \in {old.crc, Scrambled}
  BY <1>1 DEF Record, Erased
<1>3. ASSUME r.magic = TRUE, r.text # Scrambled, r.crc = r.text
      PROVE  r = old
  <2>1. r.magic = old.magic /\ r.text = old.text /\ r.crc = old.crc
    BY <1>2, <1>3
  <2> QED
    BY <1>1, <2>1 DEF Record
<1> QED
  BY <1>1, <1>3

\* What an interrupted program leaves is never believed.
LEMMA TornProgram ==
  ASSUME NEW c \in Creds, NEW r \in Between(Erased, RecordOf(c))
  PROVE  r \in Record /\ ~(r.magic = TRUE /\ r.text # Scrambled /\ r.crc = r.text)
<1>1. /\ r \in Record /\ r # RecordOf(c)
      /\ \A f \in DOMAIN r : r[f] \in {Erased[f], RecordOf(c)[f]}
  BY DEF Between
<1>2. r.text \in {Scrambled, c} /\ r.crc \in {Scrambled, c}
  BY <1>1 DEF Record, Erased, RecordOf
<1>3. ASSUME r.magic = TRUE, r.text # Scrambled, r.crc = r.text
      PROVE  FALSE
  <2>1. r.magic = TRUE /\ r.text = c /\ r.crc = c
    BY <1>2, <1>3
  <2>2. r = RecordOf(c)
    BY <1>1, <2>1 DEF Record, RecordOf
  <2> QED
    BY <1>1, <2>2
<1> QED
  BY <1>1, <1>3

-------------------------------------------------------------------------------
\* A record that a boot would believe is the one last programmed whole, and there is one
\* unless power was lost within a save.
FlashIsSaved ==
    /\ Loadable => saved \in Creds /\ flash = RecordOf(saved)
    /\ saved # NoCreds /\ torn = FALSE /\ core0 \notin Programming => Loadable

\* What the boot at hand goes by.
BootInv ==
    /\ core0 \in Saving \cup Programming \cup {"connect"} => creds \in Creds
    /\ BootUsesWholeRecord
    /\ core0 = "connect" /\ from_flash = TRUE => Loadable
    /\ FlashWins
    /\ core0 \in {"load", "connect"} => joined = NoCreds
    /\ core0 \in {"default", "program_default"} => joined = creds
    /\ JoinedIsSaved

\* What waits to be applied.
ApplyInv ==
    /\ pending # NoCreds => pending = posted
    /\ LastPostIsApplied

\* The inductive invariant.
WifiInv == TypeOK /\ FlashIsSaved /\ BootInv /\ ApplyInv

\* What else every action leaves alone is in its UNCHANGED; these are the definitions any of
\* them needs.
LEMMA PlacesAreApart ==
  /\ Saving = {"default", "apply"} /\ Programming = {"program_default", "program"}
  /\ Places = {"load", "connect", "default", "program_default", "apply", "program", "sleep",
               "serve"}
  BY DEF Saving, Programming, Places

LEMMA WifiInvInit ==
  ASSUME Init
  PROVE  WifiInv
<1>1. TypeOK
  <2>1. flash \in Record /\ core0 \in Places
    BY ErasedIsRecord DEF Init, Places
  <2>2. /\ 0 \in 0 .. MaxPosts /\ 0 \in 0 .. MaxResets /\ 0 \in 0 .. MaxSaveFails
    BY CredsAssumption
  <2>3. posts \in 0 .. MaxPosts /\ resets \in 0 .. MaxResets /\ failed_saves \in 0 .. MaxSaveFails
    BY <2>2 DEF Init
  <2>4. from_flash \in BOOLEAN /\ due \in BOOLEAN /\ torn \in BOOLEAN
    BY DEF Init
  <2>5. /\ creds \in Creds \cup {NoCreds, Scrambled} /\ joined \in Creds \cup {NoCreds, Scrambled}
        /\ pending \in Creds \cup {NoCreds}
        /\ saved \in Creds \cup {NoCreds} /\ posted \in Creds \cup {NoCreds}
    BY DEF Init
  <2> QED
    BY <2>1, <2>3, <2>4, <2>5 DEF TypeOK
<1>2. ~Loadable
  BY ErasedIsRecord DEF Init, Loadable
<1>3. FlashIsSaved
  BY <1>2 DEF Init, FlashIsSaved
<1>4. BootInv
  BY PlacesAreApart DEF Init, BootInv, BootUsesWholeRecord, FlashWins, JoinedIsSaved
<1>5. ApplyInv
  BY DEF Init, ApplyInv, LastPostIsApplied
<1> QED
  BY <1>1, <1>3, <1>4, <1>5 DEF WifiInv

-------------------------------------------------------------------------------
(* The boot. *)

LEMMA LoadKeeps ==
  ASSUME WifiInv, Load
  PROVE  WifiInv'
<1> USE DEF Load, counted
<1>1. CASE Loadable
  <2>1. saved \in Creds /\ flash = RecordOf(saved)
    BY <1>1 DEF WifiInv, FlashIsSaved
  <2>2. creds' = saved /\ from_flash' = TRUE /\ core0' = "connect"
    BY <1>1, <2>1, WholeIsLoadable, CredsAssumption DEF Loadable
  <2>3. TypeOK'
    BY <2>1, <2>2 DEF WifiInv, TypeOK, Places
  <2>4. Loadable'
    BY <1>1 DEF Loadable
  <2>5. FlashIsSaved'
    BY <2>1, <2>4 DEF WifiInv, FlashIsSaved
  <2>6. BootInv'
    BY <2>1, <2>2, <2>4, PlacesAreApart
       DEF WifiInv, BootInv, BootUsesWholeRecord, FlashWins, JoinedIsSaved
  <2>7. ApplyInv'
    BY <2>2 DEF WifiInv, ApplyInv, LastPostIsApplied
  <2> QED
    BY <2>3, <2>5, <2>6, <2>7 DEF WifiInv
<1>2. CASE ~Loadable
  <2>1. /\ creds' = Default /\ from_flash' = FALSE
        /\ core0' = (IF Default = NoCreds THEN "serve" ELSE "connect")
    <3>1. from_flash' = Loadable
      OBVIOUS
    <3>2. Loadable = FALSE
      BY <1>2 DEF Loadable
    <3>3. creds' = Default
      BY <1>2
    <3>4. core0' = (IF creds' = NoCreds THEN "serve" ELSE "connect")
      OBVIOUS
    <3> QED
      BY <3>1, <3>2, <3>3, <3>4
  <2>2. Default = NoCreds \/ Default \in Creds
    BY CredsAssumption
  <2>3. TypeOK'
    BY <2>1, <2>2 DEF WifiInv, TypeOK, Places
  <2>4. ~Loadable'
    BY <1>2 DEF Loadable
  <2>5. saved = NoCreds \/ torn = TRUE
    BY <1>2, PlacesAreApart DEF WifiInv, FlashIsSaved, TypeOK
  <2>6. FlashIsSaved'
    BY <2>4, <2>5 DEF FlashIsSaved
  <2>7. BootInv'
    BY <2>1, <2>2, <2>5, PlacesAreApart
       DEF WifiInv, BootInv, BootUsesWholeRecord, FlashWins, JoinedIsSaved
  <2>8. ApplyInv'
    BY <2>1 DEF WifiInv, ApplyInv, LastPostIsApplied
  <2> QED
    BY <2>3, <2>6, <2>7, <2>8 DEF WifiInv
<1> QED
  BY <1>1, <1>2

LEMMA ConnectKeeps ==
  ASSUME WifiInv, Connect
  PROVE  WifiInv'
<1> USE DEF Connect, counted
<1>1. /\ core0 = "connect" /\ creds \in Creds /\ joined' = creds
      /\ core0' = (IF from_flash THEN "serve" ELSE "default")
  BY PlacesAreApart DEF WifiInv, BootInv, AfterJoin
<1>2. TypeOK'
  BY <1>1 DEF WifiInv, TypeOK, Places
<1>3. Loadable' = Loadable
  BY DEF Loadable
<1>4. FlashIsSaved'
  BY <1>1, <1>3, PlacesAreApart DEF WifiInv, FlashIsSaved
<1>5. CASE from_flash = TRUE
  <2>1. core0' = "serve" /\ flash = RecordOf(creds)
    BY <1>1, <1>5 DEF WifiInv, FlashIsSaved, BootInv, BootUsesWholeRecord
  <2>2. BootInv'
    BY <1>1, <2>1, PlacesAreApart
       DEF WifiInv, BootInv, BootUsesWholeRecord, FlashWins, JoinedIsSaved, RecordOf
  <2>3. ApplyInv'
    BY <2>1 DEF WifiInv, ApplyInv, LastPostIsApplied
  <2> QED
    BY <1>2, <1>4, <2>2, <2>3 DEF WifiInv
<1>6. CASE from_flash = FALSE
  <2>1. core0' = "default"
    BY <1>1, <1>6
  <2>2. BootInv'
    BY <1>1, <2>1, PlacesAreApart
       DEF WifiInv, BootInv, BootUsesWholeRecord, FlashWins, JoinedIsSaved
  <2>3. ApplyInv'
    BY <2>1 DEF WifiInv, ApplyInv, LastPostIsApplied
  <2> QED
    BY <1>2, <1>4, <2>2, <2>3 DEF WifiInv
<1> QED
  BY <1>5, <1>6 DEF WifiInv, TypeOK

LEMMA ConnectFailsKeeps ==
  ASSUME WifiInv, ConnectFails
  PROVE  WifiInv'
<1> USE DEF ConnectFails, counted
<1>1. core0 = "connect" /\ core0' = "serve" /\ joined = NoCreds
  BY DEF WifiInv, BootInv, FallBack
<1>2. TypeOK'
  BY <1>1 DEF WifiInv, TypeOK, Places
<1>3. Loadable' = Loadable
  BY DEF Loadable
<1>4. FlashIsSaved'
  BY <1>1, <1>3, PlacesAreApart DEF WifiInv, FlashIsSaved
<1>5. BootInv'
  BY <1>1, PlacesAreApart DEF BootInv, BootUsesWholeRecord, FlashWins, JoinedIsSaved
<1>6. ApplyInv'
  BY <1>1 DEF WifiInv, ApplyInv, LastPostIsApplied
<1> QED
  BY <1>2, <1>4, <1>5, <1>6 DEF WifiInv

-------------------------------------------------------------------------------
(* The save. *)

LEMMA EraseKeeps ==
  ASSUME WifiInv, Erase
  PROVE  WifiInv'
<1> USE DEF Erase, counted
<1>1. /\ core0 \in {"default", "apply"} /\ creds \in Creds
      /\ core0' = (IF core0 = "default" THEN "program_default" ELSE "program")
  BY PlacesAreApart DEF WifiInv, BootInv
<1>2. TypeOK'
  BY <1>1, ErasedIsRecord DEF WifiInv, TypeOK, Places
<1>3. ~Loadable'
  BY ErasedIsRecord DEF Loadable
<1>4. FlashIsSaved'
  BY <1>1, <1>3, PlacesAreApart DEF FlashIsSaved
<1>5. BootInv'
  BY <1>1, PlacesAreApart
     DEF WifiInv, BootInv, BootUsesWholeRecord, FlashWins, JoinedIsSaved
<1>6. ApplyInv'
  BY <1>1 DEF WifiInv, ApplyInv, LastPostIsApplied
<1> QED
  BY <1>2, <1>4, <1>5, <1>6 DEF WifiInv

LEMMA ProgramKeeps ==
  ASSUME WifiInv, Program
  PROVE  WifiInv'
<1> USE DEF Program, counted
<1>1. /\ core0 \in {"program_default", "program"} /\ creds \in Creds
      /\ core0' = (IF core0 = "program_default" THEN "serve" ELSE "sleep")
      /\ flash' = RecordOf(creds) /\ saved' = creds
  BY PlacesAreApart DEF WifiInv, BootInv, Returned
<1>2. TypeOK'
  BY <1>1, WholeIsLoadable DEF WifiInv, TypeOK, Places
<1>3. Loadable'
  BY <1>1, WholeIsLoadable DEF Loadable
<1>4. FlashIsSaved'
  BY <1>1, <1>3 DEF FlashIsSaved, RecordOf
<1>5. BootInv'
  BY <1>1, PlacesAreApart
     DEF WifiInv, BootInv, BootUsesWholeRecord, FlashWins, JoinedIsSaved, RecordOf
<1>6. ApplyInv'
  BY <1>1 DEF WifiInv, ApplyInv, LastPostIsApplied
<1> QED
  BY <1>2, <1>4, <1>5, <1>6 DEF WifiInv

LEMMA SaveFailsKeeps ==
  ASSUME WifiInv, SaveFails
  PROVE  WifiInv'
<1> USE DEF SaveFails
<1>1. /\ core0 \in {"default", "apply"}
      /\ core0' = (IF core0 = "default" THEN "serve" ELSE "sleep")
      /\ failed_saves' = failed_saves + 1 /\ failed_saves \in Nat
      /\ failed_saves' \in 0 .. MaxSaveFails
  BY PlacesAreApart, CredsAssumption DEF WifiInv, TypeOK, Returned
<1>2. TypeOK'
  BY <1>1 DEF WifiInv, TypeOK, Places
<1>3. Loadable' = Loadable
  BY DEF Loadable
<1>4. FlashIsSaved'
  BY <1>1, <1>3, PlacesAreApart DEF WifiInv, FlashIsSaved
<1>5. failed_saves' # 0
  BY <1>1
<1>6. BootInv'
  BY <1>1, <1>5, PlacesAreApart
     DEF WifiInv, BootInv, BootUsesWholeRecord, FlashWins, JoinedIsSaved
<1>7. ApplyInv'
  BY <1>1 DEF WifiInv, ApplyInv, LastPostIsApplied
<1> QED
  BY <1>2, <1>4, <1>6, <1>7 DEF WifiInv

-------------------------------------------------------------------------------
(* The main loop, the delay and the two ways to start again. *)

LEMMA PostWifiKeeps ==
  ASSUME WifiInv, NEW c \in Creds \cup {NoCreds}, PostWifi(c)
  PROVE  WifiInv'
<1> USE DEF PostWifi
<1>1. core0 = "serve" /\ core0' = "serve" /\ posts' \in 0 .. MaxPosts
  BY CredsAssumption DEF WifiInv, TypeOK
<1>2. \/ pending' = pending /\ due' = due /\ posted' = posted
      \/ pending' = c /\ due' = FALSE /\ posted' = c /\ c \in Creds
  BY DEF ScheduleApply
<1>3. TypeOK'
  BY <1>1, <1>2 DEF WifiInv, TypeOK, Places
<1>4. Loadable' = Loadable
  BY DEF Loadable
<1>5. FlashIsSaved'
  BY <1>1, <1>4 DEF WifiInv, FlashIsSaved
<1>6. BootInv'
  BY <1>1, <1>4, PlacesAreApart
     DEF WifiInv, BootInv, BootUsesWholeRecord, FlashWins, JoinedIsSaved
<1>7. ApplyInv'
  BY <1>1, <1>2 DEF WifiInv, ApplyInv, LastPostIsApplied
<1> QED
  BY <1>3, <1>5, <1>6, <1>7 DEF WifiInv

LEMMA DelayPassesKeeps ==
  ASSUME WifiInv, DelayPasses
  PROVE  WifiInv'
<1> USE DEF DelayPasses, counted
<1>1. TypeOK'
  BY DEF WifiInv, TypeOK
<1>2. Loadable' = Loadable
  BY DEF Loadable
<1>3. FlashIsSaved'
  BY <1>2 DEF WifiInv, FlashIsSaved
<1>4. BootInv'
  BY <1>2 DEF WifiInv, BootInv, BootUsesWholeRecord, FlashWins, JoinedIsSaved
<1>5. ApplyInv'
  BY DEF WifiInv, ApplyInv, LastPostIsApplied
<1> QED
  BY <1>1, <1>3, <1>4, <1>5 DEF WifiInv

LEMMA PollPendingKeeps ==
  ASSUME WifiInv, PollPending
  PROVE  WifiInv'
<1> USE DEF PollPending, counted
<1>1. /\ core0 = "serve" /\ core0' = "apply" /\ pending # NoCreds /\ pending' = NoCreds
      /\ creds' = pending
  BY DEF PollReady
<1>2. pending \in Creds /\ pending = posted
  BY <1>1 DEF WifiInv, TypeOK, ApplyInv
<1>3. TypeOK'
  BY <1>1, <1>2 DEF WifiInv, TypeOK, Places
<1>4. Loadable' = Loadable
  BY DEF Loadable
<1>5. FlashIsSaved'
  BY <1>1, <1>4, PlacesAreApart DEF WifiInv, FlashIsSaved
<1>6. BootInv'
  BY <1>1, <1>2, PlacesAreApart
     DEF BootInv, BootUsesWholeRecord, FlashWins, JoinedIsSaved
<1>7. ApplyInv'
  BY <1>1, <1>2 DEF ApplyInv, LastPostIsApplied
<1> QED
  BY <1>3, <1>5, <1>6, <1>7 DEF WifiInv

LEMMA RebootKeeps ==
  ASSUME WifiInv, Reboot
  PROVE  WifiInv'
<1> USE DEF Reboot, Restart, counted
<1>1. TypeOK'
  BY DEF WifiInv, TypeOK, Places
<1>2. Loadable' = Loadable
  BY DEF Loadable
<1>3. FlashIsSaved'
  BY <1>2, PlacesAreApart DEF WifiInv, FlashIsSaved
<1>4. BootInv'
  BY PlacesAreApart DEF BootInv, BootUsesWholeRecord, FlashWins, JoinedIsSaved
<1>5. ApplyInv'
  BY DEF ApplyInv, LastPostIsApplied
<1> QED
  BY <1>1, <1>3, <1>4, <1>5 DEF WifiInv

\* Power is lost: inside a save the sector is torn, elsewhere it is as it was.
LEMMA ResetKeeps ==
  ASSUME WifiInv, Reset
  PROVE  WifiInv'
<1> USE DEF Reset, Restart
<1>1. /\ core0' = "load" /\ joined' = NoCreds /\ creds' = NoCreds /\ pending' = NoCreds
      /\ saved' = saved /\ flash \in Record /\ resets' \in 0 .. MaxResets
  BY CredsAssumption DEF WifiInv, TypeOK
<1>2. /\ flash' \in Record
      /\ Loadable' => flash' = flash /\ Loadable
      /\ core0 \notin Saving \cup Programming => flash' = flash
  <2>1. CASE core0 \in Saving
    <3>1. flash' \in Between(flash, Erased)
      BY <2>1, PlacesAreApart
    <3>2. /\ flash' \in Record
          /\ flash'.magic = TRUE /\ flash'.text # Scrambled /\ flash'.crc = flash'.text
                => flash' = flash
      BY <1>1, <3>1, TornErase
    <3> QED
      BY <2>1, <3>2 DEF Loadable, Record
  <2>2. CASE core0 \in Programming
    <3>1. creds \in Creds
      BY <2>2 DEF WifiInv, BootInv
    <3>2. flash' \in Between(Erased, RecordOf(creds))
      BY <2>2, PlacesAreApart
    <3>3. /\ flash' \in Record
          /\ ~(flash'.magic = TRUE /\ flash'.text # Scrambled /\ flash'.crc = flash'.text)
      BY <3>1, <3>2, TornProgram
    <3> QED
      BY <2>2, <3>3 DEF Loadable, Record
  <2>3. CASE core0 \notin Saving \cup Programming
    <3>1. flash' = flash
      BY <2>3, PlacesAreApart
    <3> QED
      BY <1>1, <3>1 DEF Loadable
  <2> QED
    BY <2>1, <2>2, <2>3
<1>3. torn' \in BOOLEAN
  OBVIOUS
<1>4. TypeOK'
  BY <1>1, <1>2, <1>3, CredsAssumption DEF WifiInv, TypeOK, Places
<1>5. FlashIsSaved'
  <2>1. Loadable' => saved' \in Creds /\ flash' = RecordOf(saved')
    BY <1>1, <1>2 DEF WifiInv, FlashIsSaved, RecordOf
  <2>2. torn' = FALSE => torn = FALSE /\ core0 \notin Saving \cup Programming
    BY DEF WifiInv, TypeOK
  <2>3. saved' # NoCreds /\ torn' = FALSE => Loadable'
    <3> SUFFICES ASSUME saved' # NoCreds, torn' = FALSE PROVE Loadable'
      OBVIOUS
    <3>1. Loadable /\ flash' = flash
      BY <1>1, <1>2, <2>2 DEF WifiInv, FlashIsSaved
    <3> QED
      BY <3>1 DEF Loadable
  <2> QED
    BY <2>1, <2>3 DEF FlashIsSaved
<1>6. BootInv'
  BY <1>1, PlacesAreApart DEF BootInv, BootUsesWholeRecord, FlashWins, JoinedIsSaved
<1>7. ApplyInv'
  BY <1>1 DEF ApplyInv, LastPostIsApplied
<1> QED
  BY <1>4, <1>5, <1>6, <1>7 DEF WifiInv

-------------------------------------------------------------------------------
LEMMA WifiInvStep ==
  ASSUME WifiInv, [Next]_vars
  PROVE  WifiInv'
<1>1. CASE Boot
  BY <1>1, LoadKeeps, ConnectKeeps, ConnectFailsKeeps DEF Boot
<1>2. CASE Save
  BY <1>2, EraseKeeps, ProgramKeeps, SaveFailsKeeps DEF Save
<1>3. CASE Loop
  BY <1>3, PollPendingKeeps, PostWifiKeeps DEF Loop
<1>4. CASE UNCHANGED vars
  <2>1. Loadable' = Loadable
    BY <1>4 DEF vars, Loadable
  <2>2. TypeOK'
    BY <1>4 DEF vars, counted, WifiInv, TypeOK
  <2>3. FlashIsSaved'
    BY <1>4, <2>1 DEF vars, counted, WifiInv, FlashIsSaved
  <2>4. BootInv'
    BY <1>4, <2>1 DEF vars, counted, WifiInv, BootInv, BootUsesWholeRecord, FlashWins,
                      JoinedIsSaved
  <2>5. ApplyInv'
    BY <1>4 DEF vars, counted, WifiInv, ApplyInv, LastPostIsApplied
  <2> QED
    BY <2>2, <2>3, <2>4, <2>5 DEF WifiInv
<1> QED
  BY <1>1, <1>2, <1>3, <1>4, DelayPassesKeeps, RebootKeeps, ResetKeeps DEF Next

LEMMA WifiInvHolds == Spec => []WifiInv
  BY WifiInvInit, WifiInvStep, PTL DEF Spec

-------------------------------------------------------------------------------
\* The boot, the save and the pending update keep their types.
THEOREM WifiTypeCorrect == Spec => []TypeOK
<1>1. WifiInv => TypeOK
  BY DEF WifiInv
<1> QED
  BY <1>1, WifiInvHolds, PTL

\* However often and wherever the save of a record is cut short, no boot uses a part of it
\* (wifi_config_load).
THEOREM TornRecordsAreUnused == Spec => []BootUsesWholeRecord
<1>1. WifiInv => BootUsesWholeRecord
  BY DEF WifiInv, BootInv
<1> QED
  BY <1>1, WifiInvHolds, PTL

\* A board in a network it joined has its credentials in flash, unless a save failed
\* (wifi_config_bringup).
THEOREM JoinedNetworkIsSaved == Spec => []JoinedIsSaved
<1>1. WifiInv => JoinedIsSaved
  BY DEF WifiInv, BootInv
<1> QED
  BY <1>1, WifiInvHolds, PTL

\* However many POSTs come before the first is due, the last one is applied
\* (wifi_config_schedule_apply).
THEOREM LastPostWins == Spec => []LastPostIsApplied
<1>1. WifiInv => LastPostIsApplied
  BY DEF WifiInv, ApplyInv
<1> QED
  BY <1>1, WifiInvHolds, PTL

\* Once credentials were saved no boot goes back to the default, unless power was lost within
\* a later save (wifi_config_bringup).
THEOREM FlashComesFirst == Spec => []FlashWins
<1>1. WifiInv => FlashWins
  BY DEF WifiInv, BootInv
<1> QED
  BY <1>1, WifiInvHolds, PTL
===============================================================================
