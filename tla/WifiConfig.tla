------------------------------ MODULE WifiConfig ------------------------------
(***************************************************************************)
(* src/wifi_config.c and POST /api/wifi: the credentials in the last flash *)
(* sector, the boot that uses them, and the delayed apply that rewrites    *)
(* them and reboots.  The board may lose power, or be reset by its         *)
(* watchdog, between any two steps, also while the sector is written.      *)
(***************************************************************************)
EXTENDS Naturals

CONSTANTS Creds,        \* SSID and password pairs, the SSID not empty
          NoCreds,      \* no such pair: an empty SSID, nothing pending
          Scrambled,    \* the bytes an interrupted erase or program leaves
          Default,      \* WIFI_SSID_DEFAULT, WIFI_PASSWORD_DEFAULT; NoCreds if not built in
          Joinable,     \* credentials some access point accepts
          Flaky,        \* may that access point be out of reach at a boot
          MaxPosts,     \* bound on POST /api/wifi
          MaxResets,    \* bound on power losses and watchdog resets
          MaxSaveFails  \* bound on the saves core1 does not make way for in time

ASSUME CredsAssumption ==
    /\ NoCreds \notin Creds /\ Scrambled \notin Creds \cup {NoCreds}
    /\ Default \in Creds \cup {NoCreds} /\ Joinable \subseteq Creds
    /\ Flaky \in BOOLEAN
    /\ MaxPosts \in Nat /\ MaxResets \in Nat /\ MaxSaveFails \in Nat

VARIABLES flash,        \* the record at WIFI_CFG_FLASH_OFFSET
          core0,        \* where core0 is: a place of the boot, of the save, or the main loop
          creds,        \* what bring-up connects with, or what is being saved
          from_flash,   \* creds came from wifi_config_load
          joined,       \* current_mode: the network joined in STA mode, NoCreds in AP mode
          pending,      \* pending_creds if pending_apply, else NoCreds
          due,          \* time_reached(pending_deadline)
          posts, resets, failed_saves,  \* what the bounds above count
          saved,        \* history: the credentials last programmed completely
          torn,         \* history: a reset has come into a save since
          posted        \* history: the credentials of the last POST answered with 200, unless
                        \* a reset came after it

vars == <<flash, core0, creds, from_flash, joined, pending, due, posts, resets, failed_saves,
          saved, torn, posted>>
counted == <<posts, resets, failed_saves>>

Record == [magic : BOOLEAN, text : Creds \cup {Scrambled}, crc : Creds \cup {Scrambled}]
Erased == [magic |-> FALSE, text |-> Scrambled, crc |-> Scrambled]

RecordOf(c) == [magic |-> TRUE, text |-> c, crc |-> c]

\* "default" saves a default that worked, "apply" an update; then the sector is programmed.
Places == {"load", "connect", "default", "program_default", "apply", "program", "sleep", "serve"}
Saving == {"default", "apply"}
Programming == {"program_default", "program"}

TypeOK ==
    /\ flash \in Record
    /\ core0 \in Places
    /\ creds \in Creds \cup {NoCreds, Scrambled}
    /\ joined \in Creds \cup {NoCreds, Scrambled}
    /\ pending \in Creds \cup {NoCreds}
    /\ from_flash \in BOOLEAN /\ due \in BOOLEAN
    /\ posts \in 0 .. MaxPosts /\ resets \in 0 .. MaxResets /\ failed_saves \in 0 .. MaxSaveFails
    /\ saved \in Creds \cup {NoCreds} /\ posted \in Creds \cup {NoCreds}
    /\ torn \in BOOLEAN

Init ==
    /\ flash = Erased
    /\ core0 = "load"
    /\ creds = NoCreds /\ from_flash = FALSE /\ joined = NoCreds
    /\ pending = NoCreds /\ due = FALSE
    /\ posts = 0 /\ resets = 0 /\ failed_saves = 0
    /\ saved = NoCreds /\ torn = FALSE /\ posted = NoCreds
-------------------------------------------------------------------------------
\* Mutant: a record is believed for its magic word.
LoadableByMagic == flash.magic

\* Mutant: a built-in default comes first.
LoadableWithoutDefault == flash.magic /\ flash.crc = flash.text /\ Default = NoCreds

Loadable == flash.magic /\ flash.text # Scrambled /\ flash.crc = flash.text

\* wifi_config_load, and the build-time default in its place.
Load ==
    /\ core0 = "load"
    /\ from_flash' = Loadable
    /\ creds' = IF Loadable THEN flash.text ELSE Default
    /\ core0' = IF creds' = NoCreds THEN "serve" ELSE "connect"
    /\ UNCHANGED <<flash, joined, pending, due, counted, saved, torn, posted>>

AfterJoin == IF from_flash THEN "serve" ELSE "default"

Connect ==
    /\ core0 = "connect"
    /\ creds \in Joinable
    /\ joined' = creds
    /\ core0' = AfterJoin
    /\ UNCHANGED <<flash, creds, from_flash, pending, due, counted, saved, torn, posted>>

\* Mutant: the board goes on trying.
FallBackNever == "load"

FallBack == "serve"

\* STA_CONNECT_TIMEOUT_MS passed, or the access point refused: AP mode.
ConnectFails ==
    /\ core0 = "connect"
    /\ creds \in Joinable => Flaky
    /\ core0' = FallBack
    /\ UNCHANGED <<flash, creds, from_flash, joined, pending, due, counted, saved, torn, posted>>

\* do_flash_write, once core1 is parked.
Erase ==
    /\ core0 \in Saving
    /\ flash' = Erased
    /\ core0' = IF core0 = "default" THEN "program_default" ELSE "program"
    /\ UNCHANGED <<creds, from_flash, joined, pending, due, counted, saved, torn, posted>>

Returned(place) == IF place \in {"default", "program_default"} THEN "serve" ELSE "sleep"

Program ==
    /\ core0 \in Programming
    /\ flash' = RecordOf(creds)
    /\ saved' = creds /\ torn' = FALSE
    /\ core0' = Returned(core0)
    /\ UNCHANGED <<creds, from_flash, joined, pending, due, counted, posted>>

\* core1 did not park within 1000 ms: nothing is written, and neither caller looks.
SaveFails ==
    /\ core0 \in Saving
    /\ failed_saves < MaxSaveFails
    /\ failed_saves' = failed_saves + 1
    /\ core0' = Returned(core0)
    /\ UNCHANGED <<flash, creds, from_flash, joined, pending, due, posts, resets, saved, torn,
                   posted>>
-------------------------------------------------------------------------------
\* Mutant: pending_apply is not set.
ScheduleApplyForgotten(c) == due' = FALSE /\ UNCHANGED pending

ScheduleApply(c) == pending' = c /\ due' = FALSE

\* POST /api/wifi; one without an SSID is answered 400 and changes nothing.
PostWifi(c) ==
    /\ core0 = "serve"
    /\ posts < MaxPosts
    /\ posts' = posts + 1
    /\ IF c = NoCreds
       THEN UNCHANGED <<pending, due, posted>>
       ELSE ScheduleApply(c) /\ posted' = c
    /\ UNCHANGED <<flash, core0, creds, from_flash, joined, resets, failed_saves, saved, torn>>

DelayPasses ==
    /\ pending # NoCreds
    /\ ~due
    /\ due' = TRUE
    /\ UNCHANGED <<flash, core0, creds, from_flash, joined, pending, counted, saved, torn, posted>>

PollReady == pending # NoCreds /\ due

PollPending ==
    /\ core0 = "serve"
    /\ PollReady
    /\ pending' = NoCreds
    /\ creds' = pending
    /\ core0' = "apply"
    /\ UNCHANGED <<flash, from_flash, joined, due, counted, saved, torn, posted>>

\* What every boot starts from: static data anew, flash as it is.
Restart ==
    /\ core0' = "load"
    /\ creds' = NoCreds /\ from_flash' = FALSE /\ joined' = NoCreds
    /\ pending' = NoCreds /\ due' = FALSE

\* wifi_config_apply_and_reboot after the save, and the reboot.
Reboot ==
    /\ core0 = "sleep"
    /\ Restart
    /\ UNCHANGED <<flash, counted, saved, torn, posted>>

\* A sector on its way from one record to another, not yet the latter.
Between(old, new) ==
    {r \in Record : \A f \in DOMAIN r : r[f] \in {old[f], new[f]}} \ {new}

Reset ==
    /\ resets < MaxResets
    /\ resets' = resets + 1
    /\ Restart
    /\ flash' \in CASE core0 \in Saving      -> Between(flash, Erased)
                    [] core0 \in Programming -> Between(Erased, RecordOf(creds))
                    [] OTHER                 -> {flash}
    /\ torn' = (torn \/ core0 \in Saving \cup Programming)
    /\ posted' = NoCreds
    /\ UNCHANGED <<posts, failed_saves, saved>>
-------------------------------------------------------------------------------
Boot == Load \/ Connect \/ ConnectFails
Save == Erase \/ Program \/ SaveFails
Loop == PollPending \/ (\E c \in Creds \cup {NoCreds} : PostWifi(c))

Next == Boot \/ Save \/ Loop \/ DelayPasses \/ Reboot \/ Reset

\* Core0 goes on, its main loop comes back to wifi_config_poll_pending, and time passes.
Fairness ==
    /\ WF_vars(Boot) /\ WF_vars(Save) /\ WF_vars(Reboot)
    /\ WF_vars(PollPending) /\ WF_vars(DelayPasses)

Spec == Init /\ [][Next]_vars /\ Fairness
-------------------------------------------------------------------------------
\* However a write of the sector was cut short, a boot tries to join with what was last saved
\* whole, or with the default: never with bytes of an unfinished record (wifi_config_load).
BootUsesWholeRecord ==
    core0 = "connect" => creds = IF from_flash THEN saved ELSE Default

\* A board that serves in a network it joined has that network's credentials in flash, also
\* when they were the default, unless a save failed (wifi_config_bringup, lines 148-152).
JoinedIsSaved ==
    core0 = "serve" /\ joined # NoCreds /\ failed_saves = 0 => flash = RecordOf(joined)

\* What is applied is the last credentials a POST was answered with, also when several POSTs
\* came before the first was due (wifi_config_schedule_apply).
LastPostIsApplied == core0 \in {"apply", "program", "sleep"} => creds = posted

\* Every boot ends in the main loop, in one of the two modes, whatever flash holds and
\* whichever network is out of reach.
BootEnds == core0 # "serve" ~> core0 = "serve"

\* The point of it all: the board comes back in the network of the last POST or, when that is
\* out of reach, as an access point with its credentials in flash; unless the save failed or a
\* reset came first ("Saves credentials to flash then reboots so the board comes back up in STA
\* mode with them", wifi_config.h:23-25).
UpdateTakesHold ==
    \A c \in Creds :
        posted = c ~> \/ core0 = "serve" /\ flash = RecordOf(c) /\ joined \in {c, NoCreds}
                      \/ posted # c
                      \/ failed_saves > 0

\* "flash always wins from then on" (README.md:178-180): once credentials were saved no boot
\* goes back to the build-time default, unless power was lost within a later save.
FlashWins == core0 = "connect" /\ saved # NoCreds /\ ~torn => from_flash
===============================================================================
