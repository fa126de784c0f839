-------------------------------- MODULE Led --------------------------------
(***************************************************************************)
(* The onboard LED: led.c on core0, called from main, and the pulse that   *)
(* core1 arms for every LED_HEARTBEAT_EVERY_N_LINES-th status report.      *)
(* Deadlines are counted down in ticks; core0 may look at them late.       *)
(***************************************************************************)
EXTENDS Integers

CONSTANTS GOT_IP_FLASH_COUNT, LED_HEARTBEAT_EVERY_N_LINES,
          BLINK, FLASH, PULSE,  \* ticks the LED stays on or off in each phase
          MaxLines              \* bound on status reports

ASSUME LedAssumption ==
    /\ {GOT_IP_FLASH_COUNT, LED_HEARTBEAT_EVERY_N_LINES, BLINK, FLASH, PULSE} \subseteq Nat \ {0}
    /\ MaxLines \in Nat

VARIABLES main,                \* main: "start", "bringup", "loop"
          phase, led_on, next_deadline, got_ip_flashes_done,
          heartbeat_active, heartbeat_off_at,
          led_line_count, led_pulse_pending,
          lit                   \* history: [flashes, pulses] the LED was switched on for

pulse    == <<led_line_count, led_pulse_pending>>
led      == <<phase, led_on, next_deadline, got_ip_flashes_done, heartbeat_active, heartbeat_off_at>>
led_vars == <<main, led, pulse, lit>>

LedTypeOK ==
    /\ main \in {"start", "bringup", "loop"}
    /\ phase \in {"BOOT", "GOT_IP", "NORMAL"}
    /\ led_on \in BOOLEAN /\ heartbeat_active \in BOOLEAN /\ led_pulse_pending \in BOOLEAN
    /\ next_deadline \in 0 .. (BLINK + FLASH) /\ heartbeat_off_at \in 0 .. PULSE
    /\ got_ip_flashes_done \in 0 .. GOT_IP_FLASH_COUNT
    /\ led_line_count \in 0 .. MaxLines
    /\ lit \in [flashes : Nat, pulses : Nat]

LedInit ==
    /\ main = "start"
    /\ phase = "BOOT" /\ led_on = FALSE /\ next_deadline = 0 /\ got_ip_flashes_done = 0
    /\ heartbeat_active = FALSE /\ heartbeat_off_at = 0
    /\ led_line_count = 0 /\ led_pulse_pending = FALSE
    /\ lit = [flashes |-> 0, pulses |-> 0]
-------------------------------------------------------------------------------
\* cyw43_arch_init has succeeded; wifi_config_bringup, which comes next, blocks.
InitLed ==
    /\ main = "start"
    /\ main' = "bringup"
    /\ phase' = "BOOT" /\ led_on' = FALSE /\ next_deadline' = 0
    /\ UNCHANGED <<got_ip_flashes_done, heartbeat_active, heartbeat_off_at, pulse, lit>>

NotifyGotIp ==
    /\ main = "bringup"
    /\ main' = "loop"
    /\ IF phase = "BOOT"
       THEN phase' = "GOT_IP" /\ got_ip_flashes_done' = 0 /\ led_on' = FALSE /\ next_deadline' = 0
       ELSE UNCHANGED <<phase, got_ip_flashes_done, led_on, next_deadline>>
    /\ UNCHANGED <<heartbeat_active, heartbeat_off_at, pulse, lit>>

TaskBoot ==
    /\ led_on' = ~led_on
    /\ next_deadline' = BLINK
    /\ UNCHANGED <<phase, got_ip_flashes_done, heartbeat_active, heartbeat_off_at, pulse, lit>>

FlashesDone(n) == n >= GOT_IP_FLASH_COUNT

TaskGotIp ==
    /\ IF led_on
       THEN /\ got_ip_flashes_done' = got_ip_flashes_done + 1
            /\ phase' = IF FlashesDone(got_ip_flashes_done') THEN "NORMAL" ELSE "GOT_IP"
            /\ heartbeat_active' = (heartbeat_active /\ phase' = "GOT_IP")
            /\ UNCHANGED lit
       ELSE /\ lit' = [lit EXCEPT !.flashes = @ + 1]
            /\ UNCHANGED <<phase, got_ip_flashes_done, heartbeat_active>>
    /\ led_on' = ~led_on
    /\ next_deadline' = IF phase' = "NORMAL" THEN next_deadline ELSE FLASH
    /\ UNCHANGED <<heartbeat_off_at, pulse>>

\* Mutant: the pulse stays pending when it is taken.
TakenStays == UNCHANGED led_pulse_pending

\* shared_state_take_led_pulse
Taken == led_pulse_pending' = FALSE

\* Mutant: the LED is switched off and the heartbeat left active.
HeartbeatStays == UNCHANGED heartbeat_active

HeartbeatEnds == heartbeat_active' = FALSE

HeartbeatOff ==
    /\ heartbeat_off_at = 0
    /\ led_on' = FALSE
    /\ HeartbeatEnds
    /\ UNCHANGED <<main, phase, next_deadline, got_ip_flashes_done, heartbeat_off_at, pulse,
                   lit>>

HeartbeatOn ==
    /\ led_pulse_pending
    /\ Taken
    /\ led_on' = TRUE
    /\ heartbeat_active' = TRUE
    /\ heartbeat_off_at' = PULSE
    /\ lit' = [lit EXCEPT !.pulses = @ + 1]
    /\ UNCHANGED <<main, phase, next_deadline, got_ip_flashes_done, led_line_count>>

\* led_task, on every pass of main's loop.
LedTask ==
    /\ main = "loop"
    /\ \/ phase # "NORMAL" /\ next_deadline = 0
          /\ IF phase = "BOOT" THEN TaskBoot ELSE TaskGotIp
          /\ UNCHANGED main
       \/ phase = "NORMAL" /\ heartbeat_active /\ HeartbeatOff
       \/ phase = "NORMAL" /\ ~heartbeat_active /\ HeartbeatOn

Arms(n) == n % LED_HEARTBEAT_EVERY_N_LINES = 0

NotifyStatusLine ==
    /\ led_line_count < MaxLines
    /\ led_line_count' = led_line_count + 1
    /\ led_pulse_pending' = (led_pulse_pending \/ Arms(led_line_count'))
    /\ UNCHANGED <<main, led, lit>>

Down(n) == IF n = 0 THEN 0 ELSE n - 1

DeadlinesNear ==
    /\ next_deadline + heartbeat_off_at > 0
    /\ next_deadline' = Down(next_deadline)
    /\ heartbeat_off_at' = Down(heartbeat_off_at)
    /\ UNCHANGED <<main, phase, led_on, got_ip_flashes_done, heartbeat_active, pulse, lit>>

LedNext == InitLed \/ NotifyGotIp \/ LedTask \/ NotifyStatusLine \/ DeadlinesNear

\* main gets through its start and passes its loop for ever; time goes on.
LedFairness == WF_led_vars(InitLed) /\ WF_led_vars(NotifyGotIp) /\ WF_led_vars(LedTask) /\ WF_led_vars(DeadlinesNear)

LedSpec == LedInit /\ [][LedNext]_led_vars /\ LedFairness
-------------------------------------------------------------------------------
\* What the LED shows can be believed.  "Three short flashes, once" (README.md:133), whatever
\* the status reports do meanwhile, and the cue leaves the LED off; after it the LED is lit
\* for a pulse only, and no pulse comes without N status reports for it: the heartbeat never
\* goes on when grblHAL is silent.
LitAsPromised ==
    /\ LedTypeOK
    /\ phase = "NORMAL" => lit.flashes = GOT_IP_FLASH_COUNT /\ (led_on => heartbeat_active)
    /\ lit.pulses * LED_HEARTBEAT_EVERY_N_LINES <= led_line_count

\* A pulse that is armed is shown in the end, also one armed while WiFi comes up, while the cue
\* plays or while the pulse before it is on: each in turn goes out again.
PulseIsShown == led_pulse_pending ~> led_on /\ heartbeat_active /\ ~led_pulse_pending
===============================================================================
