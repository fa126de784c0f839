# Verification of pico2w-grbl-bridge

TLA+ models of the WiFi/REST bridge between a browser and a grblHAL controller:
what its two cores, the USB link and the controller can do together, model-checked
with TLC, and theorems about them checked by TLAPS. Paths are relative to the
repository's root.

## The system

| Component | Code | State it keeps | Operations | Talks to |
|---|---|---|---|---|
| grblHAL link (core1) | `src/grbl_link.c` | `waiting_ok` and its deadline, `next_poll`, `need_g_query`, caches of WCO/WCS and the last status word | one endless loop: USB task, real-time byte, `?` poll, timeout, `$G`, next queued line; `on_line`, `on_mount` | `shared_state`, `usb_host_cdc` |
| USB host CDC (core1) | `src/usb_host_cdc.c` | `mounted_idx`, `line_buf`, `line_len` | mount and unmount callbacks, receive callback that cuts lines, `write` | TinyUSB; calls back into `grbl_link` |
| Shared state | `src/shared_state.c` | machine state, G-code ring, real-time flags, two log rings, LED pulse, core1 tick; a mutex each, none for the tick | push/pop, set/get, request/take, snapshot | called by both cores |
| REST handlers (core0) | `src/api_handlers.c` | none of their own | status, G-code, hold/resume/reset, WiFi | `shared_state`, `wifi_config` |
| HTTP server (core0) | `src/http_server.c` | one heap block per connection | lwIP callbacks: accept, recv, sent, poll, err | lwIP, REST handlers |
| WiFi configuration (core0) | `src/wifi_config.c` | a flash record, mode, a pending apply | load, save, bring-up, scheduled apply and reboot | flash (with core1 parked), cyw43 |
| Main loop (core0) | `src/main.c` | last tick seen, last progress | poll WiFi, apply, LED, feed the watchdog | all of the above |
| LED (core0) | `src/led.c` | phase, deadlines | one task call per loop | `shared_state` |
| Web page | `web/index.html` | scrollback, last sequence number, poll timer | poll status, merge lines, send commands | REST API |
| DHCP, DNS servers, build files | `third_party/`, `tools/`, CMake | | vendored or without run-time state | |

Interaction is by shared memory under mutexes between the cores, by callbacks
inside each core, and by two byte streams (TCP to the browser, USB to grblHAL) of
which either end may vanish. Hard to test are: a line leaving the queue and not
fitting the USB FIFO; an answer that comes after core1 stopped waiting for it;
greetings, alarms and resets around a wait; the controller replugged with or
without losing its own power; requests coalescing in flags; a POST body pushed line
by line while core1 pops; a stall flagged while core1 lives on; power lost while the flash
sector is written; a connection ended from inside any of five callbacks; a page that
polls a board which may have rebooted since. `PROJECT.json` lists each at its line, with
the properties aimed at it.

What makes each component correct:

- *link*: one line in flight per wait; lines executed in the order posted and none
  twice; a hold overtakes the queue; no wait is for ever; an accepted line is not
  lost without cause;
- *queue*: a bounded FIFO with atomic operations;
- *line assembly*: pieces are received text in order, short lines are whole;
- *status*: the shown connection and alarm follow the controller;
- *logs and page*: sequence numbers only grow, what is skipped is skipped at the old end;
- *HTTP server*: each connection's memory is freed once and eventually;
- *WiFi*: a boot always ends with a mode, a torn record is never used;
- *main*: the watchdog is fed exactly while both cores make progress.

## Modules

| Module | Models | Run with |
|---|---|---|
| `SharedState` | the two cores in the calls of `shared_state.c`: the queue and a log composed | itself |
| `GcodeQueue` | the G-code ring, statement by statement, and its refinement of `BoundedFifo` | through `SharedState` |
| `BoundedFifo` | what the queue promises its users: the abstract specification | through `GcodeQueue` |
| `LogRing` | a console log, statement by statement, and its refinement of `AppendLog` | through `SharedState` |
| `AppendLog` | what a console log promises: the abstract specification | through `LogRing` |
| `GrblLink` | G-code and real-time requests from POST to grblHAL and the answers back: both cores, cable, controller | `MCGrblLink` |
| `LineAssembly` | how received bytes become lines | itself |
| `StatusReport` | what a status report does on its way from grblHAL to the page: caches, stored state, alarm, filtered log | `MCStatusReport` |
| `WebPage` | the page's polling, its scrollback and its chain of posts, against a board that may reboot | itself |
| `HttpServer` | the life of a connection over lwIP's callbacks, byte by byte | `MCHttpServer` |
| `StatusJson` | how the answer of `/api/status` fills its buffer | itself |
| `WifiConfig` | the flash record, the boot, `POST /api/wifi` and the delayed reboot | itself |
| `Watchdog` | core0's start and loop, the stall detection and the hardware watchdog, in discrete time | itself |
| `Led` | the LED's three phases and the heartbeat pulse between the cores | itself |
| `Counting` | how many elements of a sequence are in a set | through `GrblLink` |
| `GrblLinkProofs`, `WifiConfigProofs`, `HttpServerProofs`, `StatusJsonProofs`, `WebPageProofs` | theorems about the module of that name | |
| `SharedStateProofs` | theorems about `SharedState` and the modules it composes, `GcodeQueue` and `LogRing` | |
| `StatusReportProofs` | theorems about `StatusReport` and about `LineAssembly`, which cuts the lines the reports come in | |
| `WatchdogProofs` | theorems about `Watchdog` and about `Led`: what core0 does on each pass of its loop | |

`SharedState` composes `GcodeQueue`, which it extends, and `LogRing`, of which it has
an instance; those stand for `BoundedFifo` and `AppendLog`. `GrblLink` uses the queue, and `WebPage` the log,
as their abstract specifications describe them, so what is shown of the one may be used
in the other. `Watchdog` explains `FlagStall` of `GrblLink` and `StatusReport`, which
allow it at any time.

`LineAssembly` and `Led` carry their name in that of their specifications, so that another
module can extend them beside its own.

Definitions keep the names of the C identifiers they stand for; `map` in
`PROJECT.json` gives the lines of each. A definition whose comment starts with
"Mutant" is no part of the model: it is a plausible bug, kept to show that a property
notices it. Variables marked "history" are what the properties speak of and the code
does not store.

### SharedState, GcodeQueue and BoundedFifo, LogRing and AppendLog

One program counter per call. Taking the mutex, reading the count, storing, counting
and leaving are steps of their own, so that what the mutex buys is checked: with an
`Acquire` that does not wait, both refinements fail. A core is inside one call at a
time: core0 in a push of a G-code line or in a snapshot of the log, core1 in a pop or in
a push to the log. A queue operation takes effect when it gets the mutex, and `Fifo`
shows the abstract queue with the outcome of the call under way; a log operation takes
effect when it leaves the mutex. The numbered ring is modelled; the other has the same
code without the numbers. The text of a line is a model value: callers never pass more
than `GCODE_LINE_LEN - 1` characters (`src/api_handlers.c:171`).

### GrblLink

`pc` is where core1 is in the loop of `grbl_link_core1_main`; each phase is one
action per outcome, and `NothingToDo` the phases whose condition is false. Mount,
unmount and `on_line` happen in phase `"task"`, any number of times. Core0 is one
thread, so no other handler runs between `PostBegin` and `PostReply`, but core1 may
run between any two pushes. Steps of one core that the other cannot tell apart are
one step: a handler's clearing of the alarm and its request of a real-time byte
(nothing reads both), and a pop with the write of what was popped (core1 alone
touches either end of that).

- Bytes travel in units: the text of a line, its newline, one real-time byte. `tx` is
  what core1 wrote and grblHAL has not taken; `Fits`, `WriteLine` and `WriteCut` are
  the result of `tuh_cdc_write` for a FIFO of `TxRoom` units. A line in `LongLines` is
  one of more bytes than the FIFO has: what is written of it fills the FIFO's place for
  a text, and never its newline. A cut text counts as a text.
- `expired` and `poll_due` are what `time_reached` says of the two deadlines; the clock
  makes them true at any moment.
- `inbox` is grblHAL's input; it may execute a complete command, answer `ok` or
  `error`, raise an alarm, greet a new host, or do nothing at all; `GrblSays` names which
  of these a run lets it do. A reset empties its input and makes it greet. A controller
  plugged in again either kept its power and with it its input, or starts anew. Pulling
  the cable drops what grblHAL has said and core1 has not read; delivering a part of it
  first is the same as pulling later.
- Not modelled here: log contents, the parsed fields of a status report, the WCO and
  WCS caches (`StatusReport`), a second CDC interface.

### LineAssembly

A character is the position at which it was received. `received` and `lines` are
histories, so that what `on_line` was given can be compared with what came in.

### StatusReport

The other half of `grbl_link.c`: what outlives a report. A report carries what the
controller is (`is`) and which of its offset and its coordinate system it names
(`says`), as grblHAL names them only after they changed. `Parse` is
`parse_status_report` up to its push, `PushStatus` the push, `Enter` and `Store` the
two halves of `shared_state_set_status` around saving the alarm: core0 can run between
any two, and `MutexFree` is what `state_mutex` leaves it. A controller that is unplugged
either loses its power and starts anew, or goes on with a supply of its own; what it
said meanwhile is lost in either case, and `unheard` remembers that an offset was among
it. The filtered log is a count of the lines `pushed` to it, with the number of the newest
status line (`status_line`) and its word; an ok, an echo or a line of a dump is pushed by
`OtherLine`, `Send`, `ParseGC` or `SetAlarm`. `page` is the one answer to
`GET /api/status` under way: it takes the state (`needs` is the number of that state's
status line) and later the newest `WINDOW` lines of the log. A dump between the two, or
after the state changed last, pushes the status line out of them: the answer then is full
of newer ones, which is what `LogExplainsStatus` allows. That the ring holds more lines
than an answer takes (32 and 30) and how it keeps them is `LogRing`. `of`, `unheard`,
`seeded` and `line` in a stored state are history, so that what the page is shown can be
compared with what the machine was and what was logged. The other fields of a report are
copied through; a report without `MPos` or with `WPos` of its own, which grblHAL sends
when it is configured to, is left out.

### WebPage

A line is its number and the boot that logged it, so lines of two boots can be told
apart where the page cannot. `polls` are the requests under way, each at the board or on
its way back; `statusFetchInFlight` lets at most one be, which a mutant shows to matter.
Any request can fail at any place (`PollFails`, `PostFails`): it was lost, took longer
than the 3 s of `api()`, or the answer was no JSON. The chain of posts is a queue with
one step at a time; a post's own refresh returns at once when the timer's is under way.
`api()` gives a post up in the browser only: its bytes may still be under way on a
connection of their own. Such a post is in `late` until the board runs it (`RunLate`), maybe
behind the next one, or reboots; it need never arrive. `abandoned` remembers which those
were, since `CommandsInOrder` lets only them be overtaken.
The new lines of a window are picked by rank (`Ascending`) where the code loops over them,
as the numbers of a window ascend; `Newest` is what of the scrollback stays, and the
properties look at `filteredBuffer`, what is left of it after that.

### HttpServer

Each connection is a record: what lwIP has of it (`pcb`, the callbacks set, bytes not
acknowledged), the C block's fields, and histories of what `tcp_write` took (`wire`) and of
the block's frees. What lwIP took is not yet at the peer, and `WireIsResponse` says nothing of
that: `on_sent` closes at the first acknowledgement after the last write, and where
`tcp_close` fails then, what was not acknowledged is aborted with the connection. An action
is a callback as a whole, with the functions it calls written as operators on the record;
where `calloc`, `tcp_write` or `tcp_close` may fail they give a set of outcomes. A request is
three numbers: the length of its header, the length it declares, and how many bytes the peer
sends; they arrive in segments of any size. Header names, the method and the path are not
modelled: a request that is complete is handled.
Connections share nothing but the heap, of which any allocation may fail, so one is
enough to check.

### StatusJson

`japp` and `json_escape_append` as arithmetic on `pos`; a text is its length, and of a
line also how many of its characters are doubled. `top` and `want` are histories: the
furthest byte written, and what an endless buffer would have got; `doubled` is how many
characters of it take two bytes. `FitAssumption` says how `RESP_BUF_SIZE` is dimensioned:
for the longest answer without an escaped character; TLC evaluates it at the sizes the code
has.

### WifiConfig

The flash record is a magic word, a text and a CRC, each of which an interrupted erase
or program may leave as it was or scrambled; a CRC is that of the text it was taken of.
`core0` is the place in `wifi_config_bringup`, in `wifi_config_save` or in the loop.
`Reset` may strike at every place; `torn` remembers that the last one came into a save.
`SaveFails` is `flash_safe_execute` timing out because core1 does not park. Passwords
and SSIDs are one value, and long ones, which the handler truncates, are not told apart.

### Watchdog

`LOOP` is the longest that either core takes for a pass of its loop while it runs, in the
units of the two timeouts; a pass may take less, and either core may be anywhere in its own.
The tick counter is what core0 can tell of it: whether it moved since the last look. core1 runs, is stuck inside `tuh_task`, or runs and hears nothing.

### Led

The three task functions under the deadlines of `led.c` as countdowns; bring-up is one
step during which nobody calls `led_task`, as in `main`.

## Runs

| Run | Question | Bounds and why they are enough | Result |
|---|---|---|---|
| `shared_state` | is the ring under its mutex an atomic FIFO, the log an append-only log read atomically, and does a pop always return | 2 slots each, 4 lines logged, windows smaller and larger than the ring: every head position with every count, each wrap, each core in either of its calls | 834,910 states |
| `link_handshake` | lines in flight, their order, where one is lost, how late a hold is | 3 lines in POSTs of 1 or 2, a queue of 2 (a refusal happens), a FIFO of 3 units (a line fits beside one byte, not beside a line), one long line, one request or alarm, errors, greetings; one plug and one unplug, at any moment. A replug takes a third move of the cable, which is too much for these bounds; `HandshakeBound`, `LinesKeepTheirOrder` and `AcceptedLinesSurvive` prove the same properties for any number of moves | 2,770,432 states |
| `link_liveness` | the queue drains, a connection comes back, a hold arrives | one line, one hold, polling, a device that stays or is never there; a FIFO of 3 units, so a byte may meet a full one | 199,848 states |
| `line_assembly` | what `on_line` gets | a buffer of 4, 9 events: a full buffer, a line beyond it, and a line after that | 24,235 states |
| `status` | are positions computed with the offset and the system in force, does the log follow the status, does an answer hang together, who dismisses an alarm | 2 words, offsets and systems, a change, 3 reports, an error, another line, a command, a poll and a replug: a change named in a report, in none yet, or lost; each call inside each other's critical sections; an answer of 2 lines, so that the status line is pushed out before, between and after the two snapshots. Words, and offsets, are interchangeable, so symmetric states are one | 3,115,652 states |
| `json` | is anything put past the end of the buffer, is what fits sent whole | the real sizes: 7168 bytes, 12 + 30 lines of 119, floats as wide as they print, numbers of 10 digits, each line plain or with 79 or all characters doubled | 6,008,262 states |
| `page` | what the scrollback holds, does it go on, is each command run at most once, which can be overtaken | window and scrollback 2, 4 lines: a burst larger than the window, an eviction of a line or of all; a reboot, a selection; two requests could overlap; 2 commands, each answered, given up, or given up and run behind the other | 115,629 states |
| `http` | each request answered once, by the right bytes; each connection ends; its memory is freed once | a buffer of 5 usable bytes, six requests around it, header 3, body 4, send buffer 4, so that a write ends before, in and after the header; 2 failed writes | 6,538 states |
| `wifi` | what does a boot use, does every boot end, is the board in the network of the last POST | 3 posts, 3 resets, a failed save, two networks that may be out of reach and credentials nobody accepts: a reset inside the save that an earlier reset caused to be repeated | 22,664 states |
| `watchdog` | is a stuck board reset in time, only then, and the stall shown | timeouts of 5 and 6 units, passes of up to 2 (the code's are 3 s, 8 s, and 20 ms and a little): a tick can be late by a part of a pass, and by more than one; 2 faults of either core, also while booting, that may pass | 84,862 states |
| `led` | is the cue played once, every pulse earned, and an armed one shown | 3 flashes, a pulse each 3 of 10 reports | 242 states |
| `link_cut_line` | README.md:270, "one line at a time": no two lines in one command | a FIFO with room for all, one line longer than it | violated |

Each property has a mutant in `PROJECT.json`, a plausible bug under which the same run
finds it violated. Invariants that a theorem proves on the way to another, and that no run
repeats, are `TypeOK` of `GrblLink`, `StatusJson` and `WifiConfig`, `SharedTypeOK`,
`ConnectedMeansMounted`, `JoinedIsSaved` and `LastPostIsApplied`. The types of the other
modules are the first conjunct of one of their run's invariants.

Deadlock is not checked where the system may come to rest within the bounds: a log with
no more lines, a connection that has ended, an answer that is done, a board nobody
resets.

### Fairness

`Spec` of `GrblLink` assumes what the code's scheduling gives and nothing of grblHAL's
willingness to answer. Core1's loop never blocks for long (`TaskDone \/ Pass` weakly
fair); `tuh_task()` handles what is pending in one of its calls, but the phase `"task"`
is left in between, hence strong fairness of `Task`; core0 finishes the POST it is in;
time passes; a connected grblHAL reads its console. Two properties have a proviso, as the
code has one: a byte is written only while the FIFO has room, and nobody looks at the
result, so a hold or a `?` can be lost to a full FIFO.

- `SharedState`: a call begun goes on, and core1's `PopEnter` is strongly fair: the SDK's
  mutex is not a fair lock, but core0's pushes are separated by far more than a spin of
  core1. Neither core need ever begin a call otherwise.
- `WebPage`: the timer ticks on, the user lets go of a selection some time, a request
  ends in one way or another, and of ever more requests some reach the board and some of
  their answers the page (strong fairness of `Serve` and `PollMerged`; without it a
  network that drops everything satisfies the model). That a request ends is the 3 s
  timer of `api()` up to the headers, and the browser's own patience for the body.
- `HttpServer`: lwIP calls `on_poll`, time passes, and the peer acknowledges what it got.
  A peer that does not keeps its connection until lwIP gives up; no timeout of the code
  ends it. Nothing is assumed of requests coming.
- `Watchdog`: a core that is not stuck goes on, time passes, an expired watchdog resets.
- `WifiConfig`: core0 goes on with the boot, the save and its loop, and time passes;
  neither resets nor posts are owed.
- `Led`: core0 calls `led_task`, time passes; no report is owed.

## Where the code and its documents differ

One difference is a run of its own, `link_cut_line`, and a finding: a G-code line of
more than 64 bytes, or one that meets a busy transmit FIFO, is cut, and the next one is
glued to it. The others, met while modelling:

| The code | The document |
|---|---|
| After a timeout the next line goes out while the last may still be executed: two lines in flight (`src/grbl_link.c:299`); `InFlightBound` counts them | "one at a time with the normal `ok`/`error:` handshake" (`README.md:24-25`) |
| A greeting ends the wait also for a `$G` that was sent after the reboot it announces (`src/grbl_link.c:248-252`) | "nothing is in flight anymore" (same place) |
| Hold, resume, hold before core1 looks goes out as hold, resume (`src/shared_state.c:184`) | "a second request of the same kind ... is a no-op, which matches grbl's real-time semantics" (`src/shared_state.h:81-83`) |
| core1 may pop between two pushes of one body: a line is refused and a later one accepted (`src/api_handlers.c:174`) | `web/index.html:640-643` sends `G54` and the `G10` that depends on it in one body |
| The character that finds `line_buf` full is in neither piece (`src/usb_host_cdc.c:116-118`) | "flush what we have rather than silently dropping it" (`src/usb_host_cdc.c:114-115`) |
| Power lost between erase and program leaves no credentials, and the default is used again; `FlashWins` excepts it (`src/wifi_config.c:78`) | "flash always wins from then on" (`README.md:178-180`) |
| A failed save is followed by the reboot as if it had not failed; `UpdateTakesHold` excepts it (`src/wifi_config.c:101`) | "Saves credentials to flash then reboots so the board comes back up in STA mode with them" (`src/wifi_config.h:23-25`) |
| A USB stack that returns but hears nothing keeps core1 ticking, and the watchdog is fed for ever (`src/main.c:80`) | "grblHAL is never heard from again" is what the watchdog is for (`README.md:138-141`) |
| A reboot is not noticed when the new numbers have passed the old ones before the next poll (`web/index.html:312`); `NewestAreShown` excepts it | "the page detects that and starts its scrollback over" (`README.md:306-309`) |
| A command given up after 3 s is aborted in the browser only, and may reach the board behind the next one, which the chain sends on another connection (`web/index.html:274`, `674`); `CommandsInOrder` excepts it | "at most one is ever in flight"; "a rapid click still executes, just after the previous one finishes" (`web/index.html:661-669`) |
| The offset named by a controller that was unplugged and stayed on is the old one until it changes again (`src/grbl_link.c:150`); `OffsetInForce` excepts it | "still means 'same offset as before'" (`src/grbl_link.c:27-29`) |
| The report under way when a command is sent is logged as its confirmation (`src/grbl_link.c:178`) | "here's where things stand right after that" (`src/grbl_link.c:32-35`) |
| A command dismisses an alarm that no poll has fetched yet (`src/api_handlers.c:156`) | "a notice doesn't disappear before you've actually seen it" (`README.md:311-314`) |
| A log with many quotes makes an answer longer than the buffer, which is cut and cannot be parsed (`src/api_handlers.c:49`); `WholeIsSent` excepts it | "comfortably under this with room to spare" (`src/http_server.c:15-19`) |
| Nothing calls `led_task` before there is an address (`src/main.c:52-55`) | "Fast blink (~150ms)": booting, no WiFi IP yet (`README.md:132`) |

The properties that touch one of these say what does hold, with the exception named.

## Theorems

For every value of the constants that the modules' assumptions allow, checked by TLAPS.

| Theorem | Property | Argument |
|---|---|---|
| `TypeCorrect` | `TypeOK` of `GrblLink` | inductive; one lemma per actor, one step per action; the sequences by the library's theorems on Append, Head and Tail |
| `HandshakeBound` | `InFlightBound` | inductive given the types: `InFlight` is the sum of three counts, and each step moves a newline from one to the next, or adds one exactly when the allowance grows (`BoundCore1`, `BoundEnvironment`) |
| `HoldGoesFirst` | `HoldOvertakenOnce` | needs `HoldIsNext`: once a line has passed a pending hold, core1 is before the real-time phase of its next pass, or has no device |
| `ShownConnectionIsMounted` | `ConnectedMeansMounted` | inductive by itself |
| `LinesKeepTheirOrder` | `PipelineOrder` | `OrderInv`: the stages executed, grblHAL's input, FIFO, queue and body are each sorted and each wholly below the next (`InOrder`, `Staged`), and no accepted line is still in the body (`Known`). A step moves a line from the head of one stage to the end of the next, or drops it |
| `AcceptedLinesSurvive` | `AcceptedNotLost` | from the same invariant: every action keeps the accepted lines of the stages (`Kept`) but the five of `Loses` |
| `QueueIsAFifo` | `ImplementsFifo` of `GcodeQueue` | entering the mutex maps to the abstract push or pop, every other step to a stutter; `RingStore`, `RingGrow` and `RingDrop` say what the ring's arithmetic does to the sequence it stands for |
| `QueueTypeCorrect` | `TypeOK` of `GcodeQueue` | from the same invariant, `QueueInv`: mutual exclusion, and what a core may rely on inside the mutex (room found is still there, the stored line is behind the last, a line found is still counted) |
| `RingIsALog` | `ImplementsLog` of `LogRing` | leaving the mutex maps to the abstract push or snapshot. `RingInv` says what the ring `Holds` of the log at each statement of a push: storing spares all lines but the oldest of a full ring (`StoreSpares`), and counting makes the stored line the newest (`CountedInRoom`, `CountedInFull`). `SnapInv` says what is copied so far |
| `LogTypeCorrect` | `TypeOK` of `LogRing` | from the same invariant |
| `SharedQueueIsAFifo`, `SharedLogIsALog`, `SharedTypeCorrect` | `ImplementsFifo`, `ImplementsLog`, `SharedTypeOK` of `SharedState` | a behaviour of the two together is one of the queue and one of the log (`QueueRuns`, `LogRuns`); the rest are the theorems above |
| `NeverOverruns` | `InBuffer` | `JsonInv`: `pos <= cap` and `top <= cap` after each text, as `japp` clamps and an escaped character is put only while two bytes and the NUL fit |
| `JsonTypeCorrect` | `TypeOK` of `StatusJson` | from the same invariant, with the counts of lines (`Counts`) |
| `FittingIsSentWhole` | `WholeIsSent` | `JsonInv` again: `pos` is `want` as long as `want < cap` (`Fill`). Where no character is escaped `PlainInv` bounds `want` at each place by what can have been put by then (`Within`), in the end by `FitAssumption` |
| `TornRecordsAreUnused` | `BootUsesWholeRecord` | `WifiInv`: a record a boot would believe is the one last programmed whole (`FlashIsSaved`), as an interrupted erase is believed only where it changed nothing (`TornErase`) and an interrupted program never (`TornProgram`) |
| `FlashComesFirst` | `FlashWins` | from the same invariant |
| `JoinedNetworkIsSaved` | `JoinedIsSaved` | from the same invariant |
| `LastPostWins` | `LastPostIsApplied` | from the same invariant (`ApplyInv`: what is pending is what was last answered) |
| `WifiTypeCorrect` | `TypeOK` of `WifiConfig` | from the same invariant |
| `OffsetIsRight`, `SystemIsRight` | `OffsetInForce`, `SystemInForce` | `StatusInv`. A report names a field only after it changed, so what core1 remembers must be joined with the reports in transit (`Followed`): each report on the wire that names nothing was made with what the one before it says (`Chained`), the first with what core1 remembers (`Starts`), and the last with what the controller is, unless it has yet to say so (`Finishes`). `Shown` follows for the report parsed and the state stored |
| `LogFollowsStatus`, `LogIsNotBehind` | `LogTellsStatus`, `LogExplainsStatus` | from the same invariant (`Logged`: a status line is pushed before its state is stored, and an answer takes the state before the log, so the line is among those pushed when the log is taken; then it is one of the newest, or as many newer ones as the answer has place for are there, which is a cardinality) |
| `AlarmIsNotLost` | `AlarmIsTheUsers` | from the same invariant (`AlarmKept`: from saving the alarm to storing it back nobody gets `state_mutex`) |
| `PiecesKeepTheText`, `ShortLinesAreWhole` | `PiecesAreTextInOrder`, `ShortLinesComeWhole` of `LineAssembly` | `AssemblyInv`: the buffer is the text of the line under way from some character on, and from its first unless it has more characters than the buffer (`Buffered`); so a buffer handed over is a piece of one line (`BufferIsAPiece`), behind all before it (`Behind`) |
| `MemoryIsFreedOnce`, `ResponseGoesOutWhole`, `RequestsAreAnsweredOnce`, `BodyIsWhole` | `MemoryFollowsPcb`, `WireIsResponse`, `AnsweredOnce`, `HandlerGetsWholeBody` | `HttpInv`, on the record of each connection: its block is there and registered exactly while it is open (`Memory`); of a request that has fitted nothing is missing in `req` (`Reading`); an answer is the first, and was begun on a whole request or on one too large (`Answering`); what is out is a beginning of the response (`Sending`) |
| `BoardIsReset`, `ShortStallIsForgiven`, `DisconnectionIsShown` | `ResetInTime`, `RecoveryIsFed`, `StallIsShown` | `WatchdogInv`: what the clocks of core0, core1 and the watchdog say of each other at each place of the loop (`Feeding`, `Ticking`), how that improves once both cores run again (`Steady`), and when a stall has been flagged (`Flagging`) |
| `HeartbeatIsEarned` | `LitAsPromised` of `Led` | `LedInv`: the LED's flashes are those the cue has counted and the one that is on (`LedShown`), and the pulses shown and armed are covered by reports (`Earned`); that a multiple of N pays for one more is `NextMultiple` |
| `RestartsAreNoticedReboots`, `LinesAreShownInOrder` | `RestartsAreReboots`, `ShownInOrder` | `PageInv`: at most one poll is under way (`OnePoll`), its answer is no older than what was merged and no newer than the board (`Answers`, `Merged`), so numbers go backwards only over a reboot; and the scrollback is in order and before what will be merged (`Shown`), of which `Newest` keeps the end (`NewestIsTail`) |
| `WindowIsShown` | `NewestAreShown` | from the same invariant: with every reboot noticed, the scrollback ends with the newest window, line by line (`Complete`); that merging keeps it so is arithmetic on where a window begins and where the scrollback is cut, and needs a scrollback no smaller than a window |
| `CommandsKeepTheirOrder` | `CommandsInOrder` | from the same invariant (`Commands`: what was executed comes before the chain, but for the post at its head that the board has run and the page has no answer to; `GivenUp`: so does what was given up, and what of it may still arrive was not executed) |

`HandshakeBound` rests on lemmas about counting the elements of a sequence (`CountAppend`,
`CountDrop`), which come from the library's theorems on cardinality; `WindowIsShown` on what
`Ascending` does, proved the same way. The lemmas about `LogRing` take its assumption as a
hypothesis, since an instance has none of its own; `LogAssumption` of `SharedState`
discharges it. Nothing else is assumed.

The proofs changed three things. `StallIsShown` was stated with a bound that holds only if
a pass takes one unit of time: its invariant could not be proved, TLC found the behaviour
with `LOOP = 2`, in which the run now is, and the bound is a pass longer. `WholeIsSent` was
believed for the sizes the code has; what it needs of them is now `FitAssumption`. And the
new lines of a window are picked by `Ascending`, which can be reasoned about.

Every invariant and every action property of the runs is a theorem. Only model-checked is
liveness, which is beyond this prover: `PopReturns`, `QueueDrains`, `ConnectionShownAgain`,
`HoldArrives`, `LogIsShown`, `ChainDrains`, `ConnectionEnds`, `BootEnds`,
`UpdateTakesHold`, `StuckIsReset` and `PulseIsShown`; and `LinesStayApart`, which is false.

## Not modelled

- The DHCP and DNS servers of the access point are vendored, the build tools and headers
  have no state at run time.
- `http_server_start` can only fail once, at boot; `GET /`, `GET /api/wifi` and 404
  change nothing.
- A second CDC interface, which `tusb_config.h` allows and the code does not expect.
- The page's layout, its dials and table rotation, and the staleness it shows, which is
  derived from what it last got.
- A controller that reports `WPos` itself; a soft reset of a controller that keeps its
  cable, of which the repository does not say what it then reports.
- SSIDs, passwords and G-code lines longer than their buffers, which the handlers cut.

## Plan

Done, in this order: the link, the queue and line assembly; then the status report, the
logs, the page, the HTTP server, the status text, WiFi, the watchdog and the LED; then
the composition of queue and log and the refinement of the log; then the theorems, of
every component.

Left:

1. `LossyStream`, an abstract specification of the link (an order-preserving stream that
   may lose lines, and says when), implemented by `GrblLink`: `PipelineOrder` and
   `AcceptedNotLost` are its two halves.
2. A soft reset of the controller in `StatusReport`, once what it reports is documented.
