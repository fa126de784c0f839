---------------------------- MODULE StatusReport ----------------------------
(***************************************************************************)
(* What becomes of a status report: on_line and parse_status_report on     *)
(* core1 (with last_wco, last_wcs, last_status_word and                    *)
(* force_next_status_log, which outlive the report), the shared state and  *)
(* the filtered log it is put into, and handle_status and the user's       *)
(* commands on core0.  grblHAL names its work offset and its coordinate    *)
(* system only in the first report after they changed.  An offset, a       *)
(* coordinate system, a status word and an alarm text are values; the      *)
(* other fields of a report are copied through and left out.               *)
(***************************************************************************)
EXTENDS Naturals, Sequences, FiniteSets

CONSTANTS Words, Offsets, Systems,
          Unknown,          \* nothing seen yet
          G54,              \* the system a controller starts with
          WINDOW,           \* STATUS_FILTERED_LINES
          MaxChanges,       \* bound on the changes of the controller's state
          MaxReports,       \* bound on status reports
          MaxErrors,        \* bound on error: and ALARM: lines
          MaxOthers,        \* bound on lines of other kinds: ok, messages, dumps
          MaxCommands,      \* bound on the user's commands
          MaxReplugs,       \* bound on unpluggings
          MaxPolls          \* bound on GET /api/status

ASSUME StatusAssumption ==
    /\ G54 \in Systems /\ Unknown \notin Offsets \cup Systems \cup Words
    /\ WINDOW \in Nat \ {0}
    /\ {MaxChanges, MaxReports, MaxErrors, MaxOthers, MaxCommands, MaxReplugs,
        MaxPolls} \subseteq Nat

VARIABLES
    now,                    \* grblHAL: [word, offset, system]
    untold,                 \* which of them the next report names: subset of {"offset", "system"}
    wire,                   \* lines under way to core1
    mounted, need_g_query,
    last_wco, last_wcs, last_status_word, force_next_status_log,
    step,                   \* core1 within on_line: "idle", "push", "enter", "store"
    ns,                     \* the new state it is about to store
    alarm_keep,
    state,                  \* what GET /api/status shows of the machine
    alarm,                  \* state.alarm: the number of the error shown, 0 for none
    pushed,                 \* lines pushed to the filtered log so far: the newest one's number
    status_line,            \* the number of its newest status line, 0 for none
    logged_word,            \* the word of that line
    todo,                   \* a user's command that core1 has not sent
    page,                   \* handle_status: [at, needs, lines], needs being the number of
                            \* the status line of the state it has got
    unheard,                \* history: an offset was named in a report lost with the cable
    seeded,                 \* history: has this mount's $G been answered
    used                    \* how much of each bound is used up

controller == <<now, untold>>
caches == <<last_wco, last_wcs, last_status_word>>
parser == <<step, ns, alarm_keep>>
log    == <<pushed, status_line, logged_word>>
vars   == <<controller, wire, mounted, need_g_query, caches, force_next_status_log, parser,
            state, alarm, log, todo, page, unheard, seeded, used>>

Machine == [word : Words, offset : Offsets, system : Systems]

\* A report: the controller's state, and what of it is said.
Report == [kind : {"<"}, is : Machine, says : SUBSET {"offset", "system"}]
Parsed == [word : Words \cup {Unknown, "Disconnected"}, offset : Offsets \cup {Unknown},
           system : Systems \cup {Unknown}, of : Machine,
           unheard : BOOLEAN, seeded : BOOLEAN, line : Nat]

TypeOK ==
    /\ now \in Machine /\ untold \subseteq {"offset", "system"}
    /\ \A i \in DOMAIN wire : wire[i] \in Report \/ wire[i].kind \in {"[GC:", "error"}
    /\ mounted \in BOOLEAN /\ need_g_query \in BOOLEAN /\ force_next_status_log \in BOOLEAN
    /\ last_wco \in Offsets \cup {Unknown} /\ last_wcs \in Systems \cup {Unknown}
    /\ last_status_word \in Words \cup {Unknown} /\ logged_word \in Words \cup {Unknown}
    /\ step \in {"idle", "push", "enter", "store"}
    /\ ns \in Parsed /\ state \in Parsed
    /\ alarm \in 0 .. MaxErrors /\ alarm_keep \in 0 .. MaxErrors
    /\ pushed \in Nat /\ status_line \in Nat
    /\ todo \in BOOLEAN /\ seeded \in BOOLEAN /\ unheard \in BOOLEAN
    /\ page \in [at : {"idle", "log", "done"}, needs : Nat, lines : SUBSET Nat]

Init ==
    /\ now \in [word : Words, offset : Offsets, system : {G54}]
    /\ untold = {"offset"}
    /\ wire = <<>>
    /\ mounted = FALSE /\ need_g_query = FALSE
    /\ last_wco = Unknown /\ last_wcs = Unknown /\ last_status_word = Unknown
    /\ force_next_status_log = FALSE
    /\ step = "idle" /\ alarm_keep = 0
    /\ ns = [word |-> Unknown, offset |-> Unknown, system |-> Unknown, of |-> now,
             unheard |-> FALSE, seeded |-> FALSE, line |-> 0]
    /\ state = ns
    /\ alarm = 0 /\ pushed = 0 /\ status_line = 0 /\ logged_word = Unknown
    /\ todo = FALSE
    /\ page = [at |-> "idle", needs |-> 0, lines |-> {}]
    /\ unheard = FALSE /\ seeded = FALSE
    /\ used = [changes |-> 0, reports |-> 0, errors |-> 0, others |-> 0, commands |-> 0,
               replugs |-> 0, polls |-> 0]

Use(what, bound) == used[what] < bound /\ used' = [used EXCEPT ![what] = @ + 1]
-------------------------------------------------------------------------------
(* grblHAL *)

Changes ==
    /\ Use("changes", MaxChanges)
    /\ \/ \E w \in Words \ {now.word} : now' = [now EXCEPT !.word = w] /\ UNCHANGED untold
       \/ \E o \in Offsets \ {now.offset} :
              now' = [now EXCEPT !.offset = o] /\ untold' = untold \cup {"offset"}
       \/ \E s \in Systems \ {now.system} :
              now' = [now EXCEPT !.system = s] /\ untold' = untold \cup {"system"}
    /\ UNCHANGED <<wire, mounted, need_g_query, caches, force_next_status_log, parser, state,
                   alarm, log, todo, page, unheard, seeded>>

\* The answer to a '?'.
Reports ==
    /\ mounted
    /\ Use("reports", MaxReports)
    /\ wire' = Append(wire, [kind |-> "<", is |-> now, says |-> untold])
    /\ untold' = {}
    /\ UNCHANGED <<now, mounted, need_g_query, caches, force_next_status_log, parser, state,
                   alarm, log, todo, page, unheard, seeded>>

Complains ==
    /\ mounted
    /\ Use("errors", MaxErrors)
    /\ wire' = Append(wire, [kind |-> "error", no |-> used'.errors])
    /\ UNCHANGED <<controller, mounted, need_g_query, caches, force_next_status_log, parser,
                   state, alarm, log, todo, page, unheard, seeded>>
-------------------------------------------------------------------------------
(* core1 *)

\* shared_state_set_connected(false)
Disconnected == [state EXCEPT !.word = "Disconnected"]

\* on_mount(true)
Mount ==
    /\ ~mounted
    /\ mounted' = TRUE
    /\ need_g_query' = TRUE
    /\ seeded' = FALSE
    /\ UNCHANGED <<controller, wire, caches, force_next_status_log, parser, state, alarm, log,
                   todo, page, unheard, used>>

Names(line, what) == line.kind = "<" /\ what \in line.says

\* on_mount(false): what was under way is lost.  A controller fed by the cable
\* starts anew, one with a supply of its own goes on.
Unplug ==
    /\ mounted /\ step = "idle"
    /\ Use("replugs", MaxReplugs)
    /\ mounted' = FALSE
    /\ wire' = <<>>
    /\ state' = Disconnected
    /\ \/ /\ UNCHANGED controller
          /\ unheard' = (unheard \/ \E i \in DOMAIN wire : Names(wire[i], "offset"))
       \/ now' = [now EXCEPT !.system = G54] /\ untold' = {"offset"} /\ UNCHANGED unheard
    /\ UNCHANGED <<need_g_query, caches, force_next_status_log, parser, alarm, log, todo,
                   page, seeded>>

\* $G is written, and answered with the system in force.
AskG ==
    /\ mounted /\ need_g_query /\ step = "idle"
    /\ need_g_query' = FALSE
    /\ wire' = Append(wire, [kind |-> "[GC:", system |-> now.system])
    /\ UNCHANGED <<controller, mounted, caches, force_next_status_log, parser, state, alarm, log,
                   todo, page, unheard, seeded, used>>

\* shared_state_filtered_push, of a line that is no status line.
FilteredPush ==
    /\ pushed' = pushed + 1
    /\ UNCHANGED <<status_line, logged_word>>

\* A line of the queue or a realtime character is written, and logged.
Send ==
    /\ mounted /\ todo /\ step = "idle"
    /\ todo' = FALSE
    /\ force_next_status_log' = TRUE
    /\ FilteredPush
    /\ UNCHANGED <<controller, wire, mounted, need_g_query, caches, parser, state, alarm,
                   page, unheard, seeded, used>>

\* Mutant: the first offset seen is kept.
WcoOfFirst(r) == IF Names(r, "offset") /\ last_wco = Unknown THEN r.is.offset ELSE last_wco

Wco(r) == IF Names(r, "offset") THEN r.is.offset ELSE last_wco

Wcs(r) == IF Names(r, "system") THEN r.is.system ELSE last_wcs

IsLogged(word) ==
    \/ last_status_word # Unknown /\ last_status_word # word
    \/ force_next_status_log

\* Mutant: a forced report does not become the one the next is compared with.
WordUnlessForced(word) == IF force_next_status_log THEN last_status_word ELSE word

WordAfter(word) == word

\* parse_status_report up to the push to the filtered log.
Parse ==
    /\ step = "idle" /\ wire # <<>> /\ Head(wire).kind = "<"
    /\ LET r == Head(wire) IN
       /\ last_wco' = Wco(r)
       /\ last_wcs' = Wcs(r)
       /\ unheard' = (unheard /\ ~Names(r, "offset"))
       /\ last_status_word' = WordAfter(r.is.word)
       /\ ns' = [word |-> r.is.word, offset |-> last_wco', system |-> last_wcs', of |-> r.is,
                 unheard |-> unheard', seeded |-> seeded,
                 line |-> IF IsLogged(r.is.word) THEN pushed + 1 ELSE status_line]
       /\ step' = IF IsLogged(r.is.word) THEN "push" ELSE "enter"
    /\ force_next_status_log' = FALSE
    /\ wire' = Tail(wire)
    /\ UNCHANGED <<controller, mounted, need_g_query, alarm_keep, state, alarm, log, todo,
                   page, seeded, used>>

PushStatus ==
    /\ step = "push"
    /\ step' = "enter"
    /\ pushed' = pushed + 1
    /\ status_line' = pushed'
    /\ logged_word' = ns.word
    /\ UNCHANGED <<controller, wire, mounted, need_g_query, caches, force_next_status_log, ns,
                   alarm_keep, state, alarm, todo, page, unheard, seeded, used>>

\* Mutant: state_mutex is not taken.
NoMutex == TRUE

MutexFree == step # "store"

\* shared_state_set_status: the mutex is taken and the alarm saved ...
Enter ==
    /\ step = "enter"
    /\ step' = "store"
    /\ alarm_keep' = alarm
    /\ UNCHANGED <<controller, wire, mounted, need_g_query, caches, force_next_status_log, ns,
                   state, alarm, log, todo, page, unheard, seeded, used>>

\* ... and the new state stored under the saved alarm.
Store ==
    /\ step = "store"
    /\ step' = "idle"
    /\ state' = ns
    /\ alarm' = alarm_keep
    /\ alarm_keep' = 0
    /\ UNCHANGED <<controller, wire, mounted, need_g_query, caches, force_next_status_log, ns,
                   log, todo, page, unheard, seeded, used>>

\* Mutant: $G only fills in what is not known.
SeedIfUnknown(system) == IF last_wcs = Unknown THEN system ELSE last_wcs

Seed(system) == system

\* on_line logs whatever is no status report: the answer to $G (parse_gc_wcs), ...
ParseGC ==
    /\ step = "idle" /\ wire # <<>> /\ Head(wire).kind = "[GC:"
    /\ last_wcs' = Seed(Head(wire).system)
    /\ seeded' = TRUE
    /\ wire' = Tail(wire)
    /\ FilteredPush
    /\ UNCHANGED <<controller, mounted, need_g_query, last_wco, last_status_word,
                   force_next_status_log, parser, state, alarm, todo, page, unheard, used>>

\* ... what raises the alarm, ...
SetAlarm ==
    /\ step = "idle" /\ wire # <<>> /\ Head(wire).kind = "error"
    /\ alarm' = Head(wire).no
    /\ wire' = Tail(wire)
    /\ FilteredPush
    /\ UNCHANGED <<controller, mounted, need_g_query, caches, force_next_status_log, parser,
                   state, todo, page, unheard, seeded, used>>

\* ... and an ok, a message, a line of a dump.  Where on the wire it was is all the same.
OtherLine ==
    /\ mounted /\ step = "idle"
    /\ Use("others", MaxOthers)
    /\ FilteredPush
    /\ UNCHANGED <<controller, wire, mounted, need_g_query, caches, force_next_status_log,
                   parser, state, alarm, todo, page, unheard, seeded>>
-------------------------------------------------------------------------------
(* core0 *)

\* main: core1 has not ticked for a while.
FlagStall ==
    /\ MutexFree
    /\ state' = Disconnected
    /\ UNCHANGED <<controller, wire, mounted, need_g_query, caches, force_next_status_log,
                   parser, alarm, log, todo, page, unheard, seeded, used>>

\* POST /api/gcode, hold, resume or reset: the alarm is cleared and the command handed over.
Command ==
    /\ MutexFree
    /\ ~todo
    /\ Use("commands", MaxCommands)
    /\ alarm' = 0
    /\ todo' = TRUE
    /\ UNCHANGED <<controller, wire, mounted, need_g_query, caches, force_next_status_log,
                   parser, state, log, page, unheard, seeded>>

\* handle_status takes its snapshots: first the machine's state, later the log.
GetState ==
    /\ page.at # "log" /\ MutexFree
    /\ Use("polls", MaxPolls)
    /\ page' = [page EXCEPT !.at = "log", !.needs = state.line]
    /\ UNCHANGED <<controller, wire, mounted, need_g_query, caches, force_next_status_log,
                   parser, state, alarm, log, todo, unheard, seeded>>

\* Mutant: the log is the one taken for the answer before.
LogBefore == page.lines

\* shared_state_filtered_snapshot: the newest lines, no more than the answer has place for.
LogNow == {n \in 1 .. pushed : pushed < n + WINDOW}

GetLog ==
    /\ page.at = "log"
    /\ page' = [page EXCEPT !.at = "done", !.lines = LogNow]
    /\ UNCHANGED <<controller, wire, mounted, need_g_query, caches, force_next_status_log,
                   parser, state, alarm, log, todo, unheard, seeded, used>>
-------------------------------------------------------------------------------
Controller == Changes \/ Reports \/ Complains
Core1 == \/ Mount \/ Unplug \/ AskG \/ Send \/ Parse \/ PushStatus \/ Enter \/ Store
         \/ ParseGC \/ SetAlarm \/ OtherLine
Core0 == FlagStall \/ Command \/ GetState \/ GetLog

Next == Controller \/ Core1 \/ Core0

Spec == Init /\ [][Next]_vars
-------------------------------------------------------------------------------
\* Work positions are computed with the offset that was in force when the report was made: "a
\* report without one still means 'same offset as before'" (grbl_link.c:27-29), unless the
\* report that named the offset was lost with the cable of a controller that stayed on, and no
\* report has named one since.
OffsetInForce ==
    state.offset # Unknown /\ ~state.unheard => state.offset = state.of.offset

\* Once this mount's $G is answered the coordinate system shown is the controller's, whatever
\* controller was there before and whatever was lost with it (grbl_link.c:38-42).
SystemInForce == state.seeded => state.system = state.of.system

\* The filtered log's newest status line tells the state the machine was last heard to be in:
\* no change of state goes unlogged, also across a forced report and a replug.  (The types of
\* what is parsed, stored and logged go with it.)
LogTellsStatus ==
    /\ TypeOK
    /\ step = "idle" /\ logged_word # Unknown => logged_word = last_status_word

\* An answer to GET /api/status has the log line of the state it shows, or WINDOW newer ones
\* that have pushed it out: it never shows a state that its log has not come to, though the two
\* are read one after the other and under different mutexes (api_handlers.c:72-78).
LogExplainsStatus ==
    page.at = "done" /\ page.needs # 0 =>
        \/ page.needs \in page.lines
        \/ Cardinality(page.lines) = WINDOW /\ \A n \in page.lines : page.needs < n

\* The alarm is dismissed by the user's command only, and not brought back by a report that
\* was being stored meanwhile (shared_state.c:57-59): no lost update of either kind.
AlarmIsTheUsers == [][alarm' # alarm => SetAlarm \/ Command]_vars
===============================================================================
