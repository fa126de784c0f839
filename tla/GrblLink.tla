------------------------------- MODULE GrblLink -------------------------------
(***************************************************************************)
(* The path of a G-code line, and of a real-time request, from the HTTP    *)
(* handlers on core0 (src/api_handlers.c) through the shared state         *)
(* (src/shared_state.c) and the core1 loop (src/grbl_link.c) over USB      *)
(* (src/usb_host_cdc.c) to grblHAL, and the way its answers come back.     *)
(*                                                                         *)
(* Lines are numbered in the order the API received them.  Bytes travel in *)
(* units: the text of a line, its newline, one real-time byte.  The queue  *)
(* is the FIFO that GcodeQueue is shown to implement.  grblHAL and the     *)
(* cable are the environment.  Console logs are left out.                  *)
(***************************************************************************)
EXTENDS Integers, Sequences, Counting

CONSTANTS
    GCODE_QUEUE_DEPTH,
    TxRoom,         \* units the CDC transmit FIFO holds
    ReplyRoom,      \* lines from grblHAL that can be in transit
    LongLines,      \* lines whose text and newline never fit the transmit FIFO
    Requests,       \* real-time requests the users make
    GrblSays,       \* what grblHAL may say besides "ok": it answers "error", it raises an
                    \* "ALARM", it greets a new host with its "banner"
    Polls,          \* whether the '?' poll timer runs
    PostSizes,      \* numbers of lines in the bodies of POST /api/gcode
    MaxLines, MaxCableMoves,            \* bounds on what the users do
    MaxRequests     \* bounds real-time requests and alarms, together

ASSUME ConstantsAssumption ==
    /\ GCODE_QUEUE_DEPTH \in Nat /\ TxRoom \in Nat /\ ReplyRoom \in Nat \ {0}
    /\ MaxLines \in Nat /\ PostSizes \subseteq Nat /\ MaxRequests \in Nat /\ MaxCableMoves \in Nat
    /\ Requests \subseteq {"hold", "resume", "reset"}
    /\ GrblSays \subseteq {"error", "ALARM", "banner"}
    /\ Polls \in BOOLEAN

VARIABLES
    (* core1, private to grbl_link.c and usb_host_cdc.c *)
    pc,             \* where core1 is in its loop
    mounted,        \* mounted_idx # 0xFF
    waiting_ok,
    expired,        \* time_reached(waiting_deadline)
    poll_due,       \* time_reached(next_poll)
    need_g_query,
    (* shared_state.c *)
    queue,          \* G-code lines, oldest first
    rt,             \* which of rt_hold, rt_resume, rt_reset are set
    connected,      \* state.connected
    alarm,          \* state.alarm: "none" when empty
    (* core0 *)
    post,           \* the POST /api/gcode being handled
    (* the cable and grblHAL *)
    plugged,
    tx,             \* units written by core1 and not yet taken by grblHAL
    replies,        \* lines from grblHAL not yet seen by on_line
    inbox,          \* what grblHAL received and has not executed
    held,           \* grblHAL is in feed hold
    (* history, and counters for the bounds *)
    posted,         \* how many lines the API received
    accepted,       \* the lines the queue took
    executed,       \* the lines grblHAL executed
    giveups,        \* how often core1 stopped waiting for a reason other than an answer
    overtaken,      \* queued lines sent while a hold was pending
    requests,       \* real-time requests and alarms so far
    cable_moves

core1   == <<mounted, waiting_ok, expired, poll_due, need_g_query>>
shared  == <<queue, rt, connected, alarm>>
cable   == <<plugged, tx, replies>>
grblHAL == <<inbox, held>>
ledger  == <<posted, accepted, executed>>
bounds  == <<requests, cable_moves>>
history == <<ledger, giveups, overtaken, bounds>>
vars    == <<pc, core1, shared, post, cable, grblHAL, history>>
-------------------------------------------------------------------------------
GQuery == 0                             \* the link's own "$G", numbered below any line
LineIds == 1 .. MaxLines

Text(l) == [kind |-> "text", line |-> l]
Newline == [kind |-> "newline", line |-> 0]
Byte(r) == [kind |-> r, line |-> 0]     \* '!', '~', 0x18 by the request's name, '?' as "poll"

LineUnits == {Text(l) : l \in LineIds \cup {GQuery}} \cup {Newline}
Units == LineUnits \cup {Byte(r) : r \in {"hold", "resume", "reset", "poll"}}
Replies == {"ok", "error", "ALARM", "banner", "status"}

NoPost == [active |-> FALSE, todo |-> <<>>, queued |-> 0, rejected |-> 0]
Phases == {"task", "realtime", "poll", "timeout", "g_query", "pop"}

TypeOK ==
    /\ pc \in Phases
    /\ mounted \in BOOLEAN /\ waiting_ok \in BOOLEAN /\ expired \in BOOLEAN
    /\ poll_due \in BOOLEAN /\ need_g_query \in BOOLEAN
    /\ queue \in Seq(LineIds) /\ Len(queue) <= GCODE_QUEUE_DEPTH
    /\ rt \subseteq Requests
    /\ connected \in BOOLEAN
    /\ alarm \in {"none", "error", "ALARM"}
    /\ post \in [active : BOOLEAN, todo : Seq(LineIds), queued : Nat, rejected : Nat]
    /\ plugged \in BOOLEAN
    /\ tx \in Seq(Units) /\ Len(tx) <= TxRoom
    /\ replies \in Seq(Replies) /\ Len(replies) <= ReplyRoom
    /\ inbox \in Seq(LineUnits)
    /\ held \in BOOLEAN
    /\ posted \in 0 .. MaxLines
    /\ accepted \subseteq LineIds /\ executed \subseteq LineIds
    /\ giveups \in Nat /\ overtaken \in Nat
    /\ requests \in 0 .. MaxRequests /\ cable_moves \in 0 .. MaxCableMoves

Init ==
    /\ pc = "task"
    /\ mounted = FALSE /\ waiting_ok = FALSE /\ expired = FALSE
    /\ poll_due = FALSE /\ need_g_query = FALSE
    /\ queue = <<>> /\ rt = {} /\ connected = FALSE /\ alarm = "none"
    /\ post = NoPost
    /\ plugged = FALSE /\ tx = <<>> /\ replies = <<>>
    /\ inbox = <<>> /\ held = FALSE
    /\ posted = 0 /\ accepted = {} /\ executed = {} /\ giveups = 0 /\ overtaken = 0
    /\ requests = 0 /\ cable_moves = 0
-------------------------------------------------------------------------------
(* Core0: the handlers of api_handlers.c and the loop of main.c.  One thread: *)
(* nothing else of core0 runs while a POST is handled.                        *)

\* POST /api/gcode with k lines: handle_gcode_post clears the alarm first.
PostBegin(k) ==
    /\ ~post.active
    /\ posted + k <= MaxLines
    /\ posted' = posted + k
    /\ alarm' = "none"
    /\ post' = [NoPost EXCEPT !.active = TRUE, !.todo = [i \in 1 .. k |-> posted + i]]
    /\ UNCHANGED <<pc, core1, queue, rt, connected, cable, grblHAL, accepted, executed,
                   giveups, overtaken, bounds>>

\* Mutants: the newest line goes to the front; a push makes room by dropping the oldest.
PushAtFront(l) == queue' = <<l>> \o queue
PushDroppingOldest(l) == queue' = IF queue = <<>> THEN <<l>> ELSE Append(Tail(queue), l)

Push(l) == queue' = Append(queue, l)

QueueHasRoom == Len(queue) < GCODE_QUEUE_DEPTH

PostAccept ==
    /\ post.todo # <<>>
    /\ QueueHasRoom
    /\ Push(Head(post.todo))
    /\ accepted' = accepted \cup {Head(post.todo)}
    /\ post' = [post EXCEPT !.todo = Tail(@), !.queued = @ + 1]
    /\ UNCHANGED <<pc, core1, rt, connected, alarm, cable, grblHAL, posted, executed,
                   giveups, overtaken, bounds>>

\* The handler goes on with the next line after a rejected one.
PostReject ==
    /\ post.todo # <<>>
    /\ ~QueueHasRoom
    /\ post' = [post EXCEPT !.todo = Tail(@), !.rejected = @ + 1]
    /\ UNCHANGED <<pc, core1, shared, cable, grblHAL, history>>

PostReply ==
    /\ post.active /\ post.todo = <<>>
    /\ post' = NoPost
    /\ UNCHANGED <<pc, core1, shared, cable, grblHAL, history>>

\* POST /api/hold, /api/resume, /api/reset: handle_realtime.
Realtime(r) ==
    /\ ~post.active
    /\ requests < MaxRequests
    /\ requests' = requests + 1
    /\ alarm' = "none"
    /\ rt' = rt \cup {r}
    /\ overtaken' = IF r = "hold" /\ "hold" \notin rt THEN 0 ELSE overtaken
    /\ UNCHANGED <<pc, core1, queue, connected, post, cable, grblHAL, ledger, giveups,
                   cable_moves>>

\* main.c saw no tick of core1 for CORE1_STALL_TIMEOUT_MS.
FlagStall ==
    /\ ~post.active
    /\ connected
    /\ connected' = FALSE
    /\ UNCHANGED <<pc, core1, queue, rt, alarm, post, cable, grblHAL, history>>

Core0 ==
    \/ \E k \in PostSizes : PostBegin(k)
    \/ PostAccept \/ PostReject \/ PostReply
    \/ \E r \in Requests : Realtime(r)
    \/ FlagStall
-------------------------------------------------------------------------------
(* Core1, in usb_host_cdc_task(): the mount callbacks and on_line.  None of  *)
(* them leaves the task, which may handle any number of events in one pass.  *)

GiveUp == giveups' = IF waiting_ok THEN giveups + 1 ELSE giveups

Mount ==
    /\ pc = "task" /\ plugged /\ ~mounted
    /\ mounted' = TRUE
    /\ connected' = TRUE
    /\ waiting_ok' = FALSE
    /\ need_g_query' = TRUE
    /\ GiveUp
    /\ UNCHANGED <<pc, expired, poll_due, queue, rt, alarm, post, cable, grblHAL,
                   ledger, overtaken, bounds>>

\* TinyUSB drops what the transmit FIFO of a closed interface still holds.
Unmount ==
    /\ pc = "task" /\ ~plugged /\ mounted
    /\ mounted' = FALSE
    /\ connected' = FALSE
    /\ waiting_ok' = FALSE
    /\ GiveUp
    /\ tx' = <<>>
    /\ UNCHANGED <<pc, expired, poll_due, need_g_query, queue, rt, alarm, post,
                   plugged, replies, grblHAL, ledger, overtaken, bounds>>

\* on_line takes the oldest line in transit, and it is one of lines.
OnLine(lines) ==
    /\ pc = "task" /\ mounted /\ replies # <<>>
    /\ Head(replies) \in lines
    /\ replies' = Tail(replies)
    /\ UNCHANGED <<pc, mounted, expired, poll_due, need_g_query, queue, rt, post,
                   plugged, tx, grblHAL, ledger, overtaken, bounds>>

OnAnswer ==
    /\ OnLine({"ok", "error"})
    /\ waiting_ok' = FALSE
    /\ alarm' = IF Head(replies) = "error" THEN "error" ELSE alarm
    /\ UNCHANGED <<connected, giveups>>

OnAlarm ==
    /\ OnLine({"ALARM"})
    /\ alarm' = "ALARM"
    /\ UNCHANGED <<waiting_ok, connected, giveups>>

OnBanner ==
    /\ OnLine({"banner"})
    /\ waiting_ok' = FALSE
    /\ GiveUp
    /\ UNCHANGED <<connected, alarm>>

\* Mutant: a status report stored without the link being up in it.
OnStatusKeepsConnected ==
    /\ OnLine({"status"})
    /\ UNCHANGED <<connected, waiting_ok, alarm, giveups>>

\* parse_status_report: the new state says connected, set_status keeps the alarm.
OnStatus ==
    /\ OnLine({"status"})
    /\ connected' = TRUE
    /\ UNCHANGED <<waiting_ok, alarm, giveups>>

TaskDone ==
    /\ pc = "task" /\ pc' = "realtime"
    /\ UNCHANGED <<core1, shared, post, cable, grblHAL, history>>
-------------------------------------------------------------------------------
(* Core1, the rest of a pass through the loop of grbl_link_core1_main.       *)

\* usb_host_cdc_write(): what fits the transmit FIFO is sent, and only a write that went
\* in whole reports success.
Fits(l) == l \notin LongLines /\ Len(tx) + 2 <= TxRoom
WriteLine(l) == tx' = tx \o <<Text(l), Newline>>

\* Mutant: what is to be sent while the FIFO is busy is dropped.
WriteCutWhenBusy(u) == tx' = IF tx = <<>> THEN <<u>> ELSE tx

WriteCut(u) == tx' = IF Len(tx) < TxRoom THEN Append(tx, u) ELSE tx

StartWaiting == waiting_ok' = TRUE /\ expired' = FALSE

\* shared_state_take_realtime().
Taken(flags) ==
    IF "hold" \in flags THEN "hold" ELSE IF "resume" \in flags THEN "resume" ELSE "reset"

\* Mutant: requests wait for the queue to drain.
RealtimeReadyInBand == mounted /\ rt # {} /\ queue = <<>>

RealtimeReady == mounted /\ rt # {}

\* The result of the write is not looked at.
SendRealtime ==
    /\ pc = "realtime" /\ RealtimeReady
    /\ pc' = "poll"
    /\ rt' = rt \ {Taken(rt)}
    /\ WriteCut(Byte(Taken(rt)))
    /\ overtaken' = IF Taken(rt) = "hold" THEN 0 ELSE overtaken
    /\ UNCHANGED <<core1, queue, connected, alarm, post, plugged, replies, grblHAL,
                   ledger, giveups, bounds>>

SendPoll ==
    /\ pc = "poll" /\ mounted /\ poll_due
    /\ pc' = "timeout"
    /\ poll_due' = FALSE
    /\ WriteCut(Byte("poll"))
    /\ UNCHANGED <<mounted, waiting_ok, expired, need_g_query, shared, post, plugged,
                   replies, grblHAL, history>>

\* Mutant: the timeout is looked at only when nothing waits.
TimedOutWhenIdle == waiting_ok /\ expired /\ queue = <<>>

TimedOut == waiting_ok /\ expired

TimeOut ==
    /\ pc = "timeout" /\ TimedOut
    /\ pc' = "g_query"
    /\ waiting_ok' = FALSE
    /\ GiveUp
    /\ UNCHANGED <<mounted, expired, poll_due, need_g_query, shared, post, cable,
                   grblHAL, ledger, overtaken, bounds>>

CanQuery == mounted /\ ~waiting_ok /\ need_g_query

SendGQuery ==
    /\ pc = "g_query" /\ CanQuery
    /\ Fits(GQuery)
    /\ pc' = "pop"
    /\ WriteLine(GQuery)
    /\ need_g_query' = FALSE
    /\ StartWaiting
    /\ UNCHANGED <<mounted, poll_due, shared, post, plugged, replies, grblHAL, history>>

\* The query stays due, and the pass goes on to the queue.
CutGQuery ==
    /\ pc = "g_query" /\ CanQuery
    /\ ~Fits(GQuery)
    /\ pc' = "pop"
    /\ WriteCut(Text(GQuery))
    /\ UNCHANGED <<core1, shared, post, plugged, replies, grblHAL, history>>

\* Mutant: the queue is served without waiting for the last answer.
CanPopWithoutWaiting == mounted /\ queue # <<>>

CanPop == mounted /\ ~waiting_ok /\ queue # <<>>

CountOvertaking == overtaken' = IF "hold" \in rt THEN overtaken + 1 ELSE overtaken

SendLine ==
    /\ pc = "pop" /\ CanPop
    /\ Fits(Head(queue))
    /\ pc' = "task"
    /\ queue' = Tail(queue)
    /\ WriteLine(Head(queue))
    /\ StartWaiting
    /\ CountOvertaking
    /\ UNCHANGED <<mounted, poll_due, need_g_query, rt, connected, alarm, post,
                   plugged, replies, grblHAL, ledger, giveups, bounds>>

\* The line has left the queue and is not put back; nobody waits for an answer.
CutLine ==
    /\ pc = "pop" /\ CanPop
    /\ ~Fits(Head(queue))
    /\ pc' = "task"
    /\ queue' = Tail(queue)
    /\ WriteCut(Text(Head(queue)))
    /\ CountOvertaking
    /\ UNCHANGED <<core1, rt, connected, alarm, post, plugged, replies, grblHAL,
                   ledger, giveups, bounds>>

\* A phase of the pass whose condition is false.
NothingToDo ==
    /\ \/ pc = "realtime" /\ ~RealtimeReady        /\ pc' = "poll"
       \/ pc = "poll"     /\ ~(mounted /\ poll_due) /\ pc' = "timeout"
       \/ pc = "timeout"  /\ ~TimedOut             /\ pc' = "g_query"
       \/ pc = "g_query"  /\ ~CanQuery             /\ pc' = "pop"
       \/ pc = "pop"      /\ ~CanPop               /\ pc' = "task"
    /\ UNCHANGED <<core1, shared, post, cable, grblHAL, history>>

Task == Mount \/ Unmount \/ OnAnswer \/ OnAlarm \/ OnBanner \/ OnStatus
Pass ==
    \/ SendRealtime \/ SendPoll \/ TimeOut \/ SendGQuery \/ CutGQuery
    \/ SendLine \/ CutLine \/ NothingToDo
Core1 == Task \/ TaskDone \/ Pass
-------------------------------------------------------------------------------
(* The environment: the clock, the cable and grblHAL.                        *)

DeadlinePasses ==
    /\ waiting_ok /\ ~expired
    /\ expired' = TRUE
    /\ UNCHANGED <<pc, mounted, waiting_ok, poll_due, need_g_query, shared, post,
                   cable, grblHAL, history>>

PollInterval ==
    /\ Polls /\ ~poll_due
    /\ poll_due' = TRUE
    /\ UNCHANGED <<pc, mounted, waiting_ok, expired, need_g_query, shared, post, cable,
                   grblHAL, history>>

MoveCable == cable_moves < MaxCableMoves /\ cable_moves' = cable_moves + 1

\* A controller is connected: one that has just been switched on, or one that kept its own
\* power and with it the commands it was given.
Plug ==
    /\ ~plugged /\ ~mounted
    /\ MoveCable
    /\ plugged' = TRUE
    /\ \/ UNCHANGED <<inbox, held, replies>>
       \/ /\ inbox' = <<>> /\ held' = FALSE
          /\ replies' \in {<<>>} \cup {<<b>> : b \in GrblSays \cap {"banner"}}
    /\ UNCHANGED <<pc, core1, shared, post, tx, ledger, giveups, overtaken, requests>>

Unplug ==
    /\ plugged
    /\ MoveCable
    /\ plugged' = FALSE
    /\ replies' = <<>>
    /\ UNCHANGED <<pc, core1, shared, post, tx, grblHAL, ledger, giveups, overtaken,
                   requests>>

Says(r) == Len(replies) < ReplyRoom /\ replies' = Append(replies, r)

\* Takes the next unit off the cable: text and newlines collect in its input, real-time
\* bytes act at once.  A run of "$G" fragments is kept as one.
GrblReceive ==
    /\ plugged /\ tx # <<>>
    /\ tx' = Tail(tx)
    /\ LET u == Head(tx) IN
       CASE u \in LineUnits ->
               /\ inbox' = IF u = Text(GQuery) /\ inbox # <<>> /\ inbox[Len(inbox)] = u
                           THEN inbox ELSE Append(inbox, u)
               /\ UNCHANGED <<held, replies>>
         [] u = Byte("poll")   -> Says("status") /\ UNCHANGED grblHAL
         [] u = Byte("hold")   -> held' = TRUE  /\ UNCHANGED <<inbox, replies>>
         [] u = Byte("resume") -> held' = FALSE /\ UNCHANGED <<inbox, replies>>
         [] u = Byte("reset")  -> inbox' = <<>> /\ held' = FALSE /\ Says("banner")
    /\ UNCHANGED <<pc, core1, shared, post, plugged, history>>

\* The units of the first complete command in grblHAL's input are 1 .. k.
Command(k) ==
    /\ k \in DOMAIN inbox /\ inbox[k] = Newline
    /\ \A j \in 1 .. k - 1 : inbox[j] # Newline

\* It executes the command and answers it; without a cable the answer goes nowhere.
GrblAnswer(answer) ==
    /\ \E k \in DOMAIN inbox :
          /\ Command(k)
          /\ inbox' = SubSeq(inbox, k + 1, Len(inbox))
          /\ executed' = executed \cup ({inbox[j].line : j \in 1 .. k} \cap LineIds)
    /\ IF plugged THEN Says(answer) ELSE UNCHANGED replies
    /\ UNCHANGED <<pc, core1, shared, post, plugged, tx, held, posted, accepted,
                   giveups, overtaken, bounds>>

\* An alarm may abort what grblHAL has received, unanswered.
GrblAlarm ==
    /\ "ALARM" \in GrblSays /\ plugged
    /\ requests < MaxRequests
    /\ requests' = requests + 1
    /\ Says("ALARM")
    /\ inbox' \in {inbox, <<>>}
    /\ UNCHANGED <<pc, core1, shared, post, plugged, tx, held, ledger, giveups, overtaken,
                   cable_moves>>

Environment ==
    \/ DeadlinePasses \/ PollInterval \/ Plug \/ Unplug
    \/ GrblReceive \/ (\E a \in {"ok"} \cup (GrblSays \cap {"error"}) : GrblAnswer(a)) \/ GrblAlarm
-------------------------------------------------------------------------------
Next == Core0 \/ Core1 \/ Environment

\* Core1's loop never stops, and what has arrived or was attached is handled by some later
\* pass; no two of the events of Task are possible at a time.  A POST handler runs on.  The
\* clock advances and a connected grblHAL takes the bytes sent to it.  It is never assumed to
\* answer.
Fairness ==
    /\ WF_vars(TaskDone \/ Pass)
    /\ SF_vars(Task)
    /\ WF_vars(PostAccept \/ PostReject \/ PostReply)
    /\ WF_vars(DeadlinePasses) /\ WF_vars(PollInterval)
    /\ WF_vars(GrblReceive)

SafetySpec == Init /\ [][Next]_vars
Spec == SafetySpec /\ Fairness
-------------------------------------------------------------------------------
(* Safety. *)

\* Lines sent and not yet accounted for by an answer that core1 has seen.
InFlight ==
    Count(tx, {Newline}) + Count(inbox, {Newline}) + Count(replies, {"ok", "error"})

\* The handshake.  Core1 sends one line at a time and waits for its answer
\* (README.md:24-25, grbl_link.h:2), so at most the line it waits for is in flight, plus one
\* for each time it gave up waiting: a timeout, a banner or an unplugged cable.
InFlightBound == InFlight <= (IF waiting_ok THEN 1 ELSE 0) + giveups

\* Where the lines are on their way, from grblHAL's input back to the POST body.
LinesOf(units) == [i \in 1 .. Len(units) |-> units[i].line]
Path == LinesOf(inbox) \o LinesOf(tx) \o queue \o post.todo

\* No line overtakes another and none is sent twice, whatever is cut, lost, timed out or
\* reset on the way: what is under way is in the order it was posted and comes after
\* everything executed (zero is not a line: "$G" and newlines).
PipelineOrder ==
    LET path == Path IN
    /\ \A i, j \in DOMAIN path : i < j /\ path[i] # 0 /\ path[j] # 0 => path[i] < path[j]
    /\ \A l \in executed, i \in DOMAIN path : path[i] # 0 => l < path[i]

\* A feed hold is out of band (README.md:25): however long the queue is, at most the one
\* line that core1 was about to send goes out before a requested hold does.
HoldOvertakenOnce == overtaken <= 1

\* The API never shows a connection without a mounted device (shared_state.h:26).
ConnectedMeansMounted == connected => mounted

\* The lines that are executed, or on their way.
Alive == LET path == Path IN executed \cup {path[i] : i \in DOMAIN path}

\* Where an accepted line is lost.  Core1 drops one only when the transmit FIFO has no room
\* for any of it, or with the interface it was written to; everything else is the doing of
\* the controller: a reset, an alarm, its power.  In particular no line is lost to the queue,
\* to a refused neighbour, or to core1 giving up on an answer that comes late
\* (grbl_link.c:15-16).
AcceptedNotLost ==
    [][(accepted \cap Alive) \ Alive' # {} =>
          \/ CutLine /\ Len(tx) = TxRoom
          \/ Unmount
          \/ GrblReceive /\ Head(tx) = Byte("reset")
          \/ GrblAlarm
          \/ Plug]_vars
-------------------------------------------------------------------------------
(* Liveness. *)

\* While a device stays attached an accepted line does not stay in the queue, even if
\* grblHAL never answers: LINE_TIMEOUT_MS ends the wait (grbl_link.c:299-302).
QueueDrains == queue # <<>> /\ plugged ~> queue = <<>> \/ ~plugged

\* A connection wrongly reported as down (main.c:95) is reported as up again by a status
\* report, as long as the device stays mounted (grbl_link.c:75), unless the transmit FIFO was
\* full: the write of the '?' that asks for the report is not checked.
ConnectionShownAgain ==
    mounted /\ ~connected ~> connected \/ ~plugged \/ Len(tx) = TxRoom

\* A requested hold reaches grblHAL under the same two provisos.
HoldArrives == "hold" \in rt /\ mounted ~> held \/ ~plugged \/ Len(tx) = TxRoom
-------------------------------------------------------------------------------
(* What the documentation says of the link, and the code does not do. *)

\* "Queued and sent to grblHAL one line at a time" (README.md:270): no two lines reach
\* grblHAL as one command.
LinesStayApart ==
    \A i \in 1 .. Len(inbox) - 1 : Newline \in {inbox[i], inbox[i + 1]}
===============================================================================
