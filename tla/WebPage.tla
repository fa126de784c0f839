------------------------------- MODULE WebPage -------------------------------
(***************************************************************************)
(* web/index.html against the board: the poll of /api/status every 500 ms, *)
(* the scrollback that is put together from the windows of the filtered    *)
(* log it brings, and the chain of POST /api/gcode.  A request or its      *)
(* answer may be lost or come too late (api() gives up after 3 s, of which *)
(* the connection does not know), and the board may reboot.  The log on    *)
(* the board is AppendLog: a line is its number, and the boot that logged  *)
(* it.                                                                     *)
(***************************************************************************)
EXTENDS Naturals, Sequences, FiniteSets

CONSTANTS WINDOW,           \* STATUS_FILTERED_LINES
          SCROLLBACK,       \* FILTERED_SCROLLBACK_MAX
          Polls,            \* names for the /api/status requests under way
          MaxLines,         \* bound on the lines logged in one boot
          MaxBoots,         \* bound on boots
          MaxSelections,    \* bound on the selections the user makes
          MaxClicks         \* bound on commands the user sends

ASSUME PageAssumption ==
    /\ WINDOW \in Nat \ {0} /\ SCROLLBACK \in Nat \ {0} /\ WINDOW <= SCROLLBACK
    /\ MaxLines \in Nat /\ MaxBoots \in Nat \ {0}
    /\ MaxSelections \in Nat /\ MaxClicks \in Nat

VARIABLES boot, count,          \* the board: which boot it is in, lines logged in it
          polls,                \* the status requests under way
          statusFetchInFlight,
          selecting,            \* text in the console is selected
          selections,           \* how often it was
          filteredBuffer,       \* the scrollback: sequence of [boot, seq]
          filteredLastSeq,
          clicks,               \* commands the user has sent so far
          chain,                \* those whose turn in gcodeSendChain has not come
          sending,              \* the chain's step: "idle", "post", "refresh", "await"
          ran,                  \* has the board run the POST under way
          late,                 \* posts given up whose request the board may still get
          restarts,             \* history: how often the scrollback was started over
          merged,               \* history: the boot of the last window merged
          executed,             \* history: the commands the board was given
          abandoned             \* history: those given up before the board ran them

page == <<filteredBuffer, filteredLastSeq, restarts, merged>>
posts == <<late, executed, abandoned>>
commands == <<clicks, chain, sending, ran, posts>>
user == <<selecting, selections>>
vars == <<boot, count, polls, statusFetchInFlight, user, page, commands>>

NoPoll == [at |-> "none", by |-> "timer", boot |-> 0, upto |-> 0]
Line == [boot : 1 .. MaxBoots, seq : 1 .. MaxLines]

TypeOK ==
    /\ boot \in 1 .. MaxBoots /\ count \in 0 .. MaxLines
    /\ polls \in [Polls -> [at : {"none", "board", "answer"}, by : {"timer", "chain"},
                            boot : 0 .. MaxBoots, upto : 0 .. MaxLines]]
    /\ statusFetchInFlight \in BOOLEAN /\ selecting \in BOOLEAN /\ ran \in BOOLEAN
    /\ selections \in 0 .. MaxSelections
    /\ filteredBuffer \in Seq(Line) /\ Len(filteredBuffer) <= SCROLLBACK
    /\ filteredLastSeq \in 0 .. MaxLines
    /\ merged \in 0 .. MaxBoots
    /\ clicks \in 0 .. MaxClicks
    /\ chain \in Seq(1 .. MaxClicks) /\ executed \in Seq(1 .. MaxClicks)
    /\ late \subseteq abandoned /\ abandoned \subseteq 1 .. MaxClicks
    /\ sending \in {"idle", "post", "refresh", "await"}

Init ==
    /\ boot = 1 /\ count = 0
    /\ polls = [p \in Polls |-> NoPoll]
    /\ statusFetchInFlight = FALSE
    /\ selecting = FALSE /\ selections = 0
    /\ filteredBuffer = <<>> /\ filteredLastSeq = 0
    /\ restarts = 0 /\ merged = 0
    /\ clicks = 0 /\ chain = <<>> /\ sending = "idle" /\ ran = FALSE
    /\ late = {} /\ executed = <<>> /\ abandoned = {}
-------------------------------------------------------------------------------
(* The board *)

Log ==
    /\ count < MaxLines
    /\ count' = count + 1
    /\ UNCHANGED <<boot, polls, statusFetchInFlight, user, page, commands>>

\* The connections of requests that were given up are gone with the boot.
Reboot ==
    /\ boot < MaxBoots
    /\ boot' = boot + 1
    /\ count' = 0
    /\ late' = {}
    /\ UNCHANGED <<polls, statusFetchInFlight, user, page, clicks, chain, sending, ran, executed,
                   abandoned>>

\* handle_status takes its snapshot of the filtered log.
Serve(p) ==
    /\ polls[p].at = "board"
    /\ polls' = [polls EXCEPT ![p].at = "answer", ![p].boot = boot, ![p].upto = count]
    /\ UNCHANGED <<boot, count, statusFetchInFlight, user, page, commands>>
-------------------------------------------------------------------------------
(* refreshStatus *)

\* Mutant: every tick of the timer fetches.
MayPollAlways == TRUE

MayPoll == ~statusFetchInFlight

Fetch(p, who) ==
    /\ polls[p].at = "none"
    /\ polls' = [polls EXCEPT ![p] = [NoPoll EXCEPT !.at = "board", !.by = who]]
    /\ statusFetchInFlight' = TRUE

TimerPoll(p) ==
    /\ MayPoll
    /\ Fetch(p, "timer")
    /\ UNCHANGED <<boot, count, user, page, commands>>

\* Mutant: the flag is reset where the answer was merged, not in a finally.
FailureKeepsFlag == UNCHANGED statusFetchInFlight

FailureResetsFlag == statusFetchInFlight' = FALSE

\* The chain goes on when the refresh it waits for is over.
Over(p) ==
    /\ polls' = [polls EXCEPT ![p] = NoPoll]
    /\ sending' = IF polls[p].by = "chain" THEN "idle" ELSE sending
    /\ UNCHANGED <<boot, count, user, clicks, chain, ran, posts>>

\* Lost, aborted after 3 s, or not an answer.  The board may still serve it, for nobody.
PollFails(p) ==
    /\ polls[p].at # "none"
    /\ FailureResetsFlag
    /\ Over(p)
    /\ UNCHANGED page

\* The numbers of the lines an answer brings.
First(p) == IF polls[p].upto > WINDOW THEN polls[p].upto - WINDOW + 1 ELSE 1
Window(p) == First(p) .. polls[p].upto

\* Mutant: only the line appended last is told apart.
IsNewIfOther(seq, last) == seq # last

IsNew(seq, last) == seq > last

\* A set of numbers, ascending: the i-th is the one that i of them do not exceed.
Ascending(S) ==
    [i \in 1 .. Cardinality(S) |-> CHOOSE e \in S : Cardinality({d \in S : d <= e}) = i]

\* The new lines of a window, in their order.  Its numbers ascend, so one that is new when the
\* loop begins is new when it gets there.
NewLines(p, last) ==
    LET numbers == Ascending({seq \in Window(p) : IsNew(seq, last)})
    IN  [i \in DOMAIN numbers |-> [boot |-> polls[p].boot, seq |-> numbers[i]]]

\* Mutant: what is behind the limit is not appended.
NewestLeftOut(s) == IF Len(s) > SCROLLBACK THEN SubSeq(s, 1, SCROLLBACK) ELSE s

Newest(s) == IF Len(s) > SCROLLBACK THEN SubSeq(s, Len(s) - SCROLLBACK + 1, Len(s)) ELSE s

\* mergeFilteredLines: numbers that went backwards start the scrollback over.
Merge(p) ==
    LET over == polls[p].upto < filteredLastSeq
        last == IF over THEN 0 ELSE filteredLastSeq
        new  == NewLines(p, last)
    IN  IF polls[p].upto = 0 THEN UNCHANGED page
        ELSE /\ filteredBuffer' = Newest((IF over THEN <<>> ELSE filteredBuffer) \o new)
             /\ filteredLastSeq' = IF new = <<>> THEN last ELSE polls[p].upto
             /\ restarts' = restarts + (IF over THEN 1 ELSE 0)
             /\ merged' = polls[p].boot

PollMerged(p) ==
    /\ polls[p].at = "answer"
    /\ ~selecting
    /\ Merge(p)
    /\ statusFetchInFlight' = FALSE
    /\ Over(p)

\* A selection in the console makes this answer's log be passed over.
PollNotMerged(p) ==
    /\ polls[p].at = "answer"
    /\ selecting
    /\ statusFetchInFlight' = FALSE
    /\ Over(p)
    /\ UNCHANGED page

Select ==
    /\ ~selecting
    /\ selections < MaxSelections
    /\ selecting' = TRUE
    /\ selections' = selections + 1
    /\ UNCHANGED <<boot, count, polls, statusFetchInFlight, page, commands>>

Deselect ==
    /\ selecting
    /\ selecting' = FALSE
    /\ UNCHANGED <<boot, count, polls, statusFetchInFlight, selections, page, commands>>
-------------------------------------------------------------------------------
(* sendGcodeBody *)

Click ==
    /\ clicks < MaxClicks
    /\ clicks' = clicks + 1
    /\ chain' = Append(chain, clicks')
    /\ UNCHANGED <<boot, count, polls, statusFetchInFlight, user, page, sending, ran, posts>>

Post ==
    /\ sending = "idle"
    /\ chain # <<>>
    /\ sending' = "post"
    /\ ran' = FALSE
    /\ UNCHANGED <<boot, count, polls, statusFetchInFlight, user, page, clicks, chain, posts>>

\* The board has the whole request and runs handle_gcode_post.
Run ==
    /\ sending = "post"
    /\ ~ran
    /\ ran' = TRUE
    /\ executed' = Append(executed, Head(chain))
    /\ UNCHANGED <<boot, count, polls, statusFetchInFlight, user, page, clicks, chain, sending,
                   late, abandoned>>

\* It gets the rest of a request that the page has given up: api() aborts in the browser, and
\* what is queued on the connection is sent again until it arrives, or is lost.
RunLate(c) ==
    /\ c \in late
    /\ late' = late \ {c}
    /\ executed' = Append(executed, c)
    /\ UNCHANGED <<boot, count, polls, statusFetchInFlight, user, page, clicks, chain, sending,
                   ran, abandoned>>

Answered ==
    /\ sending = "post"
    /\ ran
    /\ sending' = "refresh"
    /\ chain' = Tail(chain)
    /\ UNCHANGED <<boot, count, polls, statusFetchInFlight, user, page, clicks, ran, posts>>

\* Mutant: after a failure the chain waits for a refresh nobody makes.
AfterFailureWedged == "await"

AfterFailure == "idle"

\* Mutant: a failed POST is tried again.
TryAgain == chain

GiveUp == Tail(chain)

\* The POST has got no answer in 3 s, or an error; whether or not the board ran it or is going
\* to, it is not sent again.
PostFails ==
    /\ sending = "post"
    /\ sending' = AfterFailure
    /\ chain' = GiveUp
    /\ LET unrun == IF ran THEN {} ELSE {Head(chain)}
       IN  late' = late \cup unrun /\ abandoned' = abandoned \cup unrun
    /\ UNCHANGED <<boot, count, polls, statusFetchInFlight, user, page, clicks, ran, executed>>

\* The chain's own refreshStatus: it returns at once when a poll is under way.
ChainPoll ==
    /\ sending = "refresh"
    /\ IF MayPoll
       THEN (\E p \in Polls : Fetch(p, "chain")) /\ sending' = "await"
       ELSE UNCHANGED <<polls, statusFetchInFlight>> /\ sending' = "idle"
    /\ UNCHANGED <<boot, count, user, page, clicks, chain, ran, posts>>
-------------------------------------------------------------------------------
Polling == \E p \in Polls :
    TimerPoll(p) \/ Serve(p) \/ PollFails(p) \/ PollMerged(p) \/ PollNotMerged(p)
Sending ==
    \/ Click \/ Post \/ Run \/ Answered \/ PostFails \/ ChainPoll
    \/ \E c \in 1 .. MaxClicks : RunLate(c)

Next == Log \/ Reboot \/ Select \/ Deselect \/ Polling \/ Sending

\* The timer ticks on; the user lets go of a selection; of ever more requests some reach the
\* board, and some of their answers the page, with nothing selected; a request is answered or
\* given up (a stalled body when the browser finds the connection dead: the abort of api()
\* covers the headers only).
Fairness ==
    /\ \A p \in Polls : WF_vars(TimerPoll(p))
    /\ SF_vars(\E p \in Polls : Serve(p)) /\ SF_vars(\E p \in Polls : PollMerged(p))
    /\ WF_vars(\E p \in Polls : PollFails(p) \/ PollMerged(p) \/ PollNotMerged(p))
    /\ WF_vars(Deselect)
    /\ WF_vars(Post) /\ WF_vars(Answered \/ PostFails) /\ WF_vars(ChainPoll)

Spec == Init /\ [][Next]_vars /\ Fairness
-------------------------------------------------------------------------------
\* The scrollback is started over because the board rebooted, and for nothing else: answers
\* do not overtake each other (statusFetchInFlight, index.html:364-371).
RestartsAreReboots == restarts < boot

\* What the page shows of a boot is in order and no line of it twice, whatever was lost, late or
\* evicted; lines of two boots, which it shows where it did not notice the reboot between, are
\* not mixed.  The scrollback, of the type it should be, never outgrows its limit.
ShownInOrder ==
    /\ TypeOK
    /\ \A i, j \in DOMAIN filteredBuffer : i < j =>
          LET a == filteredBuffer[i]
              b == filteredBuffer[j]
          IN  a.boot < b.boot \/ (a.boot = b.boot /\ a.seq < b.seq)

\* After a burst larger than the window the page goes on with the newest lines: none of the
\* merged window is missing in the scrollback, whatever had to go from it, before a reboot and
\* after one that was noticed.
NewestAreShown ==
    [][\A p \in Polls : PollMerged(p) /\ restarts' = polls[p].boot - 1
           => \A s \in Window(p) : \E i \in DOMAIN filteredBuffer' :
                  filteredBuffer'[i] = [boot |-> polls[p].boot, seq |-> s]]_vars

\* A logged line is shown in the end, or skipped for newer ones; no failed poll, lost answer,
\* selection or reboot stops the page for good.
LogIsShown == \A n \in 1 .. MaxLines :
    boot = MaxBoots /\ count = n ~> merged = MaxBoots /\ filteredLastSeq >= n

\* No command reaches the board twice, and none before one that was clicked earlier, but where
\* the page gave that one up before it was run: the chain waits for an answer no longer than
\* api() does (index.html:272-282, 661-679).
CommandsInOrder ==
    \A i, j \in DOMAIN executed : i < j =>
        /\ executed[i] # executed[j]
        /\ executed[i] < executed[j] \/ executed[j] \in abandoned

\* Every click is sent: a failure does not wedge the chain.
ChainDrains == \A c \in 1 .. MaxClicks :
    clicks = c ~> \A i \in DOMAIN chain : chain[i] > c
===============================================================================
