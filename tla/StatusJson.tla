----------------------------- MODULE StatusJson -----------------------------
(***************************************************************************)
(* How handle_status fills the answer buffer: japp and json_escape_append  *)
(* advance pos through a buffer of cap bytes, text by text.  A text is its *)
(* length; of a line only the characters count that are copied, and those  *)
(* of them, '"' and '\', that take two bytes.                              *)
(***************************************************************************)
EXTENDS Naturals

CONSTANTS cap,                      \* RESP_BUF_SIZE
          STATUS_CONSOLE_LINES, STATUS_FILTERED_LINES,
          LINE,                     \* CONSOLE_LOG_LINE_LEN - 1
          ALARM,                    \* GRBL_ALARM_LEN - 1
          Head, Rest,               \* lengths of the texts before and after the alarm
          Digits,                   \* lengths of the sequence numbers
          Doubled                   \* counts of characters of a line that take two bytes

ASSUME JsonAssumption ==
    /\ cap \in Nat \ {0} /\ Head \cup Rest \cup Digits \subseteq Nat
    /\ {STATUS_CONSOLE_LINES, STATUS_FILTERED_LINES, LINE, ALARM} \subseteq Nat
    /\ Doubled \subseteq 0 .. LINE

\* A line takes its quotes and a comma besides its characters, an alarm its quotes or "null".
AlarmAtMost == IF ALARM + 2 > 4 THEN ALARM + 2 ELSE 4
LinesAtMost(k) == k * (LINE + 3)

\* The buffer was dimensioned for the longest answer without an escaped character.
ASSUME FitAssumption ==
    \A h \in Head, r \in Rest, k \in Digits \cup {0} :
        h + AlarmAtMost + r + LinesAtMost(STATUS_CONSOLE_LINES) + 22
          + LinesAtMost(STATUS_FILTERED_LINES) + 26 + STATUS_FILTERED_LINES * (k + 1) + 2 < cap

VARIABLES pos,
          at,           \* "head", "alarm", "rest", "console", "filtered", "seq", "done"
          n,            \* lines put so far into the array at hand
          n_filtered,   \* and into console_filtered
          body_len,
          top,          \* history: the end of what was ever put into the buffer
          want,         \* history: the length of the answer in a buffer without end
          doubled       \* history: characters in it that take two bytes

vars == <<pos, at, n, n_filtered, body_len, top, want, doubled>>

Parts == {"head", "alarm", "rest", "console", "filtered", "seq", "done"}

TypeOK ==
    /\ {pos, top, want, doubled} \subseteq Nat /\ at \in Parts
    /\ n \in 0 .. STATUS_CONSOLE_LINES + STATUS_FILTERED_LINES
    /\ n_filtered \in 0 .. STATUS_FILTERED_LINES
    /\ body_len \in 0 .. (cap - 1)

Init ==
    /\ pos = 0 /\ top = 0 /\ want = 0 /\ doubled = 0
    /\ at = "head" /\ n = 0 /\ n_filtered = 0 /\ body_len = 0
-------------------------------------------------------------------------------
Least(a, b) == IF a < b THEN a ELSE b

\* A text of k bytes is put at p; what does not fit is cut off.
Japp(p, k) == Least(p + k, cap)

\* Mutant: only that there is room for the byte to come is looked at.
RoomForOne(p, width) == IF p < cap THEN (cap - 1 - p) \div width + 1 ELSE 0

\* How many characters of that width are put from p on while pos + 2 < out_cap.
Room(p, width) == IF p + 2 < cap THEN (cap - 3 - p) \div width + 1 ELSE 0

Escaped(p, k, width) == p + width * Least(k, Room(p, width))

\* A line of plain and of doubled characters, after its opening quote.
Filled(plain, wide, quote) == Escaped(Escaped(Japp(pos, quote), plain, 1), wide, 2)

Most(a, b) == IF a > b THEN a ELSE b

\* The opening quote, after a comma unless it is the first line.
Quote == IF n = 0 THEN 1 ELSE 2

Puts(k) ==
    /\ pos' = Japp(pos, k)
    /\ want' = want + k
    /\ top' = Most(top, pos')
    /\ UNCHANGED doubled

\* A line of k characters, of which d are doubled.
PutsLine(k, d, quote) ==
    /\ pos' = Japp(Filled(k - d, d, quote), 1)
    /\ top' = Most(top, Filled(k - d, d, quote))
    /\ want' = want + quote + k + d + 1
    /\ doubled' = doubled + d
-------------------------------------------------------------------------------
PutHead ==
    /\ at = "head" /\ at' = "alarm"
    /\ \E k \in Head : Puts(k)
    /\ UNCHANGED <<n, n_filtered, body_len>>

\* null, or the alarm's text
PutAlarm ==
    /\ at = "alarm" /\ at' = "rest"
    /\ Puts(4) \/ \E d \in {0} \cup (Doubled \cap {ALARM}) : PutsLine(ALARM, d, 1)
    /\ UNCHANGED <<n, n_filtered, body_len>>

PutRest ==
    /\ at = "rest" /\ at' = "console"
    /\ \E k \in Rest : Puts(k)
    /\ UNCHANGED <<n, n_filtered, body_len>>

\* A line of either log, as long as a line can be.
PutLine(where, limit) ==
    /\ at = where /\ n < limit
    /\ \E d \in Doubled : PutsLine(LINE, d, Quote)
    /\ n' = n + 1
    /\ UNCHANGED <<at, n_filtered, body_len>>

\* ],"console_filtered":[
EndConsole ==
    /\ at = "console" /\ at' = "filtered"
    /\ Puts(22)
    /\ n' = 0
    /\ UNCHANGED <<n_filtered, body_len>>

\* ],"console_filtered_seq":[
EndFiltered ==
    /\ at = "filtered" /\ at' = "seq"
    /\ Puts(26)
    /\ n_filtered' = n /\ n' = 0
    /\ UNCHANGED <<body_len>>

\* The numbers of the lines, with commas between them.
PutSeq ==
    /\ at = "seq" /\ n < n_filtered
    /\ \E k \in Digits : Puts(n_filtered * (k + 1) - 1)
    /\ n' = n_filtered
    /\ UNCHANGED <<at, n_filtered, body_len>>

\* Mutant: the length is held below that of a buffer of 4 KB.
BodyLenBefore(p) == Least(p, 4095)

BodyLen(p) == IF p < cap THEN p ELSE cap - 1

Finish ==
    /\ at = "seq" /\ n = n_filtered /\ at' = "done"
    /\ Puts(2)
    /\ body_len' = BodyLen(pos')
    /\ UNCHANGED <<n, n_filtered>>

Next ==
    \/ PutHead \/ PutAlarm \/ PutRest
    \/ PutLine("console", STATUS_CONSOLE_LINES) \/ EndConsole
    \/ PutLine("filtered", STATUS_FILTERED_LINES) \/ EndFiltered
    \/ PutSeq \/ Finish

Spec == Init /\ [][Next]_vars
-------------------------------------------------------------------------------
\* Whatever the texts are, nothing is put past the end of the buffer and cap - pos does not
\* turn negative (api_handlers.c:23-31).
InBuffer == top <= cap

\* An answer that fits is sent whole, and every answer does in which no character is escaped:
\* "the resulting JSON still fits RESP_BUF_SIZE (http_server.c) with room to spare"
\* (api_handlers.c:19-20, http_server.c:15-19).
WholeIsSent == at = "done" /\ (want < cap \/ doubled = 0) => body_len = want
===============================================================================
