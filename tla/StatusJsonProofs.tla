--------------------------- MODULE StatusJsonProofs ---------------------------
(* Theorems about StatusJson, for every size of the buffer and of the texts. *)
EXTENDS StatusJson, TLAPS

-------------------------------------------------------------------------------
(* The two ways of putting a text, from a place in the buffer. *)

\* A text put with japp ends in the buffer; one that fits is put whole.
LEMMA JappEnds ==
  ASSUME NEW p \in 0 .. cap, NEW k \in Nat
  PROVE  /\ Japp(p, k) \in 0 .. cap
         /\ p + k < cap => Japp(p, k) = p + k
  BY JsonAssumption DEF Japp, Least

\* Escaping leaves a byte for the NUL; characters that leave room for the closing quote and
\* the NUL are all put.
LEMMA EscapedPlain ==
  ASSUME NEW p \in 0 .. cap, NEW k \in Nat
  PROVE  /\ Escaped(p, k, 1) \in 0 .. cap
         /\ p + k + 1 < cap => Escaped(p, k, 1) = p + k
<1>1. CASE p + 2 < cap
  <2>1. Room(p, 1) = cap - 2 - p /\ Room(p, 1) \in Nat
    BY <1>1, JsonAssumption DEF Room
  <2> QED
    BY <2>1, JsonAssumption DEF Escaped, Least
<1>2. CASE ~(p + 2 < cap)
  <2>1. Room(p, 1) = 0
    BY <1>2 DEF Room
  <2> QED
    BY <1>2, <2>1, JsonAssumption DEF Escaped, Least
<1> QED
  BY <1>1, <1>2

\* The same of characters that take two bytes.
LEMMA EscapedWide ==
  ASSUME NEW p \in 0 .. cap, NEW k \in Nat
  PROVE  /\ Escaped(p, k, 2) \in 0 .. cap
         /\ p + 2 * k + 1 < cap => Escaped(p, k, 2) = p + 2 * k
<1>1. CASE p + 2 < cap
  <2> DEFINE half == (cap - 3 - p) \div 2
  <2>1. half \in Nat /\ 2 * half <= cap - 3 - p /\ cap - 3 - p < 2 * half + 2
    BY <1>1, JsonAssumption
  <2>2. Room(p, 2) = half + 1
    BY <1>1 DEF Room
  <2> HIDE DEF half
  <2> QED
    BY <2>1, <2>2, JsonAssumption DEF Escaped, Least
<1>2. CASE ~(p + 2 < cap)
  <2>1. Room(p, 2) = 0
    BY <1>2 DEF Room
  <2> QED
    BY <1>2, <2>1, JsonAssumption DEF Escaped, Least
<1> QED
  BY <1>1, <1>2

\* A line of plain and of doubled characters.
LEMMA FilledEnds ==
  ASSUME pos \in 0 .. cap, NEW plain \in Nat, NEW wide \in Nat, NEW quote \in Nat
  PROVE  /\ Filled(plain, wide, quote) \in 0 .. cap
         /\ pos + quote + plain + 2 * wide + 1 < cap
               => Filled(plain, wide, quote) = pos + quote + plain + 2 * wide
<1> DEFINE a == Japp(pos, quote)
           b == Escaped(a, plain, 1)
<1>1. a \in 0 .. cap /\ (pos + quote < cap => a = pos + quote)
  BY JappEnds
<1>2. b \in 0 .. cap /\ (a + plain + 1 < cap => b = a + plain)
  BY <1>1, EscapedPlain
<1>3. /\ Escaped(b, wide, 2) \in 0 .. cap
      /\ b + 2 * wide + 1 < cap => Escaped(b, wide, 2) = b + 2 * wide
  BY <1>2, EscapedWide
<1>4. Filled(plain, wide, quote) = Escaped(b, wide, 2)
  BY DEF Filled
<1> HIDE DEF a, b
<1> QED
  BY <1>1, <1>2, <1>3, <1>4, JsonAssumption

-------------------------------------------------------------------------------
\* Where the answer stands: within the buffer, and at the end of all that was wanted as long
\* as that fits.
Fill ==
    /\ pos \in 0 .. cap /\ top \in 0 .. cap
    /\ want \in Nat /\ doubled \in Nat
    /\ want < cap => pos = want

\* What is counted on the way.
Counts ==
    /\ at \in Parts
    /\ n \in 0 .. STATUS_CONSOLE_LINES + STATUS_FILTERED_LINES
    /\ at = "filtered" => n <= STATUS_FILTERED_LINES
    /\ n_filtered \in 0 .. STATUS_FILTERED_LINES
    /\ body_len \in 0 .. (cap - 1)
    /\ at = "done" /\ want < cap => body_len = want

\* The inductive invariant.
JsonInv == Fill /\ Counts

LEMMA JsonInvInit ==
  ASSUME Init
  PROVE  JsonInv
  BY JsonAssumption DEF Init, JsonInv, Fill, Counts, Parts

LEMMA PutsFills ==
  ASSUME Fill, NEW k \in Nat, Puts(k)
  PROVE  Fill'
<1>1. pos' = Japp(pos, k) /\ want' = want + k /\ top' = Most(top, pos') /\ doubled' = doubled
  BY DEF Puts
<1>2. Japp(pos, k) \in 0 .. cap /\ (pos + k < cap => Japp(pos, k) = pos + k)
  BY JappEnds DEF Fill
<1>3. pos' \in 0 .. cap /\ top' \in 0 .. cap
  BY <1>1, <1>2 DEF Fill, Most
<1>4. want' \in Nat /\ doubled' \in Nat
  BY <1>1 DEF Fill
<1>5. want' < cap => pos' = want'
  BY <1>1, <1>2, JsonAssumption DEF Fill
<1> QED
  BY <1>3, <1>4, <1>5 DEF Fill

LEMMA PutsLineFills ==
  ASSUME Fill, NEW k \in Nat, NEW d \in 0 .. k, NEW quote \in Nat, PutsLine(k, d, quote)
  PROVE  Fill'
<1> DEFINE end == Filled(k - d, d, quote)
<1>1. /\ pos' = Japp(end, 1) /\ top' = Most(top, end)
      /\ want' = want + quote + k + d + 1 /\ doubled' = doubled + d
  BY DEF PutsLine
<1>2. k - d \in Nat /\ d \in Nat
  OBVIOUS
<1>3. /\ end \in 0 .. cap
      /\ pos + quote + (k - d) + 2 * d + 1 < cap => end = pos + quote + (k - d) + 2 * d
  BY <1>2, FilledEnds DEF Fill
<1> HIDE DEF end
<1>4. Japp(end, 1) \in 0 .. cap /\ (end + 1 < cap => Japp(end, 1) = end + 1)
  BY <1>3, JappEnds
<1>5. pos' \in 0 .. cap /\ top' \in 0 .. cap
  BY <1>1, <1>3, <1>4 DEF Fill, Most
<1>6. want' \in Nat /\ doubled' \in Nat
  BY <1>1, <1>2 DEF Fill
<1>7. want' < cap => pos' = want'
  BY <1>1, <1>2, <1>3, <1>4, JsonAssumption DEF Fill
<1> QED
  BY <1>5, <1>6, <1>7 DEF Fill

-------------------------------------------------------------------------------
(* Each step of handle_status. *)

\* The steps before the last leave the length of the answer alone.
LEMMA PartsKeep ==
  ASSUME JsonInv, PutHead \/ PutAlarm \/ PutRest
  PROVE  JsonInv'
<1>1. CASE PutHead
  <2>1. PICK k \in Head : Puts(k)
    BY <1>1 DEF PutHead
  <2>2. Fill'
    BY <2>1, PutsFills, JsonAssumption DEF JsonInv
  <2> QED
    BY <1>1, <2>2 DEF PutHead, JsonInv, Counts, Parts
<1>2. CASE PutAlarm
  <2>1. Fill'
    <3>1. CASE Puts(4)
      BY <3>1, PutsFills DEF JsonInv
    <3>2. CASE \E d \in {0} \cup (Doubled \cap {ALARM}) : PutsLine(ALARM, d, 1)
      <4>1. PICK d \in {0} \cup (Doubled \cap {ALARM}) : PutsLine(ALARM, d, 1)
        BY <3>2
      <4>2. ALARM \in Nat /\ d \in 0 .. ALARM
        BY JsonAssumption
      <4> QED
        BY <4>1, <4>2, PutsLineFills DEF JsonInv
    <3> QED
      BY <1>2, <3>1, <3>2 DEF PutAlarm
  <2> QED
    BY <1>2, <2>1 DEF PutAlarm, JsonInv, Counts, Parts
<1>3. CASE PutRest
  <2>1. PICK k \in Rest : Puts(k)
    BY <1>3 DEF PutRest
  <2>2. Fill'
    BY <2>1, PutsFills, JsonAssumption DEF JsonInv
  <2> QED
    BY <1>3, <2>2 DEF PutRest, JsonInv, Counts, Parts
<1> QED
  BY <1>1, <1>2, <1>3

LEMMA PutLineKeeps ==
  ASSUME JsonInv, NEW where \in {"console", "filtered"}, NEW limit \in Nat,
         PutLine(where, limit),
         where = "filtered" => limit = STATUS_FILTERED_LINES,
         where = "console" => limit = STATUS_CONSOLE_LINES
  PROVE  JsonInv'
<1>1. PICK d \in Doubled : PutsLine(LINE, d, Quote)
  BY DEF PutLine
<1>2. LINE \in Nat /\ d \in 0 .. LINE /\ Quote \in Nat
  BY JsonAssumption DEF Quote
<1>3. Fill'
  BY <1>1, <1>2, PutsLineFills DEF JsonInv
<1>4. /\ at = where /\ at' = at /\ n < limit /\ n' = n + 1
      /\ n_filtered' = n_filtered /\ body_len' = body_len
  BY DEF PutLine
<1>5. n' \in 0 .. STATUS_CONSOLE_LINES + STATUS_FILTERED_LINES
  BY <1>4, JsonAssumption DEF JsonInv, Counts
<1>6. at' = "filtered" => n' <= STATUS_FILTERED_LINES
  BY <1>4, JsonAssumption DEF JsonInv, Counts
<1> QED
  BY <1>3, <1>4, <1>5, <1>6 DEF JsonInv, Counts, Parts

LEMMA EndConsoleKeeps ==
  ASSUME JsonInv, EndConsole
  PROVE  JsonInv'
<1>1. Fill'
  BY PutsFills DEF EndConsole, JsonInv
<1> QED
  BY <1>1, JsonAssumption DEF EndConsole, JsonInv, Counts, Parts

LEMMA EndFilteredKeeps ==
  ASSUME JsonInv, EndFiltered
  PROVE  JsonInv'
<1>1. Fill'
  BY PutsFills DEF EndFiltered, JsonInv
<1> QED
  BY <1>1, JsonAssumption DEF EndFiltered, JsonInv, Counts, Parts

LEMMA PutSeqKeeps ==
  ASSUME JsonInv, PutSeq
  PROVE  JsonInv'
<1>1. PICK k \in Digits : Puts(n_filtered * (k + 1) - 1)
  BY DEF PutSeq
<1>2. k \in Nat /\ n_filtered \in Nat /\ n_filtered > 0
  BY JsonAssumption DEF PutSeq, JsonInv, Counts
<1>3. n_filtered * (k + 1) - 1 \in Nat
  <2>1. n_filtered * k \in Nat
    BY <1>2
  <2>2. n_filtered * (k + 1) = n_filtered * k + n_filtered
    BY <1>2
  <2> QED
    BY <1>2, <2>1, <2>2
<1>4. Fill'
  BY <1>1, <1>3, PutsFills DEF JsonInv
<1> QED
  BY <1>4, JsonAssumption DEF PutSeq, JsonInv, Counts, Parts

LEMMA FinishKeeps ==
  ASSUME JsonInv, Finish
  PROVE  JsonInv'
<1>1. Fill'
  BY PutsFills DEF Finish, JsonInv
<1>2. /\ body_len' = BodyLen(pos') /\ at' = "done" /\ n' = n /\ n_filtered' = n_filtered
  BY DEF Finish
<1>3. body_len' \in 0 .. (cap - 1) /\ (want' < cap => body_len' = want')
  BY <1>1, <1>2, JsonAssumption DEF Fill, BodyLen
<1> QED
  BY <1>1, <1>2, <1>3 DEF JsonInv, Counts, Parts

LEMMA JsonInvStep ==
  ASSUME JsonInv, [Next]_vars
  PROVE  JsonInv'
<1>1. CASE PutLine("console", STATUS_CONSOLE_LINES)
  BY <1>1, PutLineKeeps, JsonAssumption
<1>2. CASE PutLine("filtered", STATUS_FILTERED_LINES)
  BY <1>2, PutLineKeeps, JsonAssumption
<1>3. CASE UNCHANGED vars
  BY <1>3 DEF vars, JsonInv, Fill, Counts
<1> QED
  BY <1>1, <1>2, <1>3, PartsKeep, EndConsoleKeeps, EndFilteredKeeps, PutSeqKeeps, FinishKeeps
     DEF Next

LEMMA JsonInvHolds == Spec => []JsonInv
  BY JsonInvInit, JsonInvStep, PTL DEF Spec

-------------------------------------------------------------------------------
\* The buffer of an answer is never overrun, whatever its size, the number of lines, their
\* lengths and the characters in them.
THEOREM NeverOverruns == Spec => []InBuffer
<1>1. JsonInv => InBuffer
  BY JsonAssumption DEF JsonInv, Fill, InBuffer
<1> QED
  BY <1>1, JsonInvHolds, PTL

\* The places and counts of handle_status keep their types.
THEOREM JsonTypeCorrect == Spec => []TypeOK
<1>1. JsonInv => TypeOK
  BY JsonAssumption DEF JsonInv, Fill, Counts, TypeOK
<1> QED
  BY <1>1, JsonInvHolds, PTL

-------------------------------------------------------------------------------
(* The longest an answer can be of which no character is escaped. *)

\* How long an answer is at most at each place, given what was put at first.
UpToRest(h, r) == h + AlarmAtMost + r
UpToConsole(h, r) == UpToRest(h, r) + LinesAtMost(STATUS_CONSOLE_LINES) + 22
UpToFiltered(h, r) == UpToConsole(h, r) + LinesAtMost(STATUS_FILTERED_LINES) + 26

\* How long it is at each place.
Within ==
    /\ at = "head" => want = 0
    /\ at = "alarm" => \E h \in Head : want <= h
    /\ at = "rest" => \E h \in Head : want <= h + AlarmAtMost
    /\ at = "console" => \E h \in Head, r \in Rest : want <= UpToRest(h, r) + LinesAtMost(n)
    /\ at = "filtered" => \E h \in Head, r \in Rest : want <= UpToConsole(h, r) + LinesAtMost(n)
    /\ at = "seq" => \E h \in Head, r \in Rest, k \in Digits \cup {0} :
          want <= UpToFiltered(h, r) + IF n = 0 THEN 0 ELSE STATUS_FILTERED_LINES * (k + 1)
    /\ at = "done" => want < cap

\* The inductive invariant of answers in which nothing is doubled.
PlainInv ==
    /\ JsonInv
    /\ at \in {"head", "alarm", "rest"} => n = 0
    /\ at = "console" => n <= STATUS_CONSOLE_LINES
    /\ at = "seq" => n \in {0, n_filtered}
    /\ doubled = 0 => Within

\* Lines, one more and at most.
LEMMA LinesAdd ==
  ASSUME NEW k \in Nat, NEW m \in Nat
  PROVE  /\ LinesAtMost(k) \in Nat /\ LinesAtMost(0) = 0
         /\ LinesAtMost(k + 1) = LinesAtMost(k) + LINE + 3
         /\ k <= m => LinesAtMost(k) <= LinesAtMost(m)
<1> DEFINE l == LINE + 3
<1>1. l \in Nat /\ LINE \in Nat
  BY JsonAssumption
<1>2. LinesAtMost(k) = k * l /\ LinesAtMost(m) = m * l /\ LinesAtMost(k + 1) = (k + 1) * l
      /\ LinesAtMost(0) = 0 * l
  BY DEF LinesAtMost
<1>3. l = LINE + 3
  OBVIOUS
<1> HIDE DEF l
<1>4. k * l \in Nat /\ (k + 1) * l = k * l + l /\ 0 * l = 0
  BY <1>1
<1>5. k <= m => k * l <= m * l
  BY <1>1
<1> QED
  BY <1>1, <1>2, <1>3, <1>4, <1>5

LEMMA UpToTypes ==
  ASSUME NEW h \in Head, NEW r \in Rest
  PROVE  /\ h \in Nat /\ r \in Nat /\ AlarmAtMost \in Nat
         /\ AlarmAtMost >= 4 /\ AlarmAtMost >= ALARM + 2
         /\ UpToRest(h, r) \in Nat /\ UpToConsole(h, r) \in Nat /\ UpToFiltered(h, r) \in Nat
<1>1. STATUS_CONSOLE_LINES \in Nat /\ STATUS_FILTERED_LINES \in Nat /\ ALARM \in Nat
      /\ h \in Nat /\ r \in Nat
  BY JsonAssumption
<1>2. AlarmAtMost \in Nat /\ AlarmAtMost >= 4 /\ AlarmAtMost >= ALARM + 2
  BY <1>1 DEF AlarmAtMost
<1>3. LinesAtMost(STATUS_CONSOLE_LINES) \in Nat /\ LinesAtMost(STATUS_FILTERED_LINES) \in Nat
  BY <1>1, LinesAdd
<1> QED
  BY <1>1, <1>2, <1>3 DEF UpToRest, UpToConsole, UpToFiltered

\* What a step that puts a line adds, if none of its characters is doubled.
LEMMA PlainLine ==
  ASSUME JsonInv, NEW k \in Nat, NEW d \in 0 .. k, NEW quote \in Nat, PutsLine(k, d, quote),
         doubled' = 0
  PROVE  doubled = 0 /\ want' = want + quote + k + 1
<1>1. doubled \in Nat /\ want \in Nat /\ doubled' = doubled + d
      /\ want' = want + quote + k + d + 1
  BY DEF JsonInv, Fill, PutsLine
<1>2. doubled = 0 /\ d = 0
  BY <1>1
<1> QED
  BY <1>1, <1>2

LEMMA PlainParts ==
  ASSUME PlainInv, PutHead \/ PutAlarm \/ PutRest, doubled' = 0
  PROVE  Within'
<1>1. JsonInv /\ want \in Nat
  BY DEF PlainInv, JsonInv, Fill
<1>2. CASE PutHead
  <2>1. PICK k \in Head : Puts(k)
    BY <1>2 DEF PutHead
  <2>2. want = 0 /\ want' = want + k /\ at' = "alarm"
    BY <1>2, <2>1 DEF PutHead, Puts, PlainInv, Within
  <2>3. want' <= k
    BY <2>2, JsonAssumption
  <2> QED
    BY <2>2, <2>3 DEF Within
<1>3. CASE PutAlarm
  <2>1. at = "alarm" /\ at' = "rest"
    BY <1>3 DEF PutAlarm
  <2>2. doubled = 0 /\ (want' = want + 4 \/ want' = want + ALARM + 2)
    <3>1. CASE Puts(4)
      BY <3>1 DEF Puts
    <3>2. CASE \E d \in {0} \cup (Doubled \cap {ALARM}) : PutsLine(ALARM, d, 1)
      <4>1. PICK d \in {0} \cup (Doubled \cap {ALARM}) : PutsLine(ALARM, d, 1)
        BY <3>2
      <4>2. ALARM \in Nat /\ d \in 0 .. ALARM
        BY JsonAssumption
      <4>3. doubled = 0 /\ want' = want + 1 + ALARM + 1
        BY <1>1, <4>1, <4>2, PlainLine
      <4> QED
        BY <1>1, <4>2, <4>3
    <3> QED
      BY <1>3, <3>1, <3>2 DEF PutAlarm
  <2>3. PICK h \in Head : want <= h
    BY <2>1, <2>2 DEF PlainInv, Within
  <2>4. ALARM \in Nat /\ h \in Nat /\ AlarmAtMost \in Nat /\ AlarmAtMost >= 4
        /\ AlarmAtMost >= ALARM + 2
    BY JsonAssumption DEF AlarmAtMost
  <2>5. want' <= h + AlarmAtMost
    BY <1>1, <2>2, <2>3, <2>4
  <2> QED
    BY <2>1, <2>5 DEF Within
<1>4. CASE PutRest
  <2>1. PICK r \in Rest : Puts(r)
    BY <1>4 DEF PutRest
  <2>2. at = "rest" /\ at' = "console" /\ doubled = 0 /\ want' = want + r /\ n' = n
    BY <1>4, <2>1 DEF PutRest, Puts
  <2>3. PICK h \in Head : want <= h + AlarmAtMost
    BY <2>2 DEF PlainInv, Within
  <2>4. n \in Nat /\ LinesAtMost(n) \in Nat
    <3>1. n \in Nat
      BY <1>1, JsonAssumption DEF JsonInv, Counts
    <3> QED
      BY <3>1, LinesAdd
  <2>5. want' <= UpToRest(h, r) + LinesAtMost(n)
    BY <1>1, <2>2, <2>3, <2>4, UpToTypes DEF UpToRest
  <2> QED
    BY <2>2, <2>5 DEF Within
<1> QED
  BY <1>2, <1>3, <1>4

LEMMA PlainLines ==
  ASSUME PlainInv, NEW where \in {"console", "filtered"}, NEW limit \in Nat,
         PutLine(where, limit), doubled' = 0
  PROVE  Within'
<1>1. JsonInv /\ want \in Nat /\ n \in Nat
  BY JsonAssumption DEF PlainInv, JsonInv, Fill, Counts
<1>2. PICK d \in Doubled : PutsLine(LINE, d, Quote)
  BY DEF PutLine
<1>3. LINE \in Nat /\ d \in 0 .. LINE /\ Quote \in Nat /\ Quote <= 2
  BY JsonAssumption DEF Quote
<1>4. doubled = 0 /\ want' = want + Quote + LINE + 1
  BY <1>1, <1>2, <1>3, PlainLine
<1>5. at = where /\ at' = where /\ n' = n + 1
  BY DEF PutLine
<1>6. want' <= want + LINE + 3
  BY <1>1, <1>3, <1>4
<1>7. LinesAtMost(n') = LinesAtMost(n) + LINE + 3 /\ LinesAtMost(n) \in Nat
      /\ LinesAtMost(n') \in Nat /\ want' \in Nat
  BY <1>1, <1>3, <1>4, <1>5, LinesAdd
<1>8. CASE where = "console"
  <2>1. PICK h \in Head, r \in Rest : want <= UpToRest(h, r) + LinesAtMost(n)
    BY <1>4, <1>5, <1>8 DEF PlainInv, Within
  <2>2. want' <= UpToRest(h, r) + LinesAtMost(n')
    BY <1>1, <1>3, <1>6, <1>7, <2>1, UpToTypes
  <2> QED
    BY <1>5, <1>8, <2>2 DEF Within
<1>9. CASE where = "filtered"
  <2>1. PICK h \in Head, r \in Rest : want <= UpToConsole(h, r) + LinesAtMost(n)
    BY <1>4, <1>5, <1>9 DEF PlainInv, Within
  <2>2. want' <= UpToConsole(h, r) + LinesAtMost(n')
    BY <1>1, <1>3, <1>6, <1>7, <2>1, UpToTypes
  <2> QED
    BY <1>5, <1>9, <2>2 DEF Within
<1> QED
  BY <1>8, <1>9

LEMMA PlainEnds ==
  ASSUME PlainInv, EndConsole \/ EndFiltered, doubled' = 0
  PROVE  Within'
<1>1. JsonInv /\ want \in Nat /\ n \in Nat /\ doubled = 0
      /\ STATUS_CONSOLE_LINES \in Nat /\ STATUS_FILTERED_LINES \in Nat
  BY JsonAssumption DEF PlainInv, JsonInv, Fill, Counts, EndConsole, EndFiltered, Puts
<1>2. CASE EndConsole
  <2>1. at = "console" /\ at' = "filtered" /\ want' = want + 22 /\ n' = 0
    BY <1>2 DEF EndConsole, Puts
  <2>2. n <= STATUS_CONSOLE_LINES
    BY <2>1 DEF PlainInv
  <2>3. PICK h \in Head, r \in Rest : want <= UpToRest(h, r) + LinesAtMost(n)
    BY <1>1, <2>1 DEF PlainInv, Within
  <2>4. /\ LinesAtMost(n) <= LinesAtMost(STATUS_CONSOLE_LINES) /\ LinesAtMost(0) = 0
        /\ LinesAtMost(n) \in Nat /\ LinesAtMost(STATUS_CONSOLE_LINES) \in Nat
    BY <1>1, <2>2, LinesAdd
  <2>5. want' <= UpToConsole(h, r) + LinesAtMost(0)
    BY <1>1, <2>1, <2>3, <2>4, UpToTypes DEF UpToConsole
  <2> QED
    BY <2>1, <2>5 DEF Within
<1>3. CASE EndFiltered
  <2>1. at = "filtered" /\ at' = "seq" /\ want' = want + 26 /\ n' = 0
    BY <1>3 DEF EndFiltered, Puts
  <2>2. n <= STATUS_FILTERED_LINES
    BY <2>1 DEF PlainInv, JsonInv, Counts
  <2>3. PICK h \in Head, r \in Rest : want <= UpToConsole(h, r) + LinesAtMost(n)
    BY <1>1, <2>1 DEF PlainInv, Within
  <2>4. /\ LinesAtMost(n) <= LinesAtMost(STATUS_FILTERED_LINES)
        /\ LinesAtMost(n) \in Nat /\ LinesAtMost(STATUS_FILTERED_LINES) \in Nat
    BY <1>1, <2>2, LinesAdd
  <2>5. want' <= UpToFiltered(h, r) + 0
    BY <1>1, <2>1, <2>3, <2>4, UpToTypes DEF UpToFiltered
  <2>6. want' <= UpToFiltered(h, r) + IF n' = 0 THEN 0 ELSE STATUS_FILTERED_LINES * (0 + 1)
    BY <2>1, <2>5
  <2> QED
    BY <2>1, <2>6 DEF Within
<1> QED
  BY <1>2, <1>3

LEMMA PlainSeq ==
  ASSUME PlainInv, PutSeq, doubled' = 0
  PROVE  Within'
<1>1. JsonInv /\ want \in Nat /\ n \in Nat /\ n_filtered \in Nat /\ doubled = 0
      /\ STATUS_FILTERED_LINES \in Nat /\ n_filtered <= STATUS_FILTERED_LINES
  BY JsonAssumption DEF PlainInv, JsonInv, Fill, Counts, PutSeq, Puts
<1>2. PICK k \in Digits : Puts(n_filtered * (k + 1) - 1)
  BY DEF PutSeq
<1>3. /\ at = "seq" /\ at' = "seq" /\ n < n_filtered /\ n' = n_filtered
      /\ want' = want + (n_filtered * (k + 1) - 1)
  BY <1>2 DEF PutSeq, Puts
<1>4. n = 0
  BY <1>1, <1>3 DEF PlainInv
<1>5. PICK h \in Head, r \in Rest, k0 \in Digits \cup {0} :
        want <= UpToFiltered(h, r) + IF n = 0 THEN 0 ELSE STATUS_FILTERED_LINES * (k0 + 1)
  BY <1>1, <1>3 DEF PlainInv, Within
<1>6. want <= UpToFiltered(h, r) /\ UpToFiltered(h, r) \in Nat
  BY <1>1, <1>4, <1>5, UpToTypes
<1> DEFINE w == k + 1
           most == STATUS_FILTERED_LINES * w
           now == n_filtered * w
<1>7. w \in Nat
  BY JsonAssumption
<1>8. now \in Nat /\ most \in Nat /\ now <= most
  <2> HIDE DEF w
  <2> QED
    BY <1>1, <1>7
<1>9. want' = want + (now - 1)
  BY <1>3
<1>10. want' <= UpToFiltered(h, r) + most
  <2> HIDE DEF now, most, w
  <2> QED
    BY <1>1, <1>6, <1>8, <1>9
<1>11. want' <= UpToFiltered(h, r) + IF n' = 0 THEN 0 ELSE STATUS_FILTERED_LINES * (k + 1)
  BY <1>1, <1>3, <1>10
<1> QED
  BY <1>3, <1>11 DEF Within

LEMMA PlainFinish ==
  ASSUME PlainInv, Finish, doubled' = 0
  PROVE  Within'
<1>1. want \in Nat /\ doubled = 0 /\ STATUS_FILTERED_LINES \in Nat
      /\ at = "seq" /\ at' = "done" /\ want' = want + 2
  BY JsonAssumption DEF PlainInv, JsonInv, Fill, Finish, Puts
<1>2. PICK h \in Head, r \in Rest, k \in Digits \cup {0} :
        want <= UpToFiltered(h, r) + IF n = 0 THEN 0 ELSE STATUS_FILTERED_LINES * (k + 1)
  BY <1>1 DEF PlainInv, Within
<1> DEFINE numbers == STATUS_FILTERED_LINES * (k + 1)
<1>3. numbers \in Nat
  <2>1. k + 1 \in Nat
    BY JsonAssumption
  <2> QED
    BY <1>1, <2>1
<1>4. UpToFiltered(h, r) \in Nat
  BY UpToTypes
<1>5. UpToFiltered(h, r) + numbers + 2 < cap
  BY FitAssumption DEF UpToFiltered, UpToConsole, UpToRest
<1> HIDE DEF numbers
<1>6. want <= UpToFiltered(h, r) + numbers
  BY <1>1, <1>2, <1>3, <1>4 DEF numbers
<1>7. want' < cap
  BY <1>1, <1>3, <1>4, <1>5, <1>6, JsonAssumption
<1> QED
  BY <1>1, <1>7 DEF Within

LEMMA PlainInvHolds == Spec => []PlainInv
<1>1. Init => PlainInv
  BY JsonInvInit DEF Init, PlainInv, Within
<1>2. PlainInv /\ [Next]_vars => PlainInv'
  <2> SUFFICES ASSUME PlainInv, [Next]_vars PROVE PlainInv'
    OBVIOUS
  <2>1. JsonInv'
    BY JsonInvStep DEF PlainInv
  <2>2. n \in Nat /\ STATUS_CONSOLE_LINES \in Nat /\ STATUS_FILTERED_LINES \in Nat
    BY JsonAssumption DEF PlainInv, JsonInv, Counts
  <2>3. CASE UNCHANGED vars
    BY <2>1, <2>3 DEF vars, PlainInv, Within
  <2>4. CASE PutHead \/ PutAlarm \/ PutRest
    <3>1. n' = n /\ n = 0 /\ at' # "seq"
      BY <2>4 DEF PutHead, PutAlarm, PutRest, PlainInv
    <3> QED
      BY <2>1, <2>2, <2>4, <3>1, PlainParts DEF PlainInv
  <2>5. CASE PutLine("console", STATUS_CONSOLE_LINES)
    <3>1. at' = "console" /\ n' = n + 1 /\ n < STATUS_CONSOLE_LINES
      BY <2>5 DEF PutLine
    <3> QED
      BY <2>1, <2>2, <2>5, <3>1, PlainLines DEF PlainInv
  <2>6. CASE PutLine("filtered", STATUS_FILTERED_LINES)
    <3>1. at' = "filtered"
      BY <2>6 DEF PutLine
    <3> QED
      BY <2>1, <2>2, <2>6, <3>1, PlainLines DEF PlainInv
  <2>7. CASE EndConsole \/ EndFiltered
    <3>1. n' = 0 /\ at' # "console"
      BY <2>7 DEF EndConsole, EndFiltered
    <3> QED
      BY <2>1, <2>7, <3>1, PlainEnds DEF PlainInv
  <2>8. CASE PutSeq
    <3>1. at' = "seq" /\ n' = n_filtered /\ n_filtered' = n_filtered
      BY <2>8 DEF PutSeq
    <3> QED
      BY <2>1, <2>8, <3>1, PlainSeq DEF PlainInv
  <2>9. CASE Finish
    <3>1. at' = "done"
      BY <2>9 DEF Finish
    <3> QED
      BY <2>1, <2>9, <3>1, PlainFinish DEF PlainInv
  <2> QED
    BY <2>3, <2>4, <2>5, <2>6, <2>7, <2>8, <2>9 DEF Next
<1> QED
  BY <1>1, <1>2, PTL DEF Spec

\* An answer that fits is sent whole: neither japp nor the escaping cuts a text that fits; and
\* one without an escaped character fits, whatever lines and numbers it has.
THEOREM FittingIsSentWhole == Spec => []WholeIsSent
<1>1. PlainInv => WholeIsSent
  BY DEF PlainInv, JsonInv, Counts, Within, WholeIsSent
<1> QED
  BY <1>1, PlainInvHolds, PTL
===============================================================================
