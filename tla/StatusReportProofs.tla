-------------------------- MODULE StatusReportProofs --------------------------
(***************************************************************************)
(* Theorems about StatusReport, for any words, offsets and systems and any *)
(* bounds: what the controller says only when it changes is still shown    *)
(* as it is, and no line of the log or alarm of the user's is lost.  And   *)
(* about LineAssembly, for any line_buf: what the lines are that come in.  *)
(***************************************************************************)
EXTENDS StatusReport, LineAssembly, TLAPS, FiniteSetTheorems, SequenceTheorems

\* A line under way to core1, and a field of the controller that a line may tell.
Line ==
    Report \cup [kind : {"[GC:"}, system : Systems] \cup [kind : {"error"}, no : 1 .. MaxErrors]

Field == {"offset", "system"}

\* Whether a line tells core1 a field of the controller's state, and what it is or was.
Tells(line, what) == Names(line, what) \/ (what = "system" /\ line.kind = "[GC:")

Value(line, what) == IF line.kind = "<" THEN line.is[what] ELSE line.system

\* No line from the i-th to the j-th tells the field.
Silent(w, i, j, what) == \A k \in i .. j : ~Tells(w[k], what)

\* A report that does not tell the field was made with what the line before it told; where no
\* line told it, with v; and what the last line that told it told is v.
Chained(w, what) ==
    \A i, j \in DOMAIN w :
        i < j /\ Tells(w[i], what) /\ w[j].kind = "<" /\ Silent(w, i + 1, j, what)
        => Value(w[j], what) = Value(w[i], what)

Starts(w, what, v) ==
    \A j \in DOMAIN w : w[j].kind = "<" /\ Silent(w, 1, j, what) => Value(w[j], what) = v

Finishes(w, what, v) ==
    \A i \in DOMAIN w :
        Tells(w[i], what) /\ Silent(w, i + 1, Len(w), what) => Value(w[i], what) = v

\* What core1 remembers of a field, and when that may be wrong.
Last(what) == IF what = "offset" THEN last_wco ELSE last_wcs

Excused(what) ==
    IF what = "offset" THEN last_wco = Unknown \/ unheard ELSE ~(mounted /\ seeded)

\* What core1 remembers and what is under way lead to what the controller is.
Followed(what) ==
    /\ Chained(wire, what)
    /\ what \notin untold => Finishes(wire, what, now[what])
    /\ ~Excused(what) =>
          /\ Starts(wire, what, Last(what))
          /\ what \notin untold /\ Silent(wire, 1, Len(wire), what) => Last(what) = now[what]

\* A parsed report shows the fields as they were.
Shown(s) ==
    /\ s.offset # Unknown /\ ~s.unheard => s.offset = s.of.offset
    /\ s.seeded => s.system = s.of.system

\* How often each thing has happened.
Uses == [changes : Nat, reports : Nat, errors : 0 .. MaxErrors, others : Nat,
         commands : Nat, replugs : Nat, polls : Nat]

\* The types of all but the histories, the wire and the page.
Scalars ==
    /\ now \in Machine /\ untold \subseteq {"offset", "system"}
    /\ mounted \in BOOLEAN /\ need_g_query \in BOOLEAN /\ force_next_status_log \in BOOLEAN
    /\ last_wco \in Offsets \cup {Unknown} /\ last_wcs \in Systems \cup {Unknown}
    /\ last_status_word \in Words \cup {Unknown} /\ logged_word \in Words \cup {Unknown}
    /\ step \in {"idle", "push", "enter", "store"}
    /\ ns \in Parsed /\ state \in Parsed
    /\ alarm \in 0 .. MaxErrors /\ alarm_keep \in 0 .. MaxErrors
    /\ pushed \in Nat /\ status_line \in Nat
    /\ todo \in BOOLEAN /\ seeded \in BOOLEAN /\ unheard \in BOOLEAN
    /\ page \in [at : {"idle", "log", "done"}, needs : Nat, lines : SUBSET Nat]

\* The types, with the wire as a sequence of Line, which is what can be on it.
Typed ==
    /\ Scalars
    /\ wire \in Seq(Line)
    /\ ~mounted => wire = << >>
    /\ used \in Uses

\* What is logged of the reports, and what the answers to GET /api/status have of the log.
Logged ==
    /\ IF step = "push" THEN ns.word = last_status_word
       ELSE logged_word # Unknown => logged_word = last_status_word
    /\ status_line <= pushed
    /\ state.line <= pushed
    /\ step # "idle" => ns.line <= pushed + (IF step = "push" THEN 1 ELSE 0)
    /\ page.at = "log" => page.needs <= pushed
    /\ page.at = "done" =>
          \E u \in Nat : page.needs <= u /\ page.lines = {n \in 1 .. u : u < n + WINDOW}

\* Nobody changes the alarm between its being saved and stored back.
AlarmKept == step = "store" => alarm_keep = alarm

\* The inductive invariant.
StatusInv ==
    /\ Typed
    /\ Followed("offset") /\ Followed("system")
    /\ Shown(ns) /\ Shown(state)
    /\ Logged
    /\ AlarmKept
-------------------------------------------------------------------------------
(* Lines under way, one more at the end or one less at the head. *)

LEMMA Appended ==
  ASSUME NEW w \in Seq(Line), NEW l \in Line
  PROVE  /\ Append(w, l) \in Seq(Line) /\ Len(w) \in Nat
         /\ Len(Append(w, l)) = Len(w) + 1 /\ Append(w, l)[Len(w) + 1] = l
         /\ DOMAIN w = 1 .. Len(w) /\ DOMAIN Append(w, l) = 1 .. Len(w) + 1
         /\ \A i \in 1 .. Len(w) : Append(w, l)[i] = w[i]
  BY AppendProperties

LEMMA Headed ==
  ASSUME NEW w \in Seq(Line), w # << >>
  PROVE  /\ Tail(w) \in Seq(Line) /\ Head(w) = w[1] /\ w[1] \in Line
         /\ Len(w) \in Nat /\ Len(w) >= 1 /\ Len(Tail(w)) = Len(w) - 1
         /\ DOMAIN w = 1 .. Len(w) /\ DOMAIN Tail(w) = 1 .. Len(w) - 1
         /\ \A i \in 1 .. Len(w) - 1 : Tail(w)[i] = w[i + 1]
  BY HeadTailProperties

\* What is silent in the longer sequence is silent in the shorter, and the other way round.
LEMMA SilentAppended ==
  ASSUME NEW w \in Seq(Line), NEW l \in Line, NEW what, NEW i \in Nat \ {0}
  PROVE  /\ \A j \in 1 .. Len(w) : Silent(Append(w, l), i, j, what) <=> Silent(w, i, j, what)
         /\ i <= Len(w) + 1
            => (Silent(Append(w, l), i, Len(w) + 1, what)
                <=> Silent(w, i, Len(w), what) /\ ~Tells(l, what))
<1> DEFINE n == Len(w)
           x == Append(w, l)
<1>1. n \in Nat /\ x[n + 1] = l /\ \A k \in 1 .. n : x[k] = w[k]
  BY Appended
<1> HIDE DEF n, x
<1>2. ASSUME NEW j \in 1 .. n
      PROVE  Silent(x, i, j, what) <=> Silent(w, i, j, what)
  <2>1. \A k \in i .. j : x[k] = w[k]
    BY <1>1
  <2> QED
    BY <2>1 DEF Silent
<1>3. ASSUME i <= n + 1
      PROVE  Silent(x, i, n + 1, what) <=> Silent(w, i, n, what) /\ ~Tells(l, what)
  <2>1. i .. n + 1 = (i .. n) \cup {n + 1}
    BY <1>1, <1>3
  <2>2. \A k \in i .. n : x[k] = w[k]
    BY <1>1
  <2> QED
    BY <1>1, <2>1, <2>2 DEF Silent
<1> QED
  BY <1>2, <1>3 DEF n, x

LEMMA SilentTail ==
  ASSUME NEW w \in Seq(Line), w # << >>, NEW what, NEW i \in Nat \ {0}, NEW j \in Nat,
         j <= Len(w) - 1
  PROVE  Silent(Tail(w), i, j, what) <=> Silent(w, i + 1, j + 1, what)
<1>1. Len(w) \in Nat /\ \A k \in 1 .. Len(w) - 1 : Tail(w)[k] = w[k + 1]
  BY Headed
<1>2. \A k \in i .. j : Tail(w)[k] = w[k + 1] /\ k + 1 \in i + 1 .. j + 1
  BY <1>1
<1>3. \A k \in i + 1 .. j + 1 : k - 1 \in i .. j /\ (k - 1) + 1 = k
  OBVIOUS
<1> QED
  BY <1>2, <1>3 DEF Silent

\* A line more is chained to the rest if it was made with what the last line told.
LEMMA ChainedAppended ==
  ASSUME NEW w \in Seq(Line), NEW l \in Line, NEW what, Chained(w, what),
         l.kind = "<" /\ ~Tells(l, what) => Finishes(w, what, Value(l, what))
  PROVE  Chained(Append(w, l), what)
<1> DEFINE n == Len(w)
           x == Append(w, l)
<1>1. /\ n \in Nat /\ x[n + 1] = l /\ DOMAIN w = 1 .. n /\ DOMAIN x = 1 .. n + 1
      /\ \A k \in 1 .. n : x[k] = w[k]
  BY Appended
<1> SUFFICES ASSUME NEW i \in DOMAIN x, NEW j \in DOMAIN x, i < j, Tells(x[i], what),
                    x[j].kind = "<", Silent(x, i + 1, j, what)
             PROVE  Value(x[j], what) = Value(x[i], what)
  BY DEF Chained
<1>2. i \in 1 .. n /\ i + 1 \in Nat \ {0} /\ j \in 1 .. n + 1 /\ i + 1 <= n + 1
  BY <1>1
<1>3. x[i] = w[i]
  BY <1>1, <1>2
<1>4. CASE j \in 1 .. n
  <2>1. x[j] = w[j] /\ Silent(w, i + 1, j, what)
    BY <1>1, <1>2, <1>4, SilentAppended
  <2> QED
    BY <1>1, <1>2, <1>3, <1>4, <2>1 DEF Chained
<1>5. CASE j = n + 1
  <2>1. Silent(w, i + 1, n, what) /\ ~Tells(l, what) /\ x[j] = l
    BY <1>1, <1>2, <1>5, SilentAppended
  <2>2. Value(w[i], what) = Value(l, what)
    BY <1>1, <1>2, <1>3, <2>1 DEF Finishes
  <2> QED
    BY <1>3, <2>1, <2>2
<1> QED
  BY <1>1, <1>2, <1>4, <1>5

LEMMA EndsAppended ==
  ASSUME NEW w \in Seq(Line), NEW l \in Line, NEW what, NEW v,
         IF Tells(l, what) THEN Value(l, what) = v ELSE Finishes(w, what, v)
  PROVE  Finishes(Append(w, l), what, v)
<1> DEFINE n == Len(w)
           x == Append(w, l)
<1>1. /\ n \in Nat /\ x[n + 1] = l /\ DOMAIN w = 1 .. n /\ DOMAIN x = 1 .. n + 1
      /\ Len(x) = n + 1 /\ \A k \in 1 .. n : x[k] = w[k]
  BY Appended
<1> SUFFICES ASSUME NEW i \in DOMAIN x, Tells(x[i], what), Silent(x, i + 1, Len(x), what)
             PROVE  Value(x[i], what) = v
  BY DEF Finishes
<1>2. CASE i \in 1 .. n
  <2>1. i + 1 \in Nat \ {0} /\ i + 1 <= n + 1
    BY <1>1, <1>2
  <2>2. Silent(w, i + 1, n, what) /\ ~Tells(l, what)
    BY <1>1, <2>1, SilentAppended
  <2> QED
    BY <1>1, <1>2, <2>2 DEF Finishes
<1>3. CASE i = n + 1
  BY <1>1, <1>3
<1> QED
  BY <1>1, <1>2, <1>3

LEMMA StartsAppended ==
  ASSUME NEW w \in Seq(Line), NEW l \in Line, NEW what, NEW v, Starts(w, what, v),
         l.kind = "<" /\ ~Tells(l, what) /\ Silent(w, 1, Len(w), what) => Value(l, what) = v
  PROVE  Starts(Append(w, l), what, v)
<1> DEFINE n == Len(w)
           x == Append(w, l)
<1>1. /\ n \in Nat /\ x[n + 1] = l /\ DOMAIN w = 1 .. n /\ DOMAIN x = 1 .. n + 1
      /\ \A k \in 1 .. n : x[k] = w[k]
  BY Appended
<1> SUFFICES ASSUME NEW j \in DOMAIN x, x[j].kind = "<", Silent(x, 1, j, what)
             PROVE  Value(x[j], what) = v
  BY DEF Starts
<1>2. 1 \in Nat \ {0} /\ 1 <= n + 1
  BY <1>1
<1>3. CASE j \in 1 .. n
  <2>1. Silent(w, 1, j, what) /\ x[j] = w[j]
    BY <1>1, <1>2, <1>3, SilentAppended
  <2> QED
    BY <1>1, <1>3, <2>1 DEF Starts
<1>4. CASE j = n + 1
  <2>1. Silent(w, 1, n, what) /\ ~Tells(l, what)
    BY <1>1, <1>2, <1>4, SilentAppended
  <2> QED
    BY <1>1, <1>4, <2>1
<1> QED
  BY <1>1, <1>3, <1>4

LEMMA ChainedTail ==
  ASSUME NEW w \in Seq(Line), w # << >>, NEW what, Chained(w, what)
  PROVE  Chained(Tail(w), what)
<1> DEFINE n == Len(w)
           t == Tail(w)
<1>1. /\ n \in Nat /\ DOMAIN w = 1 .. n /\ DOMAIN t = 1 .. n - 1
      /\ \A k \in 1 .. n - 1 : t[k] = w[k + 1]
  BY Headed
<1> SUFFICES ASSUME NEW i \in DOMAIN t, NEW j \in DOMAIN t, i < j, Tells(t[i], what),
                    t[j].kind = "<", Silent(t, i + 1, j, what)
             PROVE  Value(t[j], what) = Value(t[i], what)
  BY DEF Chained
<1>2. /\ i + 1 \in 1 .. n /\ j + 1 \in 1 .. n /\ i + 1 < j + 1 /\ i + 1 \in Nat \ {0}
      /\ j \in Nat /\ j <= n - 1
  BY <1>1
<1>3. t[i] = w[i + 1] /\ t[j] = w[j + 1]
  BY <1>1
<1>4. Silent(w, (i + 1) + 1, j + 1, what)
  BY <1>2, SilentTail
<1> QED
  BY <1>1, <1>2, <1>3, <1>4 DEF Chained

LEMMA EndsTail ==
  ASSUME NEW w \in Seq(Line), w # << >>, NEW what, NEW v, Finishes(w, what, v)
  PROVE  /\ Finishes(Tail(w), what, v)
         /\ Tells(w[1], what) /\ Silent(Tail(w), 1, Len(Tail(w)), what)
            => Value(w[1], what) = v
<1> DEFINE n == Len(w)
           t == Tail(w)
<1>1. /\ n \in Nat /\ n >= 1 /\ DOMAIN w = 1 .. n /\ DOMAIN t = 1 .. n - 1
      /\ Len(t) = n - 1 /\ \A k \in 1 .. n - 1 : t[k] = w[k + 1]
  BY Headed
<1>2. n - 1 \in Nat /\ n - 1 <= n - 1 /\ (n - 1) + 1 = n
  BY <1>1
<1>3. ASSUME NEW i \in DOMAIN t, Tells(t[i], what), Silent(t, i + 1, Len(t), what)
      PROVE  Value(t[i], what) = v
  <2>1. i + 1 \in 1 .. n /\ i + 1 \in Nat \ {0} /\ t[i] = w[i + 1]
    BY <1>1, <1>3
  <2>2. Silent(w, (i + 1) + 1, n, what)
    BY <1>1, <1>2, <1>3, <2>1, SilentTail
  <2> QED
    BY <1>1, <1>3, <2>1, <2>2 DEF Finishes
<1>4. ASSUME Tells(w[1], what), Silent(t, 1, Len(t), what)
      PROVE  Value(w[1], what) = v
  <2>1. Silent(w, 1 + 1, n, what)
    BY <1>1, <1>2, <1>4, SilentTail
  <2>2. 1 \in DOMAIN w
    BY <1>1
  <2> QED
    BY <1>4, <2>1, <2>2 DEF Finishes
<1> QED
  BY <1>3, <1>4 DEF Finishes

\* Once its head is read the rest starts with what the head told, or with what it started with.
LEMMA StartsTail ==
  ASSUME NEW w \in Seq(Line), w # << >>, NEW what
  PROVE  /\ Tells(w[1], what) /\ Chained(w, what) => Starts(Tail(w), what, Value(w[1], what))
         /\ \A v : ~Tells(w[1], what) /\ Starts(w, what, v) => Starts(Tail(w), what, v)
<1> DEFINE n == Len(w)
           t == Tail(w)
<1>1. /\ n \in Nat /\ n >= 1 /\ DOMAIN w = 1 .. n /\ DOMAIN t = 1 .. n - 1
      /\ \A k \in 1 .. n - 1 : t[k] = w[k + 1]
  BY Headed
<1>2. ASSUME NEW j \in DOMAIN t, Silent(t, 1, j, what)
      PROVE  Silent(w, 2, j + 1, what) /\ t[j] = w[j + 1] /\ j + 1 \in 1 .. n /\ 1 < j + 1
  <2>1. j \in Nat /\ j <= n - 1 /\ j + 1 \in 1 .. n /\ 1 < j + 1 /\ 1 \in Nat \ {0} /\ 1 + 1 = 2
    BY <1>1, <1>2
  <2>2. Silent(w, 1 + 1, j + 1, what)
    BY <1>2, <2>1, SilentTail
  <2> QED
    BY <1>1, <2>1, <2>2
<1>3. ASSUME Tells(w[1], what), Chained(w, what), NEW j \in DOMAIN t, t[j].kind = "<",
             Silent(t, 1, j, what)
      PROVE  Value(t[j], what) = Value(w[1], what)
  <2>1. Silent(w, 1 + 1, j + 1, what) /\ t[j] = w[j + 1] /\ j + 1 \in 1 .. n /\ 1 < j + 1
    BY <1>2, <1>3
  <2>2. 1 \in DOMAIN w /\ j + 1 \in DOMAIN w
    BY <1>1, <2>1
  <2> QED
    BY <1>3, <2>1, <2>2 DEF Chained
<1>4. ASSUME NEW v, ~Tells(w[1], what), Starts(w, what, v), NEW j \in DOMAIN t,
             t[j].kind = "<", Silent(t, 1, j, what)
      PROVE  Value(t[j], what) = v
  <2>1. Silent(w, 2, j + 1, what) /\ t[j] = w[j + 1] /\ j + 1 \in 1 .. n
    BY <1>2, <1>4
  <2>2. Silent(w, 1, j + 1, what)
    BY <1>4, <2>1 DEF Silent
  <2> QED
    BY <1>1, <1>4, <2>1, <2>2 DEF Starts
<1> QED
  BY <1>3, <1>4 DEF Starts

LEMMA SilentWhole ==
  ASSUME NEW w \in Seq(Line), w # << >>, NEW what, ~Tells(w[1], what),
         Silent(Tail(w), 1, Len(Tail(w)), what)
  PROVE  Silent(w, 1, Len(w), what)
<1>1. /\ Len(w) \in Nat /\ Len(w) >= 1 /\ Len(Tail(w)) = Len(w) - 1
  BY Headed
<1>2. Len(w) - 1 \in Nat /\ Len(w) - 1 <= Len(w) - 1 /\ (Len(w) - 1) + 1 = Len(w)
      /\ 1 \in Nat \ {0} /\ 1 + 1 = 2
  BY <1>1
<1>3. Silent(w, 2, Len(w), what)
  BY <1>1, <1>2, SilentTail
<1> QED
  BY <1>1, <1>3 DEF Silent
-------------------------------------------------------------------------------
(* How core1 follows a field, over each kind of step. *)

\* A line more, made with the field as it is: a report names what has not been told.
LEMMA LineMore ==
  ASSUME NEW what \in Field, Followed(what), wire \in Seq(Line),
         NEW l \in Line, wire' = Append(wire, l), now' = now,
         Last(what)' = Last(what), Excused(what) => Excused(what)',
         l.kind = "<" \/ Tells(l, what) => Value(l, what) = now[what],
         l.kind = "<" /\ ~Tells(l, what) => what \notin untold,
         what \notin untold' => what \notin untold \/ Tells(l, what)
  PROVE  Followed(what)'
<1>1. Chained(wire', what)
  <2>1. l.kind = "<" /\ ~Tells(l, what) => Finishes(wire, what, Value(l, what))
    BY DEF Followed
  <2> QED
    BY <2>1, ChainedAppended DEF Followed
<1>2. ASSUME what \notin untold'
      PROVE  Finishes(wire', what, now'[what])
  <2>1. IF Tells(l, what) THEN Value(l, what) = now[what] ELSE Finishes(wire, what, now[what])
    BY <1>2 DEF Followed
  <2> QED
    BY <2>1, EndsAppended
<1>3. ASSUME ~Excused(what)'
      PROVE  /\ Starts(wire', what, Last(what)')
             /\ what \notin untold' /\ Silent(wire', 1, Len(wire'), what)
                => Last(what)' = now'[what]
  <2>1. /\ Starts(wire, what, Last(what))
        /\ what \notin untold /\ Silent(wire, 1, Len(wire), what) => Last(what) = now[what]
    BY <1>3 DEF Followed
  <2>2. l.kind = "<" /\ ~Tells(l, what) /\ Silent(wire, 1, Len(wire), what)
        => Value(l, what) = Last(what)
    BY <2>1
  <2>3. Starts(Append(wire, l), what, Last(what))
    BY <2>1, <2>2, StartsAppended
  <2>4. Silent(wire', 1, Len(wire'), what)
        => Silent(wire, 1, Len(wire), what) /\ ~Tells(l, what)
    <3>1. Len(wire') = Len(wire) + 1 /\ Len(wire) \in Nat
      BY Appended
    <3>2. 1 \in Nat \ {0} /\ 1 <= Len(wire) + 1
      BY <3>1
    <3> QED
      BY <3>1, <3>2, SilentAppended
  <2> QED
    BY <2>1, <2>3, <2>4
<1> QED
  BY <1>1, <1>2, <1>3 DEF Followed

\* A line less: core1 takes from it what it tells.
LEMMA LineLess ==
  ASSUME NEW what \in Field, Followed(what), wire \in Seq(Line), wire # << >>,
         wire' = Tail(wire), now' = now, untold' = untold,
         Tells(Head(wire), what) => Last(what)' = Value(Head(wire), what),
         ~Tells(Head(wire), what) => Last(what)' = Last(what) /\ (Excused(what) => Excused(what)')
  PROVE  Followed(what)'
<1>1. Head(wire) = wire[1]
  BY Headed
<1>2. Chained(wire', what)
  BY ChainedTail DEF Followed
<1>3. what \notin untold
      => /\ Finishes(wire', what, now'[what])
         /\ Tells(wire[1], what) /\ Silent(wire', 1, Len(wire'), what)
            => Value(wire[1], what) = now[what]
  BY EndsTail DEF Followed
<1>4. CASE Tells(wire[1], what)
  <2>1. Starts(wire', what, Last(what)')
    BY <1>1, <1>4, StartsTail DEF Followed
  <2> QED
    BY <1>1, <1>2, <1>3, <1>4, <2>1 DEF Followed
<1>5. CASE ~Tells(wire[1], what)
  <2>1. ~Excused(what)' => Starts(wire', what, Last(what)')
    BY <1>1, <1>5, StartsTail DEF Followed
  <2>2. ~Excused(what)' /\ what \notin untold' /\ Silent(wire', 1, Len(wire'), what)
        => Last(what)' = now'[what]
    BY <1>1, <1>5, SilentWhole DEF Followed
  <2> QED
    BY <1>2, <1>3, <2>1, <2>2 DEF Followed
<1> QED
  BY <1>4, <1>5

\* No line comes or goes: a field may change as long as it is going to be told.
LEMMA LinesStay ==
  ASSUME NEW what \in Field, Followed(what), wire' = wire,
         Last(what)' = Last(what), Excused(what) => Excused(what)',
         what \notin untold' => what \notin untold /\ now'[what] = now[what]
  PROVE  Followed(what)'
  BY DEF Followed

\* All lines are lost: core1 is excused if the field was told by one of them.
LEMMA LinesLost ==
  ASSUME NEW what \in Field, Followed(what), wire' = << >>, Last(what)' = Last(what),
         ~Excused(what)' => \/ what \in untold'
                            \/ /\ ~Excused(what) /\ now'[what] = now[what]
                               /\ what \notin untold /\ Silent(wire, 1, Len(wire), what)
  PROVE  Followed(what)'
<1>1. \A v : Chained(<< >>, what) /\ Starts(<< >>, what, v) /\ Finishes(<< >>, what, v)
  BY DEF Chained, Starts, Finishes
<1> QED
  BY <1>1 DEF Followed

\* What a report says of a field that it does not name is what core1 remembers.
LEMMA FirstReport ==
  ASSUME NEW what \in Field, Followed(what), wire \in Seq(Line), wire # << >>,
         Head(wire).kind = "<", ~Tells(Head(wire), what), ~Excused(what)
  PROVE  Last(what) = Head(wire).is[what]
<1>1. Head(wire) = wire[1] /\ 1 \in DOMAIN wire
  BY Headed
<1>2. Silent(wire, 1, 1, what)
  BY <1>1 DEF Silent
<1> QED
  BY <1>1, <1>2 DEF Followed, Starts, Value
-------------------------------------------------------------------------------
(* Types. *)

LEMMA LineKinds ==
  ASSUME NEW l \in Line
  PROVE  /\ l.kind \in {"<", "[GC:", "error"}
         /\ l.kind = "<" => l \in Report
         /\ l.kind = "[GC:" => l.system \in Systems
         /\ l.kind = "error" => l.no \in 1 .. MaxErrors
  BY DEF Line, Report

LEMMA WireTyped ==
  ASSUME wire \in Seq(Line)
  PROVE  \A i \in DOMAIN wire : wire[i] \in Report \/ wire[i].kind \in {"[GC:", "error"}
<1>1. \A i \in DOMAIN wire : wire[i] \in Line
  OBVIOUS
<1> QED
  BY <1>1, LineKinds

\* A bound is used up by one.
LEMMA UseTyped ==
  ASSUME used \in Uses
  PROVE  /\ Use("changes", MaxChanges) => used' \in Uses
         /\ Use("reports", MaxReports) => used' \in Uses
         /\ Use("commands", MaxCommands) => used' \in Uses
         /\ Use("replugs", MaxReplugs) => used' \in Uses
         /\ Use("others", MaxOthers) => used' \in Uses
         /\ Use("polls", MaxPolls) => used' \in Uses
         /\ Use("errors", MaxErrors) => used' \in Uses /\ used'.errors \in 1 .. MaxErrors
<1>1. MaxErrors \in Nat
  BY StatusAssumption
<1>2. ASSUME Use("errors", MaxErrors)
      PROVE  used' \in Uses /\ used'.errors \in 1 .. MaxErrors
  <2>1. used.errors \in 0 .. MaxErrors /\ used.errors < MaxErrors
        /\ used' = [used EXCEPT !.errors = used.errors + 1]
    BY <1>2 DEF Use, Uses
  <2>2. used.errors + 1 \in 1 .. MaxErrors
    BY <1>1, <2>1
  <2>3. used.errors + 1 \in 0 .. MaxErrors
    BY <1>1, <2>1
  <2> QED
    BY <2>1, <2>2, <2>3 DEF Uses
<1>3. Use("changes", MaxChanges) => used' \in Uses
  BY DEF Use, Uses
<1>4. Use("reports", MaxReports) => used' \in Uses
  BY DEF Use, Uses
<1>5. Use("commands", MaxCommands) => used' \in Uses
  BY DEF Use, Uses
<1>6. Use("replugs", MaxReplugs) => used' \in Uses
  BY DEF Use, Uses
<1>7. Use("polls", MaxPolls) => used' \in Uses
  BY DEF Use, Uses
<1>8. Use("others", MaxOthers) => used' \in Uses
  BY DEF Use, Uses
<1> QED
  BY <1>2, <1>3, <1>4, <1>5, <1>6, <1>7, <1>8

\* A line more in the filtered log.
LEMMA PushTyped ==
  ASSUME Scalars, FilteredPush
  PROVE  /\ pushed' \in Nat /\ status_line' \in Nat
         /\ logged_word' \in Words \cup {Unknown}
  BY DEF Scalars, FilteredPush

\* That is TypeOK.
LEMMA TypedIsTypeOK ==
  ASSUME Typed
  PROVE  TypeOK
  BY WireTyped DEF Typed, TypeOK, Scalars

\* A line taken from the wire, or put on it while mounted.
LEMMA HeadTyped ==
  ASSUME Typed, wire # << >>
  PROVE  Head(wire) \in Line /\ Tail(wire) \in Seq(Line) /\ mounted
  BY Headed DEF Typed

LEMMA TypedStep ==
  ASSUME Typed, Logged, [Next]_vars
  PROVE  Typed'
<1>1. Scalars /\ wire \in Seq(Line) /\ (~mounted => wire = << >>) /\ used \in Uses
  BY DEF Typed
<1> SUFFICES /\ Scalars' /\ wire' \in Seq(Line)
             /\ (~mounted' => wire' = << >>) /\ used' \in Uses
  BY DEF Typed
<1>2. CASE UNCHANGED vars
  BY <1>1, <1>2 DEF Scalars, vars, controller, caches, parser, log
<1>3. CASE Changes
  <2>1. used' \in Uses
    BY <1>1, <1>3, UseTyped DEF Changes
  <2>2. now' \in Machine /\ untold' \subseteq {"offset", "system"}
    BY <1>1, <1>3 DEF Changes, Scalars, Machine
  <2> QED
    BY <1>1, <1>3, <2>1, <2>2 DEF Changes, Scalars, caches, parser, log
<1>4. CASE Reports
  <2>1. used' \in Uses
    BY <1>1, <1>4, UseTyped DEF Reports
  <2>2. [kind |-> "<", is |-> now, says |-> untold] \in Line
    BY <1>1 DEF Scalars, Line, Report
  <2>3. wire' \in Seq(Line)
    BY <1>1, <1>4, <2>2, Appended DEF Reports
  <2> QED
    BY <1>1, <1>4, <2>1, <2>3 DEF Reports, Scalars, caches, parser, log
<1>5. CASE Complains
  <2>1. used' \in Uses /\ used'.errors \in 1 .. MaxErrors
    BY <1>1, <1>5, UseTyped DEF Complains
  <2>2. [kind |-> "error", no |-> used'.errors] \in Line
    BY <2>1 DEF Line
  <2>3. wire' \in Seq(Line)
    BY <1>1, <1>5, <2>2, Appended DEF Complains
  <2> QED
    BY <1>1, <1>5, <2>1, <2>3 DEF Complains, Scalars, controller, caches, parser, log
<1>6. CASE Mount
  BY <1>1, <1>6, ZenonT(40) DEF Mount, Scalars, controller, caches, parser, log
<1>7. CASE Unplug
  <2>1. used' \in Uses
    BY <1>1, <1>7, UseTyped DEF Unplug
  <2>2. state' \in Parsed
    BY <1>1, <1>7 DEF Unplug, Disconnected, Scalars, Parsed
  <2>3. now' \in Machine /\ untold' \subseteq {"offset", "system"} /\ unheard' \in BOOLEAN
    <3>1. CASE UNCHANGED controller
               /\ unheard' = (unheard \/ \E i \in DOMAIN wire : Names(wire[i], "offset"))
      BY <1>1, <3>1 DEF Scalars, controller
    <3>2. CASE now' = [now EXCEPT !.system = G54] /\ untold' = {"offset"}
               /\ UNCHANGED unheard
      BY <1>1, <3>2, StatusAssumption DEF Scalars, Machine
    <3> QED
      BY <1>7, <3>1, <3>2 DEF Unplug
  <2>4. wire' = << >> /\ wire' \in Seq(Line)
    BY <1>7 DEF Unplug
  <2> QED
    BY <1>1, <1>7, <2>1, <2>2, <2>3, <2>4, ZenonT(40) DEF Unplug, Scalars, caches, parser, log
<1>8. CASE AskG
  <2>1. [kind |-> "[GC:", system |-> now.system] \in Line
    BY <1>1 DEF Scalars, Machine, Line
  <2>2. wire' \in Seq(Line)
    BY <1>1, <1>8, <2>1, Appended DEF AskG
  <2> QED
    BY <1>1, <1>8, <2>2, ZenonT(40) DEF AskG, Scalars, controller, caches, parser, log
<1>9. CASE Send
  BY <1>1, <1>9, PushTyped, ZenonT(40) DEF Send, Scalars, controller, caches, parser
<1>10. CASE Parse
  <2> DEFINE r == Head(wire)
  <2>1. r \in Report /\ wire' \in Seq(Line) /\ mounted
    BY <1>10, HeadTyped, LineKinds DEF Parse
  <2>2. r.is \in Machine /\ r.is.word \in Words /\ r.is.offset \in Offsets
        /\ r.is.system \in Systems
    BY <2>1 DEF Report, Machine
  <2>3. last_wco' \in Offsets \cup {Unknown} /\ last_wcs' \in Systems \cup {Unknown}
        /\ last_status_word' = r.is.word /\ unheard' \in BOOLEAN
    BY <1>1, <1>10, <2>2 DEF Parse, Wco, Wcs, WordAfter, Scalars
  <2> DEFINE n == IF IsLogged(r.is.word) THEN pushed + 1 ELSE status_line
  <2>4. n \in Nat
    BY <1>1 DEF Scalars
  <2>5. ns' = [word |-> r.is.word, offset |-> last_wco', system |-> last_wcs', of |-> r.is,
               unheard |-> unheard', seeded |-> seeded, line |-> n]
        /\ step' \in {"push", "enter"}
    BY <1>10 DEF Parse
  <2> HIDE DEF r, n
  <2>6. ns' \in Parsed
    BY <1>1, <2>2, <2>3, <2>4, <2>5 DEF Parsed, Scalars
  <2> QED
    BY <1>1, <1>10, <2>1, <2>2, <2>3, <2>5, <2>6 DEF Parse, Scalars, controller, log
<1>11. CASE PushStatus
  <2>1. pushed' \in Nat /\ status_line' \in Nat
    BY <1>1, <1>11 DEF PushStatus, Scalars
  <2>2. logged_word' \in Words \cup {Unknown}
    BY <1>1, <1>11 DEF PushStatus, Logged, Scalars
  <2> QED
    BY <1>1, <1>11, <2>1, <2>2 DEF PushStatus, Scalars, controller, caches
<1>12. CASE Enter
  BY <1>1, <1>12 DEF Enter, Scalars, controller, caches, log
<1>13. CASE Store
  <2>1. 0 \in 0 .. MaxErrors
    BY StatusAssumption
  <2> QED
    BY <1>1, <1>13, <2>1 DEF Store, Scalars, controller, caches, log
<1>14. CASE ParseGC
  <2>1. Head(wire).system \in Systems /\ wire' \in Seq(Line) /\ mounted
    BY <1>14, HeadTyped, LineKinds DEF ParseGC
  <2> QED
    BY <1>1, <1>14, <2>1, PushTyped DEF ParseGC, Seed, Scalars, controller, parser
<1>15. CASE SetAlarm
  <2>1. Head(wire).no \in 0 .. MaxErrors /\ wire' \in Seq(Line) /\ mounted
    BY <1>15, HeadTyped, LineKinds, StatusAssumption DEF SetAlarm
  <2> QED
    BY <1>1, <1>15, <2>1, PushTyped DEF SetAlarm, Scalars, controller, caches, parser
<1>16. CASE FlagStall
  <2>1. state' \in Parsed
    BY <1>1, <1>16 DEF FlagStall, Disconnected, Scalars, Parsed
  <2> QED
    BY <1>1, <1>16, <2>1 DEF FlagStall, Scalars, controller, caches, parser, log
<1>17. CASE Command
  <2>1. used' \in Uses /\ 0 \in 0 .. MaxErrors
    BY <1>1, <1>17, UseTyped, StatusAssumption DEF Command
  <2> QED
    BY <1>1, <1>17, <2>1 DEF Command, Scalars, controller, caches, parser, log
<1>18. CASE GetState
  <2>1. used' \in Uses
    BY <1>1, <1>18, UseTyped DEF GetState
  <2>2. page' \in [at : {"idle", "log", "done"}, needs : Nat, lines : SUBSET Nat]
    <3>1. state.line \in Nat
      BY <1>1 DEF Scalars, Parsed
    <3> QED
      BY <1>1, <1>18, <3>1 DEF GetState, Scalars
  <2> QED
    BY <1>1, <1>18, <2>1, <2>2 DEF GetState, Scalars, controller, caches, parser, log
<1>19. CASE GetLog
  <2>1. page' \in [at : {"idle", "log", "done"}, needs : Nat, lines : SUBSET Nat]
    <3>1. LogNow \in SUBSET Nat
      BY DEF LogNow
    <3> QED
      BY <1>1, <1>19, <3>1 DEF GetLog, Scalars
  <2> QED
    BY <1>1, <1>19, <2>1 DEF GetLog, Scalars, controller, caches, parser, log
<1>20. CASE OtherLine
  <2>1. used' \in Uses
    BY <1>1, <1>20, UseTyped DEF OtherLine
  <2> QED
    BY <1>1, <1>20, <2>1, PushTyped DEF OtherLine, Scalars, controller, caches, parser
<1> QED
  BY <1>2, <1>3, <1>4, <1>5, <1>6, <1>7, <1>8, <1>9, <1>10, <1>11, <1>12, <1>13, <1>14,
     <1>15, <1>16, <1>17, <1>18, <1>19, <1>20 DEF Next, Controller, Core1, Core0
-------------------------------------------------------------------------------
(* The steps. *)

\* Every step keeps what links a field of the controller to what core1 remembers of it.
LEMMA FollowedStep ==
  ASSUME Typed, [Next]_vars, NEW what \in Field, Followed(what)
  PROVE  Followed(what)'
<1>1. wire \in Seq(Line) /\ (~mounted => wire = << >>) /\ now \in Machine
  BY DEF Typed, Scalars
<1>2. CASE UNCHANGED <<wire, controller, caches, unheard, mounted, seeded>>
  <2>1. wire' = wire /\ Last(what)' = Last(what) /\ Excused(what)' = Excused(what)
        /\ untold' = untold /\ now' = now
    BY <1>2 DEF controller, caches, Last, Excused
  <2> QED
    BY <2>1, LinesStay
<1>3. CASE Changes
  <2>1. wire' = wire /\ Last(what)' = Last(what) /\ Excused(what)' = Excused(what)
    BY <1>3 DEF Changes, caches, Last, Excused
  <2>2. what \notin untold' => what \notin untold /\ now'[what] = now[what]
    <3>1. now \in [word : Words, offset : Offsets, system : Systems]
      BY <1>1 DEF Machine
    <3>2. CASE \E w \in Words \ {now.word} : now' = [now EXCEPT !.word = w] /\ UNCHANGED untold
      BY <3>1, <3>2 DEF Field
    <3>3. CASE \E o \in Offsets \ {now.offset} :
                  now' = [now EXCEPT !.offset = o] /\ untold' = untold \cup {"offset"}
      BY <3>1, <3>3 DEF Field
    <3>4. CASE \E s \in Systems \ {now.system} :
                  now' = [now EXCEPT !.system = s] /\ untold' = untold \cup {"system"}
      BY <3>1, <3>4 DEF Field
    <3> QED
      BY <1>3, <3>2, <3>3, <3>4 DEF Changes
  <2> QED
    BY <2>1, <2>2, LinesStay
<1>4. CASE Reports
  <2> DEFINE l == [kind |-> "<", is |-> now, says |-> untold]
  <2>1. l \in Line
    BY DEF Typed, Scalars, Line, Report
  <2>2. /\ wire' = Append(wire, l) /\ now' = now /\ untold' = {}
        /\ Last(what)' = Last(what) /\ Excused(what)' = Excused(what)
    BY <1>4 DEF Reports, caches, Last, Excused
  <2>3. l.kind = "<" /\ Value(l, what) = now[what]
    BY DEF Value
  <2>4. Tells(l, what) <=> what \in untold
    BY DEF Tells, Names
  <2> HIDE DEF l
  <2> QED
    BY <1>1, <2>1, <2>2, <2>3, <2>4, LineMore
<1>5. CASE Complains
  <2> DEFINE l == [kind |-> "error", no |-> used'.errors]
  <2>1. l \in Line
    <3>1. used'.errors \in 1 .. MaxErrors
      BY <1>5, UseTyped DEF Complains, Typed
    <3> QED
      BY <3>1 DEF Line
  <2>2. /\ wire' = Append(wire, l) /\ now' = now /\ untold' = untold
        /\ Last(what)' = Last(what) /\ Excused(what)' = Excused(what)
    BY <1>5 DEF Complains, controller, caches, Last, Excused
  <2>3. l.kind # "<" /\ ~Tells(l, what)
    BY DEF Tells, Names
  <2> HIDE DEF l
  <2> QED
    BY <1>1, <2>1, <2>2, <2>3, LineMore
<1>6. CASE Mount
  <2>1. wire' = wire /\ Last(what)' = Last(what) /\ (Excused(what) => Excused(what)')
        /\ untold' = untold /\ now' = now
    BY <1>6 DEF Mount, controller, caches, Last, Excused
  <2> QED
    BY <2>1, LinesStay
<1>7. CASE Unplug
  <2>1. wire' = << >> /\ Last(what)' = Last(what) /\ mounted' = FALSE
    BY <1>7 DEF Unplug, caches, Last
  <2>2. CASE what = "system"
    <3>1. Excused(what)'
      BY <2>1, <2>2 DEF Excused
    <3> QED
      BY <2>1, <3>1, LinesLost
  <2>3. CASE what = "offset"
    <3>1. CASE /\ UNCHANGED controller
               /\ unheard' = (unheard \/ \E i \in DOMAIN wire : Names(wire[i], "offset"))
      <4>1. ASSUME ~Excused(what)'
            PROVE  ~Excused(what) /\ Silent(wire, 1, Len(wire), what)
        <5>1. last_wco' = last_wco
          BY <1>7 DEF Unplug, caches
        <5>2. ~unheard /\ (\A i \in DOMAIN wire : ~Names(wire[i], "offset"))
              /\ last_wco # Unknown
          BY <2>3, <3>1, <4>1, <5>1 DEF Excused
        <5> QED
          BY <1>1, <2>3, <5>2 DEF Excused, Silent, Tells
      <4> QED
        BY <2>1, <3>1, <4>1, LinesLost DEF controller
    <3>2. CASE untold' = {"offset"}
      BY <2>1, <2>3, <3>2, LinesLost
    <3> QED
      BY <1>7, <3>1, <3>2 DEF Unplug
  <2> QED
    BY <2>2, <2>3 DEF Field
<1>8. CASE AskG
  <2> DEFINE l == [kind |-> "[GC:", system |-> now.system]
  <2>1. l \in Line
    BY <1>1 DEF Machine, Line
  <2>2. /\ wire' = Append(wire, l) /\ now' = now /\ untold' = untold
        /\ Last(what)' = Last(what) /\ Excused(what)' = Excused(what)
    BY <1>8 DEF AskG, controller, caches, Last, Excused
  <2>3. l.kind # "<" /\ (Tells(l, what) => Value(l, what) = now[what])
    BY DEF Tells, Names, Value
  <2> HIDE DEF l
  <2> QED
    BY <1>1, <2>1, <2>2, <2>3, LineMore
<1>9. CASE Parse
  <2> DEFINE r == Head(wire)
  <2>1. /\ wire # << >> /\ wire' = Tail(wire) /\ now' = now /\ untold' = untold
        /\ r.kind = "<" /\ mounted' = mounted /\ seeded' = seeded
        /\ last_wco' = (IF Names(r, "offset") THEN r.is.offset ELSE last_wco)
        /\ last_wcs' = (IF Names(r, "system") THEN r.is.system ELSE last_wcs)
        /\ unheard' = (unheard /\ ~Names(r, "offset"))
    BY <1>9 DEF Parse, controller, Wco, Wcs
  <2> HIDE DEF r
  <2>2. Tells(r, what) => Last(what)' = Value(r, what)
    BY <2>1 DEF Tells, Value, Last, Field
  <2>3. ~Tells(r, what) => Last(what)' = Last(what) /\ (Excused(what) => Excused(what)')
    BY <2>1 DEF Tells, Last, Excused, Field
  <2> QED
    BY <1>1, <2>1, <2>2, <2>3, LineLess DEF r
<1>10. CASE ParseGC
  <2> DEFINE g == Head(wire)
  <2>1. /\ wire # << >> /\ wire' = Tail(wire) /\ now' = now /\ untold' = untold
        /\ g.kind = "[GC:" /\ last_wco' = last_wco /\ unheard' = unheard
        /\ last_wcs' = g.system
    BY <1>10 DEF ParseGC, controller, Seed
  <2> HIDE DEF g
  <2>2. Tells(g, what) <=> what = "system"
    BY <2>1 DEF Tells, Names
  <2>3. Tells(g, what) => Last(what)' = Value(g, what)
    BY <2>1, <2>2 DEF Value, Last
  <2>4. ~Tells(g, what) => Last(what)' = Last(what) /\ (Excused(what) => Excused(what)')
    BY <2>1, <2>2 DEF Last, Excused, Field
  <2> QED
    BY <1>1, <2>1, <2>3, <2>4, LineLess DEF g
<1>11. CASE SetAlarm
  <2> DEFINE e == Head(wire)
  <2>1. /\ wire # << >> /\ wire' = Tail(wire) /\ now' = now /\ untold' = untold
        /\ e.kind = "error" /\ Last(what)' = Last(what) /\ Excused(what)' = Excused(what)
    BY <1>11 DEF SetAlarm, controller, caches, Last, Excused
  <2> HIDE DEF e
  <2>2. ~Tells(e, what)
    BY <2>1 DEF Tells, Names
  <2> QED
    BY <1>1, <2>1, <2>2, LineLess DEF e
<1>12. CASE Send \/ PushStatus \/ Enter \/ Store \/ OtherLine \/ FlagStall \/ Command
            \/ GetState \/ GetLog
  BY <1>2, <1>12 DEF Send, PushStatus, Enter, Store, OtherLine, FlagStall, Command, GetState,
                     GetLog, controller, caches
<1>13. CASE UNCHANGED vars
  BY <1>2, <1>13 DEF vars
<1> QED
  BY <1>3, <1>4, <1>5, <1>6, <1>7, <1>8, <1>9, <1>10, <1>11, <1>12, <1>13
  DEF Next, Controller, Core1, Core0

\* A parsed report shows what the controller was in, and the state is the last one parsed.
LEMMA ShownStep ==
  ASSUME Typed, [Next]_vars, Followed("offset"), Followed("system"), Shown(ns), Shown(state)
  PROVE  Shown(ns)' /\ Shown(state)'
<1>1. wire \in Seq(Line) /\ (~mounted => wire = << >>) /\ state \in Parsed
  BY DEF Typed, Scalars
<1>2. CASE UNCHANGED <<ns, state>>
  BY <1>2 DEF Shown
<1>3. CASE Parse
  <2> DEFINE r == Head(wire)
  <2>1. /\ wire # << >> /\ r.kind = "<" /\ mounted /\ state' = state
        /\ ns'.offset = last_wco' /\ ns'.system = last_wcs' /\ ns'.of = r.is
        /\ ns'.unheard = unheard' /\ ns'.seeded = seeded
        /\ last_wco' = (IF Names(r, "offset") THEN r.is.offset ELSE last_wco)
        /\ last_wcs' = (IF Names(r, "system") THEN r.is.system ELSE last_wcs)
        /\ unheard' = (unheard /\ ~Names(r, "offset"))
    BY <1>1, <1>3 DEF Parse, Wco, Wcs
  <2>2. ~Names(r, "offset") /\ last_wco # Unknown /\ ~unheard => last_wco = r.is.offset
    <3> SUFFICES ASSUME ~Names(r, "offset"), last_wco # Unknown, ~unheard
                 PROVE  last_wco = r.is.offset
      OBVIOUS
    <3>1. ~Tells(Head(wire), "offset") /\ ~Excused("offset")
      BY DEF Tells, Excused
    <3>2. Last("offset") = Head(wire).is["offset"]
      BY <1>1, <2>1, <3>1, FirstReport DEF Field
    <3> QED
      BY <3>2 DEF Last
  <2>3. ~Names(r, "system") /\ seeded => last_wcs = r.is.system
    <3> SUFFICES ASSUME ~Names(r, "system"), seeded
                 PROVE  last_wcs = r.is.system
      OBVIOUS
    <3>1. ~Tells(Head(wire), "system") /\ ~Excused("system")
      BY <2>1 DEF Tells, Excused
    <3>2. Last("system") = Head(wire).is["system"]
      BY <1>1, <2>1, <3>1, FirstReport DEF Field
    <3> QED
      BY <3>2 DEF Last
  <2> HIDE DEF r
  <2> QED
    BY <2>1, <2>2, <2>3 DEF Shown
<1>4. CASE Store
  BY <1>4 DEF Store, Shown
<1>5. CASE Unplug \/ FlagStall
  <2>1. state' = [state EXCEPT !.word = "Disconnected"] /\ ns' = ns
    BY <1>5 DEF Unplug, FlagStall, Disconnected, parser
  <2>2. /\ state'.offset = state.offset /\ state'.system = state.system
        /\ state'.of = state.of /\ state'.unheard = state.unheard
        /\ state'.seeded = state.seeded
    BY <1>1, <2>1 DEF Parsed
  <2> QED
    BY <2>1, <2>2 DEF Shown
<1>6. CASE Changes \/ Reports \/ Complains \/ Mount \/ AskG \/ Send \/ PushStatus \/ Enter
           \/ ParseGC \/ SetAlarm \/ OtherLine \/ Command \/ GetState \/ GetLog
  BY <1>2, <1>6 DEF Changes, Reports, Complains, Mount, AskG, Send, PushStatus, Enter,
                    ParseGC, SetAlarm, OtherLine, Command, GetState, GetLog, parser
<1>7. CASE UNCHANGED vars
  BY <1>2, <1>7 DEF vars, parser
<1> QED
  BY <1>3, <1>4, <1>5, <1>6, <1>7 DEF Next, Controller, Core1, Core0

\* Nothing the reports say of the machine's state goes without its line in the log, and no
\* answer shows more of the one than of the other.
LEMMA LoggedStep ==
  ASSUME Typed, [Next]_vars, Logged
  PROVE  Logged'
<1>1. /\ pushed \in Nat /\ status_line \in Nat /\ state \in Parsed /\ ns \in Parsed
      /\ state.line \in Nat /\ ns.line \in Nat
      /\ page \in [at : {"idle", "log", "done"}, needs : Nat, lines : SUBSET Nat]
      /\ page.needs \in Nat
      /\ step \in {"idle", "push", "enter", "store"}
  BY DEF Typed, Scalars, Parsed
<1>2. CASE UNCHANGED <<step, ns, state, last_status_word, log, page>>
  BY <1>2 DEF Logged, log
<1>3. CASE Parse
  <2> DEFINE r == Head(wire)
  <2>1. /\ step = "idle" /\ last_status_word' = r.is.word /\ ns'.word = r.is.word
        /\ ns'.line = (IF IsLogged(r.is.word) THEN pushed + 1 ELSE status_line)
        /\ step' = (IF IsLogged(r.is.word) THEN "push" ELSE "enter")
        /\ state' = state /\ pushed' = pushed /\ status_line' = status_line
        /\ logged_word' = logged_word /\ page' = page
    BY <1>3 DEF Parse, WordAfter, log
  <2>2. CASE IsLogged(r.is.word)
    BY <1>1, <2>1, <2>2 DEF Logged
  <2>3. CASE ~IsLogged(r.is.word)
    <3>1. last_status_word = Unknown \/ last_status_word = r.is.word
      BY <2>3 DEF IsLogged
    <3>2. logged_word # Unknown => logged_word = last_status_word
      BY <2>1 DEF Logged
    <3> QED
      BY <1>1, <2>1, <2>3, <3>1, <3>2 DEF Logged
  <2> QED
    BY <2>2, <2>3
<1>4. CASE PushStatus
  <2>1. /\ step = "push" /\ step' = "enter" /\ pushed' = pushed + 1 /\ status_line' = pushed + 1
        /\ logged_word' = ns.word
        /\ ns' = ns /\ state' = state /\ last_status_word' = last_status_word /\ page' = page
    BY <1>4 DEF PushStatus, caches
  <2>2. /\ logged_word' = last_status_word' /\ ns'.line <= pushed' /\ state'.line <= pushed'
        /\ status_line' <= pushed'
        /\ (page'.at = "log" => page'.needs <= pushed')
    BY <1>1, <2>1 DEF Logged
  <2> QED
    BY <1>1, <2>1, <2>2 DEF Logged
<1>5. CASE Enter
  BY <1>1, <1>5 DEF Enter, Logged, caches, log
<1>6. CASE Store
  BY <1>1, <1>6 DEF Store, Logged, caches, log
<1>7. CASE Unplug \/ FlagStall
  <2>1. /\ state'.line = state.line
        /\ UNCHANGED <<step, ns, last_status_word, pushed, status_line, logged_word, page>>
    BY <1>1, <1>7 DEF Unplug, FlagStall, Disconnected, parser, caches, log, Parsed
  <2> QED
    BY <2>1 DEF Logged
<1>8. CASE GetState
  <2>1. /\ page'.at = "log" /\ page'.needs = state.line
        /\ UNCHANGED <<step, ns, state, last_status_word, pushed, status_line, logged_word>>
    BY <1>1, <1>8 DEF GetState, parser, caches, log
  <2> QED
    BY <2>1 DEF Logged
<1>9. CASE GetLog
  <2>1. /\ page'.at = "done" /\ page'.needs = page.needs
        /\ page'.lines = {n \in 1 .. pushed : pushed < n + WINDOW}
        /\ page.at = "log"
        /\ UNCHANGED <<step, ns, state, last_status_word, pushed, status_line, logged_word>>
    BY <1>1, <1>9 DEF GetLog, LogNow, parser, caches, log
  <2>2. page'.needs <= pushed
    BY <2>1 DEF Logged
  <2> QED
    BY <1>1, <2>1, <2>2 DEF Logged
<1>10. CASE Send \/ ParseGC \/ SetAlarm \/ OtherLine
  <2>1. /\ pushed' = pushed + 1 /\ step = "idle"
        /\ UNCHANGED <<step, ns, state, last_status_word, status_line, logged_word, page>>
    BY <1>10 DEF Send, ParseGC, SetAlarm, OtherLine, FilteredPush, parser, caches
  <2>2. /\ status_line' <= pushed' /\ state'.line <= pushed'
        /\ (page'.at = "log" => page'.needs <= pushed')
    BY <1>1, <2>1 DEF Logged
  <2> QED
    BY <2>1, <2>2 DEF Logged
<1>11. CASE Changes \/ Reports \/ Complains \/ Mount \/ AskG \/ Command
  BY <1>2, <1>11 DEF Changes, Reports, Complains, Mount, AskG, Command, parser, caches
<1>12. CASE UNCHANGED vars
  BY <1>2, <1>12 DEF vars, parser, caches
<1> QED
  BY <1>3, <1>4, <1>5, <1>6, <1>7, <1>8, <1>9, <1>10, <1>11, <1>12
  DEF Next, Controller, Core1, Core0

\* While the mutex is held nobody else touches the alarm.
LEMMA AlarmStep ==
  ASSUME [Next]_vars, AlarmKept
  PROVE  /\ AlarmKept'
         /\ alarm' # alarm => SetAlarm \/ Command
<1>1. CASE UNCHANGED <<step, alarm, alarm_keep>>
  BY <1>1 DEF AlarmKept
<1>2. CASE Parse \/ PushStatus
  BY <1>2 DEF Parse, PushStatus, AlarmKept
<1>3. CASE Enter
  BY <1>3 DEF Enter, AlarmKept
<1>4. CASE Store
  BY <1>4 DEF Store, AlarmKept
<1>5. CASE SetAlarm
  BY <1>5 DEF SetAlarm, AlarmKept, parser
<1>6. CASE Command
  BY <1>6 DEF Command, MutexFree, AlarmKept, parser
<1>7. CASE Changes \/ Reports \/ Complains \/ Mount \/ Unplug \/ AskG \/ Send
           \/ ParseGC \/ OtherLine \/ FlagStall \/ GetState \/ GetLog
  BY <1>1, <1>7 DEF Changes, Reports, Complains, Mount, Unplug, AskG, Send, ParseGC, OtherLine,
                    FlagStall, GetState, GetLog, parser
<1>8. CASE UNCHANGED vars
  BY <1>1, <1>8 DEF vars, parser
<1> QED
  BY <1>2, <1>3, <1>4, <1>5, <1>6, <1>7, <1>8 DEF Next, Controller, Core1, Core0

LEMMA StatusInit ==
  ASSUME Init
  PROVE  StatusInv
<1>1. Scalars
  <2>1. ns \in Parsed
    <3>1. now \in Machine
      BY StatusAssumption DEF Init, Machine
    <3>2. ns = [word |-> Unknown, offset |-> Unknown, system |-> Unknown, of |-> now,
                unheard |-> FALSE, seeded |-> FALSE, line |-> 0]
      BY DEF Init
    <3> QED
      BY <3>1, <3>2 DEF Parsed
  <2>2. 0 \in 0 .. MaxErrors
    BY StatusAssumption
  <2> QED
    BY <2>1, <2>2, StatusAssumption DEF Init, Scalars, Machine
<1>2. Typed
  <2>1. 0 \in 0 .. MaxErrors
    BY StatusAssumption
  <2>2. used \in Uses
    BY <2>1 DEF Init, Uses
  <2>3. << >> \in Seq(Line)
    OBVIOUS
  <2> QED
    BY <1>1, <2>2, <2>3 DEF Init, Typed
<1>3. ASSUME NEW what \in Field
      PROVE  Followed(what)
  <2>1. \A v : Chained(<< >>, what) /\ Starts(<< >>, what, v) /\ Finishes(<< >>, what, v)
    BY DEF Chained, Starts, Finishes
  <2>2. wire = << >> /\ Excused(what)
    BY DEF Init, Excused
  <2> QED
    BY <2>1, <2>2 DEF Followed
<1>4. Shown(ns) /\ Shown(state) /\ Logged /\ AlarmKept
  BY DEF Init, Shown, Logged, AlarmKept
<1> QED
  BY <1>2, <1>3, <1>4 DEF StatusInv, Field

LEMMA StatusInvariant == Spec => []StatusInv
<1>1. Init => StatusInv
  BY StatusInit
<1>2. StatusInv /\ [Next]_vars => StatusInv'
  <2> SUFFICES ASSUME StatusInv, [Next]_vars PROVE StatusInv'
    OBVIOUS
  <2>1. /\ Typed /\ Followed("offset") /\ Followed("system") /\ Shown(ns) /\ Shown(state)
        /\ Logged /\ AlarmKept
    BY DEF StatusInv
  <2>2. Typed'
    BY <2>1, TypedStep
  <2>3. Followed("offset")' /\ Followed("system")'
    BY <2>1, FollowedStep DEF Field
  <2>4. Shown(ns)' /\ Shown(state)'
    BY <2>1, ShownStep
  <2>5. Logged' /\ AlarmKept'
    BY <2>1, LoggedStep, AlarmStep
  <2> QED
    BY <2>2, <2>3, <2>4, <2>5 DEF StatusInv
<1> QED
  BY <1>1, <1>2, PTL DEF Spec
-------------------------------------------------------------------------------
\* The offset work positions are computed with is the one that was in force.
THEOREM OffsetIsRight == Spec => []OffsetInForce
<1>1. StatusInv => OffsetInForce
  BY DEF StatusInv, Shown, OffsetInForce
<1> QED
  BY <1>1, StatusInvariant, PTL

\* The coordinate system shown is the controller's, from the answer to $G on.
THEOREM SystemIsRight == Spec => []SystemInForce
<1>1. StatusInv => SystemInForce
  BY DEF StatusInv, Shown, SystemInForce
<1> QED
  BY <1>1, StatusInvariant, PTL

\* No change of the machine's state goes unlogged.
THEOREM LogFollowsStatus == Spec => []LogTellsStatus
<1>1. StatusInv => LogTellsStatus
  BY TypedIsTypeOK DEF StatusInv, Logged, LogTellsStatus
<1> QED
  BY <1>1, StatusInvariant, PTL

\* An answer has the log line of the state it shows, or as many newer ones as it has place for.
THEOREM LogIsNotBehind == Spec => []LogExplainsStatus
<1>1. StatusInv => LogExplainsStatus
  <2> SUFFICES ASSUME StatusInv, page.at = "done", page.needs # 0, page.needs \notin page.lines
               PROVE  Cardinality(page.lines) = WINDOW /\ \A n \in page.lines : page.needs < n
    BY DEF LogExplainsStatus
  <2> DEFINE k == page.needs
  <2>1. k \in Nat /\ k >= 1 /\ WINDOW \in Nat /\ WINDOW >= 1
    BY StatusAssumption DEF StatusInv, Typed, Scalars
  <2>2. PICK u \in Nat : k <= u /\ page.lines = {n \in 1 .. u : u < n + WINDOW}
    BY DEF StatusInv, Logged
  <2> HIDE DEF k
  <2>3. k + WINDOW <= u
    BY <2>1, <2>2 DEF k
  <2>4. {n \in 1 .. u : u < n + WINDOW} = u - WINDOW + 1 .. u
    BY <2>1, <2>3
  <2>5. Cardinality(u - WINDOW + 1 .. u) = WINDOW
    <3>1. u - WINDOW + 1 \in Int /\ u - WINDOW + 1 <= u /\ u - (u - WINDOW + 1) + 1 = WINDOW
      BY <2>1
    <3> HIDE DEF k
    <3> QED
      BY <3>1, FS_Interval
  <2>6. \A n \in u - WINDOW + 1 .. u : k < n
    BY <2>1, <2>3
  <2> QED
    BY <2>2, <2>4, <2>5, <2>6 DEF k
<1> QED
  BY <1>1, StatusInvariant, PTL

\* A report stored meanwhile neither loses an alarm nor brings a dismissed one back.
THEOREM AlarmIsNotLost == Spec => AlarmIsTheUsers
<1>1. StatusInv /\ [Next]_vars => [alarm' # alarm => SetAlarm \/ Command]_vars
  BY AlarmStep DEF StatusInv
<1>2. Spec => [][alarm' # alarm => SetAlarm \/ Command]_vars
  BY <1>1, StatusInvariant, PTL DEF Spec
<1> QED
  BY <1>2 DEF AlarmIsTheUsers
-------------------------------------------------------------------------------
(* How the lines that reports come in are cut from what is received. *)

\* The text before p of the line that a character at p of the received r belongs to.
Text(r, p) ==
    {q \in 1 .. p - 1 :
        r[q] = "text" /\ \A e \in q .. p - 1 : r[e] \notin {"newline", "mount", "unmount"}}

\* All text of the line under way.
Unfinished(r) == Text(r, Len(r) + 1)

\* A piece's last character.
LastOf(s) == s[Len(s)]

\* A piece is the text of one line from its first to its last character.
Piece(r, s) ==
    /\ s # <<>>
    /\ s \in Seq(1 .. Len(r))
    /\ Chars(s) = {LastOf(s)} \cup (Text(r, LastOf(s)) \cap s[1] .. LastOf(s))

\* A sequence in the order of what it numbers.
Rising(s) == \A i, j \in DOMAIN s : i < j => s[i] < s[j]

\* The buffer is the text of the line under way from some character on, and from the first
\* on unless that line is too long for it.
Buffered(r, s) ==
    /\ s \in Seq(1 .. Len(r))
    /\ Rising(s) /\ Cardinality(Chars(s)) = Len(s)
    /\ s # <<>> => Chars(s) = {q \in Unfinished(r) : q >= s[1]}
    /\ Chars(s) = Unfinished(r) \/ Cardinality(Unfinished(r)) >= LINE_BUF_LEN

\* What was handed over, piece after piece.
Handed(r, ls) ==
    /\ \A n \in DOMAIN ls : Piece(r, ls[n])
    /\ \A m, n \in DOMAIN ls : m < n => LastOf(ls[m]) < ls[n][1]

\* What is in the buffer came after all that.
Behind(ls, s) == s # <<>> => \A n \in DOMAIN ls : LastOf(ls[n]) < s[1]

\* A line that has ended and fits line_buf is among what was handed over.
Whole(r, ls) ==
    \A p \in DOMAIN r :
        r[p] = "newline" /\ Cardinality(Text(r, p)) \in 1 .. LINE_BUF_LEN - 1
        => \E n \in DOMAIN ls : Chars(ls[n]) = Text(r, p)

\* The inductive invariant.
AssemblyInv ==
    /\ AssemblyTypeOK
    /\ Buffered(received, line_buf)
    /\ Handed(received, lines)
    /\ Behind(lines, line_buf)
    /\ Whole(received, lines)

\* What came before p does not change with what is received.
LEMMA TextKept ==
  ASSUME NEW r \in Seq(Events), NEW x \in Events, NEW p \in 1 .. Len(r) + 1
  PROVE  Text(Append(r, x), p) = Text(r, p)
<1>1. \A q \in 1 .. p - 1 : Append(r, x)[q] = r[q]
  BY AppendProperties
<1>2. \A q \in 1 .. p - 1 : \A e \in q .. p - 1 : Append(r, x)[e] = r[e]
  BY <1>1
<1> QED
  BY <1>1, <1>2 DEF Text

\* What a received character does to the text of the line under way.
LEMMA TextGrows ==
  ASSUME NEW r \in Seq(Events), NEW x \in Events
  PROVE  Unfinished(Append(r, x)) =
            IF x \in {"newline", "mount", "unmount"} THEN {}
            ELSE IF x = "text" THEN Unfinished(r) \cup {Len(r) + 1} ELSE Unfinished(r)
<1> DEFINE a == Append(r, x)
           n == Len(r)
<1>1. n \in Nat /\ Len(a) = n + 1 /\ a[n + 1] = x /\ \A q \in 1 .. n : a[q] = r[q]
  BY AppendProperties
<1>2. Unfinished(a) = {q \in 1 .. n + 1 :
          a[q] = "text" /\ \A e \in q .. n + 1 : a[e] \notin {"newline", "mount", "unmount"}}
  BY <1>1 DEF Unfinished, Text
<1>3. Unfinished(r) = {q \in 1 .. n :
          r[q] = "text" /\ \A e \in q .. n : r[e] \notin {"newline", "mount", "unmount"}}
  BY <1>1 DEF Unfinished, Text
<1> HIDE DEF a, n
<1>4. \A q \in 1 .. n + 1 : n + 1 \in q .. n + 1
  BY <1>1
<1>5. CASE x \in {"newline", "mount", "unmount"}
  BY <1>1, <1>2, <1>4, <1>5 DEF a
<1>6. CASE x \notin {"newline", "mount", "unmount"}
  <2>1. \A q \in 1 .. n : a[q] = "text" <=> r[q] = "text"
    BY <1>1
  <2>2. \A q \in 1 .. n :
          (\A e \in q .. n + 1 : a[e] \notin {"newline", "mount", "unmount"})
          <=> (\A e \in q .. n : r[e] \notin {"newline", "mount", "unmount"})
    <3>1. \A q \in 1 .. n : q .. n + 1 = (q .. n) \cup {n + 1}
      BY <1>1
    <3>2. \A q \in 1 .. n : \A e \in q .. n : a[e] = r[e]
      BY <1>1
    <3> QED
      BY <1>1, <1>6, <3>1, <3>2
  <2>3. \A q : q \in Unfinished(a) <=>
          \/ q \in Unfinished(r)
          \/ q = n + 1 /\ x = "text"
    <3>1. \A q : q \in 1 .. n + 1 <=> q \in 1 .. n \/ q = n + 1
      BY <1>1
    <3>2. n + 1 \in Unfinished(a) <=> x = "text"
      <4>1. \A e \in n + 1 .. n + 1 : e = n + 1
        BY <1>1
      <4> QED
        BY <1>1, <1>2, <1>6, <4>1
    <3>3. n + 1 \notin 1 .. n
      BY <1>1
    <3> QED
      BY <1>2, <1>3, <2>1, <2>2, <3>1, <3>2, <3>3
  <2> QED
    BY <1>6, <2>3 DEF a, n
<1> QED
  BY <1>5, <1>6

\* A text is a finite set of positions.
LEMMA TextFinite ==
  ASSUME NEW r \in Seq(Events), NEW p \in 1 .. Len(r) + 1
  PROVE  /\ Text(r, p) \subseteq 1 .. p - 1
         /\ IsFiniteSet(Text(r, p)) /\ Cardinality(Text(r, p)) \in Nat
<1>1. Text(r, p) \subseteq 1 .. p - 1
  BY DEF Text
<1>2. IsFiniteSet(1 .. p - 1)
  BY FS_Interval
<1> QED
  BY <1>1, <1>2, FS_Subset, FS_CardinalityType

\* The characters of a longer buffer.
LEMMA CharsAppend ==
  ASSUME NEW S, NEW s \in Seq(S), NEW x \in S
  PROVE  Chars(Append(s, x)) = Chars(s) \cup {x}
<1>1. Len(s) \in Nat /\ DOMAIN s = 1 .. Len(s) /\ DOMAIN Append(s, x) = 1 .. Len(s) + 1
  BY AppendProperties, LenProperties
<1>2. \A i \in 1 .. Len(s) : Append(s, x)[i] = s[i]
  BY AppendProperties
<1>3. Append(s, x)[Len(s) + 1] = x
  BY AppendProperties
<1>4. \A i : i \in 1 .. Len(s) + 1 <=> i \in 1 .. Len(s) \/ i = Len(s) + 1
  BY <1>1
<1> QED
  BY <1>1, <1>2, <1>3, <1>4 DEF Chars

\* The empty buffer suits a received text in which the line under way has no text, or too much.
LEMMA EmptyBuffer ==
  ASSUME NEW r \in Seq(Events),
         Unfinished(r) = {} \/ Cardinality(Unfinished(r)) >= LINE_BUF_LEN
  PROVE  Buffered(r, <<>>)
<1>1. Chars(<<>>) = {}
  BY DEF Chars
<1>2. <<>> \in Seq(1 .. Len(r)) /\ Len(<<>>) = 0 /\ Rising(<<>>)
  BY DEF Rising
<1> QED
  BY <1>1, <1>2, FS_EmptySet DEF Buffered

\* Positions of what was received stay positions.
LEMMA PositionsGrow ==
  ASSUME NEW r \in Seq(Events), NEW x \in Events, NEW s \in Seq(1 .. Len(r))
  PROVE  s \in Seq(1 .. Len(Append(r, x)))
<1>1. 1 .. Len(r) \subseteq 1 .. Len(Append(r, x))
  BY AppendProperties, LenProperties
<1> QED
  BY <1>1, SeqDef

\* A character that is put into the buffer continues the text there.
LEMMA BufferTakesText ==
  ASSUME NEW r \in Seq(Events), NEW s, Buffered(r, s), "text" \in Events
  PROVE  Buffered(Append(r, "text"), Append(s, Len(r) + 1))
<1> DEFINE n == Len(r)
           a == Append(r, "text")
           t == Append(s, n + 1)
           C == Chars(s)
           U == Unfinished(r)
<1>1. n \in Nat /\ Len(a) = n + 1
  BY LenProperties, AppendProperties
<1>2. s \in Seq(1 .. n + 1) /\ s \in Seq(1 .. n)
  BY <1>1, PositionsGrow DEF Buffered
<1>3. t \in Seq(1 .. Len(a))
  BY <1>1, <1>2, AppendProperties
<1>4. Len(s) \in Nat /\ Len(t) = Len(s) + 1 /\ t[Len(s) + 1] = n + 1
      /\ (\A i \in 1 .. Len(s) : t[i] = s[i] /\ s[i] \in 1 .. n)
      /\ DOMAIN t = 1 .. Len(s) + 1 /\ DOMAIN s = 1 .. Len(s)
  BY <1>1, <1>2, AppendProperties, LenProperties, ElementOfSeq
<1>5. Chars(t) = C \cup {n + 1}
  BY <1>1, <1>2, CharsAppend
<1>6. Unfinished(a) = U \cup {n + 1}
  BY TextGrows
<1>7. U \subseteq 1 .. n /\ IsFiniteSet(U) /\ Cardinality(U) \in Nat
  BY <1>1, TextFinite DEF Unfinished
<1>8. C \subseteq 1 .. n
  BY <1>4 DEF Chars
<1>9. Rising(s) /\ Cardinality(C) = Len(s)
      /\ (s # <<>> => C = {q \in U : q >= s[1]})
      /\ (C = U \/ Cardinality(U) >= LINE_BUF_LEN)
  BY DEF Buffered
<1>10. Rising(t)
  <2> HIDE DEF t, n
  <2> SUFFICES ASSUME NEW i \in DOMAIN t, NEW j \in DOMAIN t, i < j PROVE t[i] < t[j]
    BY DEF Rising
  <2>1. i \in 1 .. Len(s)
    BY <1>4
  <2>2. CASE j \in 1 .. Len(s)
    BY <1>4, <1>9, <2>1, <2>2 DEF Rising
  <2>3. CASE j = Len(s) + 1
    BY <1>1, <1>4, <2>1, <2>3
  <2> QED
    BY <1>4, <2>2, <2>3
<1> HIDE DEF C, U
<1>11. Cardinality(C \cup {n + 1}) = Len(s) + 1
  <2>1. n + 1 \notin C
    BY <1>1, <1>8
  <2>2. IsFiniteSet(1 .. n)
    BY <1>1, FS_Interval
  <2>3. IsFiniteSet(C)
    BY <1>8, <2>2, FS_Subset
  <2> QED
    BY <1>9, <2>1, <2>3, FS_AddElement
<1>12. t # <<>> /\ C \cup {n + 1} = {q \in U \cup {n + 1} : q >= t[1]}
  <2>0. t # <<>>
    <3>1. Len(t) # 0
      BY <1>4
    <3> HIDE DEF t
    <3> QED
      BY <3>1
  <2>1. CASE s = <<>>
    <3>1. C = {} /\ t[1] = n + 1
      BY <1>4, <2>1 DEF C, Chars
    <3>2. \A q \in U : ~(q >= n + 1)
      BY <1>1, <1>7
    <3> HIDE DEF t
    <3>3. n + 1 >= n + 1
      BY <1>1
    <3> QED
      BY <2>0, <3>1, <3>2, <3>3
  <2>2. CASE s # <<>>
    <3>0. Len(s) # 0
      BY <1>2, <2>2, EmptySeq
    <3>1. t[1] = s[1] /\ s[1] \in 1 .. n
      BY <1>4, <3>0
    <3>2. n + 1 >= s[1]
      BY <1>1, <3>1
    <3> HIDE DEF t
    <3> QED
      BY <1>9, <2>0, <2>2, <3>1, <3>2
  <2> QED
    BY <2>1, <2>2
<1>13. C \cup {n + 1} = U \cup {n + 1} \/ Cardinality(U \cup {n + 1}) >= LINE_BUF_LEN
  <2>1. CASE C = U
    BY <2>1
  <2>2. CASE Cardinality(U) >= LINE_BUF_LEN
    <3>1. n + 1 \notin U
      BY <1>1, <1>7
    <3>2. Cardinality(U \cup {n + 1}) = Cardinality(U) + 1
      BY <1>7, <3>1, FS_AddElement
    <3>3. LINE_BUF_LEN \in Nat
      BY LengthsAssumption
    <3> QED
      BY <1>7, <2>2, <3>2, <3>3
  <2> QED
    BY <1>9, <2>1, <2>2
<1> HIDE DEF a, n, t
<1> QED
  BY <1>3, <1>4, <1>5, <1>6, <1>10, <1>11, <1>12, <1>13 DEF Buffered, a, n, t

\* A carriage return is no text.
LEMMA BufferIgnores ==
  ASSUME NEW r \in Seq(Events), NEW s, Buffered(r, s), "cr" \in Events
  PROVE  Buffered(Append(r, "cr"), s)
<1>1. Unfinished(Append(r, "cr")) = Unfinished(r)
  BY TextGrows
<1>2. s \in Seq(1 .. Len(Append(r, "cr")))
  BY PositionsGrow DEF Buffered
<1> QED
  BY <1>1, <1>2 DEF Buffered

\* A line of which the buffer is full and one more character came is too long for it.
LEMMA BufferOverflows ==
  ASSUME NEW r \in Seq(Events), NEW s, Buffered(r, s),
         Len(s) >= LINE_BUF_LEN - 1, "text" \in Events
  PROVE  Cardinality(Unfinished(Append(r, "text"))) >= LINE_BUF_LEN
<1> DEFINE n == Len(r)
           C == Chars(s)
           U == Unfinished(r)
<1>1. n \in Nat /\ LINE_BUF_LEN \in Nat
  BY LenProperties, LengthsAssumption
<1>2. Unfinished(Append(r, "text")) = U \cup {n + 1}
  BY TextGrows
<1>3. U \subseteq 1 .. n /\ IsFiniteSet(U) /\ Cardinality(U) \in Nat
  BY <1>1, TextFinite DEF Unfinished
<1>4. Cardinality(U \cup {n + 1}) = Cardinality(U) + 1
  <2>1. n + 1 \notin U
    BY <1>1, <1>3
  <2> QED
    BY <1>3, <2>1, FS_AddElement
<1>5. Cardinality(C) = Len(s) /\ (C = U \/ Cardinality(U) >= LINE_BUF_LEN)
  BY DEF Buffered
<1> HIDE DEF C, U
<1>6. Len(s) \in Nat
  BY LenProperties DEF Buffered
<1>7. Cardinality(U) + 1 >= LINE_BUF_LEN
  BY <1>1, <1>3, <1>5, <1>6
<1> QED
  BY <1>2, <1>4, <1>7

\* A buffer that is handed over is a piece.
LEMMA BufferIsAPiece ==
  ASSUME NEW r \in Seq(Events), NEW s, Buffered(r, s), s # <<>>
  PROVE  Piece(r, s)
<1> DEFINE n == Len(r)
           m == Len(s)
           last == LastOf(s)
<1>1. n \in Nat /\ s \in Seq(1 .. n) /\ m \in Nat /\ DOMAIN s = 1 .. m /\ m # 0
  BY LenProperties, EmptySeq DEF Buffered
<1>2. \A i \in 1 .. m : s[i] \in 1 .. n
  BY <1>1, ElementOfSeq
<1>3. last \in 1 .. n /\ s[1] \in 1 .. n /\ last = s[m]
  BY <1>1, <1>2 DEF LastOf
<1>4. \A i \in 1 .. m : s[i] <= last
  <2> SUFFICES ASSUME NEW i \in 1 .. m PROVE s[i] <= last
    OBVIOUS
  <2>1. CASE i = m
    <3>1. s[i] = last /\ last \in Nat
      BY <1>1, <1>3, <2>1
    <3> HIDE DEF last
    <3> QED
      BY <3>1
  <2>2. CASE i < m
    <3>1. s[i] < s[m]
      BY <1>1, <2>2, SMTT(30) DEF Buffered, Rising
    <3> QED
      BY <1>2, <1>3, <3>1
  <2>3. i = m \/ i < m
    <3> HIDE DEF m
    <3> QED
      BY <1>1
  <2> HIDE DEF m, last
  <2> QED
    BY <2>1, <2>2, <2>3
<1>5. Chars(s) = {q \in Unfinished(r) : q >= s[1]}
  BY DEF Buffered
<1>6. \A q \in Chars(s) : q <= last
  BY <1>1, <1>4 DEF Chars
<1>7. last \in Chars(s)
  BY <1>1, <1>3 DEF Chars
<1>8. Unfinished(r) = {q \in 1 .. n :
          r[q] = "text" /\ \A e \in q .. n : r[e] \notin {"newline", "mount", "unmount"}}
  BY <1>1 DEF Unfinished, Text
<1>9. Text(r, last) = {q \in 1 .. last - 1 :
          r[q] = "text" /\ \A e \in q .. last - 1 : r[e] \notin {"newline", "mount", "unmount"}}
  BY DEF Text
<1> HIDE DEF n, m, last
<1>10. \A e \in last .. n : r[e] \notin {"newline", "mount", "unmount"}
  BY <1>5, <1>7, <1>8
<1>11. ASSUME NEW q \in 1 .. n, q < last
       PROVE  q \in Unfinished(r) <=> q \in Text(r, last)
  <2>1. q \in 1 .. last - 1
    BY <1>1, <1>3, <1>11
  <2>2. \A e : e \in q .. n <=> e \in q .. last - 1 \/ e \in last .. n
    BY <1>1, <1>3, <1>11
  <2> QED
    BY <1>8, <1>9, <1>10, <2>1, <2>2
<1>12. ASSUME NEW q
       PROVE  q \in Chars(s) <=> q = last \/ (q \in Text(r, last) /\ q \in s[1] .. last)
  <2>1. CASE q = last
    BY <1>7, <2>1
  <2>2. CASE q # last
    <3>1. q \in Chars(s) => q \in 1 .. n /\ q < last /\ q >= s[1]
      BY <1>1, <1>3, <1>5, <1>6, <1>8, <2>2
    <3>2. q \in Text(r, last) => q \in 1 .. n /\ q < last
      BY <1>1, <1>3, <1>9
    <3>3. q \in 1 .. n /\ q < last => (q \in s[1] .. last <=> q >= s[1])
      BY <1>1, <1>3
    <3> QED
      BY <1>5, <1>11, <2>2, <3>1, <3>2, <3>3
  <2> QED
    BY <2>1, <2>2
<1>13. Chars(s) = {last} \cup (Text(r, last) \cap s[1] .. last)
  BY <1>12
<1> QED
  BY <1>1, <1>13 DEF Piece, n, last

\* A piece stays one, whatever comes after it.
LEMMA PieceStays ==
  ASSUME NEW r \in Seq(Events), NEW x \in Events, NEW s, Piece(r, s)
  PROVE  Piece(Append(r, x), s)
<1>1. s \in Seq(1 .. Len(r)) /\ Len(s) \in Nat /\ Len(s) # 0 /\ Len(r) \in Nat
  BY LenProperties, EmptySeq DEF Piece
<1>2. LastOf(s) \in 1 .. Len(r)
  BY <1>1, ElementOfSeq DEF LastOf
<1>3. Text(Append(r, x), LastOf(s)) = Text(r, LastOf(s))
  BY <1>1, <1>2, TextKept
<1>4. s \in Seq(1 .. Len(Append(r, x)))
  BY <1>1, PositionsGrow
<1> QED
  BY <1>3, <1>4 DEF Piece

\* Lines found whole are still found, and a line that ends now is the buffer or too long.
LEMMA WholeStays ==
  ASSUME NEW r \in Seq(Events), NEW x \in Events,
         NEW s, Buffered(r, s), NEW S, NEW ls \in Seq(S), Whole(r, ls)
  PROVE  /\ x # "newline" => Whole(Append(r, x), ls)
         /\ s = <<>> => Whole(Append(r, x), ls)
         /\ s \in S => Whole(Append(r, x), Append(ls, s))
<1> DEFINE n == Len(r)
           a == Append(r, x)
           C(p, l) == \E i \in DOMAIN l : Chars(l[i]) = Text(a, p)
           Owed(p) == a[p] = "newline" /\ Cardinality(Text(a, p)) \in 1 .. LINE_BUF_LEN - 1
<1>1. n \in Nat /\ DOMAIN r = 1 .. n /\ DOMAIN a = 1 .. n + 1 /\ a[n + 1] = x
      /\ \A q \in 1 .. n : a[q] = r[q]
  BY LenProperties, AppendProperties
<1>2. \A p \in 1 .. n + 1 : Text(a, p) = Text(r, p)
  BY TextKept
<1>3. \A p \in 1 .. n : Owed(p) => C(p, ls)
  BY <1>1, <1>2 DEF Whole
<1>4. Text(a, n + 1) = Unfinished(r)
  BY <1>1, <1>2 DEF Unfinished
<1>5. Owed(n + 1) => x = "newline" /\ Chars(s) = Unfinished(r) /\ s # <<>>
  <2> SUFFICES ASSUME Owed(n + 1)
               PROVE  x = "newline" /\ Chars(s) = Unfinished(r) /\ s # <<>>
    OBVIOUS
  <2>1. x = "newline" /\ Cardinality(Unfinished(r)) \in 1 .. LINE_BUF_LEN - 1
    BY <1>1, <1>4
  <2>2. LINE_BUF_LEN \in Nat
    BY LengthsAssumption
  <2>3. ~(Cardinality(Unfinished(r)) >= LINE_BUF_LEN) /\ Cardinality(Unfinished(r)) # 0
    BY <2>1, <2>2
  <2>4. Chars(s) = Unfinished(r)
    BY <2>3 DEF Buffered
  <2>5. Chars(<<>>) = {}
    BY DEF Chars
  <2> QED
    BY <2>1, <2>3, <2>4, <2>5, FS_EmptySet
<1>6. \A l : Whole(a, l) <=> \A p \in 1 .. n + 1 : Owed(p) => C(p, l)
  BY <1>1 DEF Whole
<1>7. \A p \in 1 .. n + 1 : p \in 1 .. n \/ p = n + 1
  BY <1>1
<1>8. x # "newline" \/ s = <<>> => Whole(a, ls)
  <2> HIDE DEF C, Owed, a, n
  <2> QED
    BY <1>3, <1>5, <1>6, <1>7
<1>9. ASSUME s \in S PROVE Whole(a, Append(ls, s))
  <2> DEFINE l == Append(ls, s)
  <2>1. Len(ls) \in Nat /\ DOMAIN ls = 1 .. Len(ls) /\ DOMAIN l = 1 .. Len(ls) + 1
        /\ l[Len(ls) + 1] = s /\ \A i \in 1 .. Len(ls) : l[i] = ls[i]
    BY <1>9, LenProperties, AppendProperties
  <2>2. DOMAIN ls \subseteq DOMAIN l /\ Len(ls) + 1 \in DOMAIN l
    BY <2>1
  <2>3. \A p : C(p, ls) => C(p, l)
    BY <2>1, <2>2
  <2>4. Chars(s) = Unfinished(r) => C(n + 1, l)
    BY <1>4, <2>1, <2>2
  <2> HIDE DEF C, Owed, a, n, l
  <2> QED
    BY <1>3, <1>5, <1>6, <1>7, <2>3, <2>4 DEF l
<1> QED
  BY <1>8, <1>9

\* What was handed over stays as it is, and the buffer may be handed over behind it.
LEMMA HandedStays ==
  ASSUME NEW r \in Seq(Events), NEW x \in Events, NEW s, Buffered(r, s),
         NEW S, NEW ls \in Seq(S), Handed(r, ls), Behind(ls, s)
  PROVE  /\ Handed(Append(r, x), ls)
         /\ s # <<>> /\ s \in S => Handed(Append(r, x), Append(ls, s))
         /\ Behind(ls, Append(s, Len(r) + 1))
<1> DEFINE a == Append(r, x)
           n == Len(r)
           k == Len(ls)
<1>1. n \in Nat /\ k \in Nat /\ DOMAIN ls = 1 .. k
  BY LenProperties
<1>2. Handed(a, ls)
  BY PieceStays DEF Handed
<1>3. ASSUME s # <<>>, s \in S PROVE Handed(a, Append(ls, s))
  <2> DEFINE l == Append(ls, s)
  <2>1. DOMAIN l = 1 .. k + 1 /\ l[k + 1] = s /\ \A i \in 1 .. k : l[i] = ls[i]
    BY <1>3, <1>1, AppendProperties
  <2>2. Piece(a, s)
    BY <1>3, BufferIsAPiece, PieceStays
  <2>3. \A i \in 1 .. k + 1 : i \in 1 .. k \/ i = k + 1
    BY <1>1
  <2>4. \A i \in 1 .. k : Piece(a, ls[i]) /\ LastOf(ls[i]) < s[1]
    BY <1>1, <1>2, <1>3 DEF Handed, Behind
  <2>5. \A i, j \in 1 .. k : i < j => LastOf(ls[i]) < ls[j][1]
    BY <1>1 DEF Handed
  <2>6. \A i \in 1 .. k + 1 : ~(k + 1 < i)
    BY <1>1
  <2> HIDE DEF l, a, n, k
  <2>7. \A i \in DOMAIN l : Piece(a, l[i])
    BY <2>1, <2>2, <2>3, <2>4
  <2>8. ASSUME NEW i \in DOMAIN l, NEW j \in DOMAIN l, i < j PROVE LastOf(l[i]) < l[j][1]
    <3>1. i \in 1 .. k
      BY <2>1, <2>3, <2>6, <2>8
    <3>2. CASE j \in 1 .. k
      BY <2>1, <2>5, <2>8, <3>1, <3>2
    <3>3. CASE j = k + 1
      BY <2>1, <2>4, <3>1, <3>3
    <3> QED
      BY <2>1, <2>3, <3>2, <3>3
  <2> QED
    BY <2>7, <2>8 DEF Handed, l
<1>4. Behind(ls, Append(s, n + 1))
  <2> SUFFICES ASSUME NEW i \in DOMAIN ls PROVE LastOf(ls[i]) < Append(s, n + 1)[1]
    BY DEF Behind
  <2>0. s \in Seq(1 .. n) /\ s \in Seq(Nat) /\ Len(s) \in Nat
    <3>1. s \in Seq(1 .. n)
      BY DEF Buffered
    <3>2. 1 .. n \subseteq Nat
      BY <1>1
    <3> QED
      BY <3>1, <3>2, LenProperties, SeqDef
  <2>1. LastOf(ls[i]) \in 1 .. n
    <3>1. ls[i] \in Seq(1 .. n) /\ ls[i] # <<>>
      BY DEF Handed, Piece
    <3>2. Len(ls[i]) \in Nat /\ Len(ls[i]) # 0
      BY <3>1, LenProperties, EmptySeq
    <3> QED
      BY <3>1, <3>2, ElementOfSeq DEF LastOf
  <2>2. CASE s = <<>>
    <3>1. Append(s, n + 1)[1] = n + 1
      BY <1>1, <2>0, <2>2, AppendProperties
    <3> QED
      BY <1>1, <2>1, <3>1
  <2>3. CASE s # <<>>
    <3>1. Len(s) # 0
      BY <2>0, <2>3, EmptySeq
    <3>2. Append(s, n + 1)[1] = s[1]
      BY <1>1, <2>0, <3>1, AppendProperties
    <3> QED
      BY <2>3, <3>2 DEF Behind
  <2> QED
    BY <2>2, <2>3
<1> QED
  BY <1>2, <1>3, <1>4

LEMMA AssemblyBegins == AssemblyInit => AssemblyInv
<1> SUFFICES ASSUME AssemblyInit PROVE AssemblyInv
  OBVIOUS
<1>1. /\ <<>> \in Seq(Events) /\ Len(<<>>) = 0 /\ DOMAIN <<>> = {}
      /\ <<>> \in Seq(1 .. MaxReceived) /\ <<>> \in Seq(Seq(1 .. MaxReceived))
  OBVIOUS
<1>2. AssemblyTypeOK
  <2>1. 0 < LINE_BUF_LEN
    BY LengthsAssumption
  <2> QED
    BY <1>1, <2>1 DEF AssemblyInit, AssemblyTypeOK
<1>3. Unfinished(<<>>) = {}
  BY <1>1 DEF Unfinished, Text
<1>4. Buffered(<<>>, <<>>)
  BY <1>1, <1>3, EmptyBuffer
<1>5. Handed(<<>>, <<>>) /\ Behind(<<>>, <<>>) /\ Whole(<<>>, <<>>)
  BY <1>1 DEF Handed, Behind, Whole
<1> QED
  BY <1>2, <1>4, <1>5 DEF AssemblyInv, AssemblyInit

LEMMA AssemblyKeeps ==
  ASSUME AssemblyInv, [AssemblyNext]_assembly
  PROVE  AssemblyInv'
<1> DEFINE n == Len(received)
           P == Seq(1 .. MaxReceived)
<1>0. /\ received \in Seq(Events) /\ is_mounted \in BOOLEAN
      /\ line_buf \in P /\ lines \in Seq(P) /\ n \in Nat /\ Len(line_buf) < LINE_BUF_LEN
      /\ LINE_BUF_LEN \in Nat \ {0, 1} /\ MaxReceived \in Nat
      /\ {"text", "cr", "newline", "mount", "unmount"} = Events
  BY LenProperties, LengthsAssumption DEF AssemblyInv, AssemblyTypeOK, Events
<1>1. Buffered(received, line_buf) /\ Handed(received, lines) /\ Behind(lines, line_buf)
      /\ Whole(received, lines)
  BY DEF AssemblyInv
<1>2. Behind(lines, <<>>) /\ Behind(Append(lines, line_buf), <<>>)
  BY DEF Behind
<1>e. <<>> \in P /\ Len(<<>>) = 0
  OBVIOUS
<1>3. ASSUME NEW x \in {"mount", "unmount"}, Happens(x), line_buf' = <<>>,
             UNCHANGED lines, is_mounted' \in BOOLEAN
      PROVE  AssemblyInv'
  <2>1. received' = Append(received, x) /\ received' \in Seq(Events)
    BY <1>0, <1>3, AppendProperties DEF Happens
  <2>2. Unfinished(received') = {}
    BY <1>0, <1>3, <2>1, TextGrows
  <2>3. Buffered(received', line_buf')
    BY <1>3, <2>1, <2>2, EmptyBuffer
  <2>4. Handed(received', lines')
    BY <1>0, <1>1, <1>3, <2>1, HandedStays
  <2>5. Whole(received', lines')
    BY <1>0, <1>1, <1>3, <2>1, WholeStays
  <2>6. AssemblyTypeOK'
    BY <1>0, <1>3, <1>e, <2>1 DEF AssemblyTypeOK
  <2> QED
    BY <1>2, <1>3, <2>3, <2>4, <2>5, <2>6 DEF AssemblyInv
<1>4. CASE MountCb
  BY <1>3, <1>4 DEF MountCb
<1>5. CASE UnmountCb
  BY <1>3, <1>5 DEF UnmountCb
<1>6. CASE CarriageReturn
  <2>0. Happens("cr") /\ UNCHANGED <<is_mounted, line_buf, lines>>
    BY <1>6 DEF CarriageReturn
  <2>1. received' = Append(received, "cr") /\ received' \in Seq(Events)
    BY <1>0, <2>0, AppendProperties DEF Happens
  <2>3. Buffered(received', line_buf')
    BY <1>0, <1>1, <2>0, <2>1, BufferIgnores
  <2>4. Handed(received', lines')
    BY <1>0, <1>1, <2>0, <2>1, HandedStays
  <2>5. Whole(received', lines')
    BY <1>0, <1>1, <2>0, <2>1, WholeStays
  <2>6. AssemblyTypeOK'
    BY <1>0, <2>0, <2>1 DEF AssemblyTypeOK
  <2> QED
    BY <1>1, <2>0, <2>3, <2>4, <2>5, <2>6 DEF AssemblyInv
<1>7. ASSUME NEW x \in {"text", "newline"}, Happens(x), HandOver,
             line_buf # <<>>, UNCHANGED is_mounted,
             x = "text" => BufferFull
      PROVE  AssemblyInv'
  <2>0. line_buf' = <<>> /\ lines' = Append(lines, line_buf) /\ lines' \in Seq(P)
    BY <1>0, <1>7, AppendProperties DEF HandOver
  <2>1. received' = Append(received, x) /\ received' \in Seq(Events)
    BY <1>0, <1>7, AppendProperties DEF Happens
  <2>2. Unfinished(received') = {} \/ Cardinality(Unfinished(received')) >= LINE_BUF_LEN
    <3>1. CASE x = "newline"
      BY <1>0, <2>1, <3>1, TextGrows
    <3>2. CASE x = "text"
      <4>1. Len(line_buf) >= LINE_BUF_LEN - 1
        BY <1>7, <3>2 DEF BufferFull
      <4> QED
        BY <1>0, <1>1, <2>1, <3>2, <4>1, BufferOverflows
    <3> QED
      BY <3>1, <3>2
  <2>3. Buffered(received', line_buf')
    BY <2>0, <2>1, <2>2, EmptyBuffer
  <2>4. Handed(received', lines')
    BY <1>0, <1>1, <1>7, <2>0, <2>1, HandedStays
  <2>5. Whole(received', lines')
    BY <1>0, <1>1, <1>7, <2>0, <2>1, WholeStays
  <2>6. AssemblyTypeOK'
    BY <1>0, <1>7, <1>e, <2>0, <2>1 DEF AssemblyTypeOK
  <2> QED
    BY <1>2, <2>0, <2>3, <2>4, <2>5, <2>6 DEF AssemblyInv
<1>8. CASE LineFeed
  <2>0. Happens("newline") /\ EndLine /\ UNCHANGED is_mounted
    BY <1>8 DEF LineFeed
  <2>1. CASE line_buf # <<>>
    BY <1>7, <2>0, <2>1 DEF EndLine
  <2>2. CASE line_buf = <<>>
    <3>0. UNCHANGED <<line_buf, lines>>
      BY <2>0, <2>2 DEF EndLine
    <3>1. received' = Append(received, "newline") /\ received' \in Seq(Events)
      BY <1>0, <2>0, AppendProperties DEF Happens
    <3>2. Unfinished(received') = {}
      BY <1>0, <3>1, TextGrows
    <3>3. Buffered(received', line_buf')
      BY <2>2, <3>0, <3>1, <3>2, EmptyBuffer
    <3>4. Handed(received', lines')
      BY <1>0, <1>1, <3>0, <3>1, HandedStays
    <3>5. Whole(received', lines')
      BY <1>0, <1>1, <2>2, <3>0, <3>1, WholeStays
    <3>6. AssemblyTypeOK'
      BY <1>0, <2>0, <3>0, <3>1 DEF AssemblyTypeOK
    <3> QED
      BY <1>1, <3>0, <3>3, <3>4, <3>5, <3>6 DEF AssemblyInv
  <2> QED
    BY <2>1, <2>2
<1>9. CASE TextCharacter
  <2>0. Happens("text") /\ UNCHANGED is_mounted
    BY <1>9 DEF TextCharacter
  <2>1. received' = Append(received, "text") /\ received' \in Seq(Events)
        /\ Len(received') = n + 1 /\ n < MaxReceived
    BY <1>0, <2>0, AppendProperties DEF Happens
  <2>2. CASE BufferFull
    <3>1. HandOver
      BY <1>9, <2>2 DEF TextCharacter
    <3>2. line_buf # <<>>
      BY <1>0, <1>e, <2>2 DEF BufferFull
    <3> QED
      BY <1>7, <2>0, <2>2, <3>1, <3>2
  <2>3. CASE ~BufferFull
    <3>0. line_buf' = Append(line_buf, n + 1) /\ UNCHANGED lines
      BY <1>9, <2>1, <2>3 DEF TextCharacter
    <3>1. Len(line_buf) \in Nat /\ Len(line_buf) < LINE_BUF_LEN - 1
      BY <1>0, <2>3, LenProperties DEF BufferFull
    <3>2. line_buf' \in P /\ Len(line_buf') < LINE_BUF_LEN
      <4>1. n + 1 \in 1 .. MaxReceived
        BY <1>0, <2>1
      <4>2. line_buf' \in P /\ Len(line_buf') = Len(line_buf) + 1
        BY <1>0, <3>0, <4>1, AppendProperties
      <4> QED
        BY <1>0, <3>1, <4>2
    <3>3. Buffered(received', line_buf')
      BY <1>0, <1>1, <2>1, <3>0, BufferTakesText
    <3>4. Handed(received', lines') /\ Behind(lines', line_buf')
      BY <1>0, <1>1, <2>1, <3>0, HandedStays
    <3>5. Whole(received', lines')
      BY <1>0, <1>1, <2>1, <3>0, WholeStays
    <3>6. AssemblyTypeOK'
      BY <1>0, <2>0, <2>1, <3>0, <3>2 DEF AssemblyTypeOK
    <3> QED
      BY <3>3, <3>4, <3>5, <3>6 DEF AssemblyInv
  <2> QED
    BY <2>2, <2>3
<1>10. CASE UNCHANGED assembly
  BY <1>10 DEF assembly, AssemblyInv, AssemblyTypeOK
<1> QED
  BY <1>4, <1>5, <1>6, <1>8, <1>9, <1>10 DEF AssemblyNext

LEMMA AssemblyInvariant == AssemblySpec => []AssemblyInv
<1>1. AssemblyInit => AssemblyInv
  BY AssemblyBegins
<1>2. AssemblyInv /\ [AssemblyNext]_assembly => AssemblyInv'
  BY AssemblyKeeps
<1> QED
  BY <1>1, <1>2, PTL DEF AssemblySpec

-------------------------------------------------------------------------------
\* What on_line gets is the text as it came in, for any length of line_buf.
THEOREM PiecesKeepTheText == AssemblySpec => []PiecesAreTextInOrder
<1>1. AssemblyInv => PiecesAreTextInOrder
  <2> SUFFICES ASSUME AssemblyInv PROVE PiecesAreTextInOrder
    OBVIOUS
  <2>1. \A p : TextBefore(p) = Text(received, p)
    BY DEF TextBefore, IsEnd, Text
  <2> QED
    BY <2>1 DEF AssemblyInv, Handed, Piece, LastOf, PiecesAreTextInOrder
<1> QED
  BY <1>1, AssemblyInvariant, PTL

\* A line that fits line_buf reaches on_line whole, for any length of line_buf.
THEOREM ShortLinesAreWhole == AssemblySpec => []ShortLinesComeWhole
<1>1. AssemblyInv => ShortLinesComeWhole
  <2> SUFFICES ASSUME AssemblyInv PROVE ShortLinesComeWhole
    OBVIOUS
  <2>1. \A p : TextBefore(p) = Text(received, p)
    BY DEF TextBefore, IsEnd, Text
  <2>2. Whole(received, lines)
    BY DEF AssemblyInv
  <2> QED
    BY <2>1, <2>2 DEF Whole, ShortLinesComeWhole
<1> QED
  BY <1>1, AssemblyInvariant, PTL
===============================================================================
