-------------------------- MODULE SharedStateProofs --------------------------
(***************************************************************************)
(* Theorems about the G-code queue, for every depth of the ring and every  *)
(* set of lines, and about SharedState: what is proved of the queue and of *)
(* the log alone holds of the two together, as each core uses them.        *)
(***************************************************************************)
EXTENDS SharedState, TLAPS, SequenceTheorems

-------------------------------------------------------------------------------
(* A ring as a sequence. *)

\* An index into the ring, reduced: it wraps at most once.
LEMMA Wraps ==
  ASSUME NEW a \in Nat
  PROVE  /\ a % GCODE_QUEUE_DEPTH \in Slots
         /\ a < GCODE_QUEUE_DEPTH => a % GCODE_QUEUE_DEPTH = a
         /\ GCODE_QUEUE_DEPTH <= a /\ a < 2 * GCODE_QUEUE_DEPTH
            => a % GCODE_QUEUE_DEPTH = a - GCODE_QUEUE_DEPTH
  BY DepthAssumption DEF Slots

\* The n slots of the array slot that begin at first.
RingOf(slot, first, n) == [i \in 1 .. n |-> slot[(first + i - 1) % GCODE_QUEUE_DEPTH]]

\* They are a sequence of n lines.
LEMMA RingType ==
  ASSUME NEW S, NEW slot \in [Slots -> S], NEW first \in Nat, NEW n \in Nat
  PROVE  /\ RingOf(slot, first, n) \in Seq(S)
         /\ Len(RingOf(slot, first, n)) = n
         /\ \A i \in 1 .. n :
               RingOf(slot, first, n)[i] = slot[(first + i - 1) % GCODE_QUEUE_DEPTH]
<1>1. \A i \in 1 .. n : first + i - 1 \in Nat
  OBVIOUS
<1>2. \A i \in 1 .. n : slot[(first + i - 1) % GCODE_QUEUE_DEPTH] \in S
  BY <1>1, Wraps
<1>3. RingOf(slot, first, n) \in [1 .. n -> S]
  BY <1>2 DEF RingOf
<1>4. RingOf(slot, first, n) \in Seq(S)
  BY <1>3, SeqDef
<1>5. Len(RingOf(slot, first, n)) = n
  BY <1>3, <1>4, LenProperties
<1> QED
  BY <1>4, <1>5 DEF RingOf

\* No line is the empty sequence.
LEMMA RingEmpty ==
  ASSUME NEW S, NEW slot \in [Slots -> S], NEW first \in Nat
  PROVE  RingOf(slot, first, 0) = <<>>
<1>1. RingOf(slot, first, 0) \in Seq(S) /\ Len(RingOf(slot, first, 0)) = 0
  BY RingType, ZenonT(40)
<1> QED
  BY <1>1, EmptySeq

\* Storing behind the last line leaves the lines alone.
LEMMA RingStore ==
  ASSUME NEW S, NEW slot \in [Slots -> S], NEW after \in [Slots -> S],
         NEW first \in Slots, NEW n \in 0 .. GCODE_QUEUE_DEPTH - 1,
         \A s \in Slots : s # (first + n) % GCODE_QUEUE_DEPTH => after[s] = slot[s]
  PROVE  RingOf(after, first, n) = RingOf(slot, first, n)
<1>1. first \in Nat /\ n \in Nat /\ first + n \in Nat /\ first < GCODE_QUEUE_DEPTH
  BY DepthAssumption DEF Slots
<1>2. (first + n) % GCODE_QUEUE_DEPTH \in Slots
  BY <1>1, Wraps
<1>3. ASSUME NEW i \in 1 .. n
      PROVE  after[(first + i - 1) % GCODE_QUEUE_DEPTH] = slot[(first + i - 1) % GCODE_QUEUE_DEPTH]
  <2>1. first + i - 1 \in Nat /\ first + i - 1 < first + n /\ first + n < first + i - 1 + GCODE_QUEUE_DEPTH
    BY <1>1, DepthAssumption
  <2>2. (first + i - 1) % GCODE_QUEUE_DEPTH \in Slots
    BY <2>1, Wraps
  <2>3. (first + i - 1) % GCODE_QUEUE_DEPTH # (first + n) % GCODE_QUEUE_DEPTH
    <3> DEFINE a == first + i - 1
               b == first + n
    <3>1. /\ a \in Nat /\ b \in Nat /\ a < b /\ b < a + GCODE_QUEUE_DEPTH
          /\ b < 2 * GCODE_QUEUE_DEPTH /\ a < 2 * GCODE_QUEUE_DEPTH
      BY <1>1, <2>1, DepthAssumption
    <3> HIDE DEF a, b
    <3>2. /\ a < GCODE_QUEUE_DEPTH => a % GCODE_QUEUE_DEPTH = a
          /\ a >= GCODE_QUEUE_DEPTH => a % GCODE_QUEUE_DEPTH = a - GCODE_QUEUE_DEPTH
      BY <3>1, Wraps, DepthAssumption
    <3>3. /\ b < GCODE_QUEUE_DEPTH => b % GCODE_QUEUE_DEPTH = b
          /\ b >= GCODE_QUEUE_DEPTH => b % GCODE_QUEUE_DEPTH = b - GCODE_QUEUE_DEPTH
      BY <3>1, Wraps, DepthAssumption
    <3>4. a % GCODE_QUEUE_DEPTH # b % GCODE_QUEUE_DEPTH
      BY <3>1, <3>2, <3>3, DepthAssumption
    <3> QED
      BY <3>4 DEF a, b
  <2> QED
    BY <1>2, <2>2, <2>3
<1> QED
  BY <1>3 DEF RingOf

\* Counting one more line appends it.
LEMMA RingGrow ==
  ASSUME NEW S, NEW slot \in [Slots -> S], NEW first \in Slots, NEW n \in Nat
  PROVE  RingOf(slot, first, n + 1)
           = Append(RingOf(slot, first, n), slot[(first + n) % GCODE_QUEUE_DEPTH])
<1> DEFINE r == RingOf(slot, first, n)
           s == RingOf(slot, first, n + 1)
           x == slot[(first + n) % GCODE_QUEUE_DEPTH]
<1>1. first \in Nat /\ first + n \in Nat /\ n + 1 \in Nat
  BY DepthAssumption DEF Slots
<1>2. x \in S
  BY <1>1, Wraps
<1>3. /\ r \in Seq(S) /\ Len(r) = n
      /\ \A i \in 1 .. n : r[i] = slot[(first + i - 1) % GCODE_QUEUE_DEPTH]
  <2>1. Len(r) = n /\ r \in Seq(S)
    BY <1>1, RingType
  <2> QED
    BY <2>1 DEF RingOf
<1>4. /\ s \in Seq(S) /\ Len(s) = n + 1
      /\ \A i \in 1 .. n + 1 : s[i] = slot[(first + i - 1) % GCODE_QUEUE_DEPTH]
  <2>1. Len(s) = n + 1 /\ s \in Seq(S)
    BY <1>1, RingType
  <2> QED
    BY <2>1 DEF RingOf
<1>5. /\ Append(r, x) \in Seq(S) /\ Len(Append(r, x)) = n + 1
      /\ \A i \in 1 .. n : Append(r, x)[i] = r[i]
      /\ Append(r, x)[n + 1] = x
  BY <1>2, <1>3, AppendProperties
<1>6. first + (n + 1) - 1 = first + n
  BY <1>1
<1>7. s[n + 1] = x
  BY <1>1, <1>4, <1>6
<1> HIDE DEF r, s, x
<1>8. \A i \in 1 .. n + 1 : s[i] = Append(r, x)[i]
  BY <1>3, <1>4, <1>5, <1>7, SMTT(30)
<1>9. s = Append(r, x)
  BY <1>4, <1>5, <1>8, SeqEqual
<1> QED
  BY <1>9 DEF r, s, x

\* Dropping the oldest line leaves those that begin one slot further, whether or not that
\* slot is already reduced.
LEMMA RingDrop ==
  ASSUME NEW S, NEW slot \in [Slots -> S], NEW first \in Slots,
         NEW n \in 1 .. GCODE_QUEUE_DEPTH
  PROVE  /\ RingOf(slot, first, n) # <<>>
         /\ Head(RingOf(slot, first, n)) = slot[first]
         /\ Tail(RingOf(slot, first, n)) = RingOf(slot, first + 1, n - 1)
         /\ RingOf(slot, (first + 1) % GCODE_QUEUE_DEPTH, n - 1) = RingOf(slot, first + 1, n - 1)
<1> DEFINE r == RingOf(slot, first, n)
           t == RingOf(slot, first + 1, n - 1)
<1>1. /\ first \in Nat /\ first < GCODE_QUEUE_DEPTH /\ first + 1 \in Nat
      /\ n \in Nat /\ n - 1 \in Nat /\ n <= GCODE_QUEUE_DEPTH
  BY DepthAssumption DEF Slots
<1>2. /\ r \in Seq(S) /\ Len(r) = n
      /\ \A i \in 1 .. n : r[i] = slot[(first + i - 1) % GCODE_QUEUE_DEPTH]
  <2>1. Len(r) = n /\ r \in Seq(S)
    BY <1>1, RingType
  <2> QED
    BY <2>1 DEF RingOf
<1>3. /\ t \in Seq(S) /\ Len(t) = n - 1
      /\ \A i \in 1 .. n - 1 : t[i] = slot[(first + 1 + i - 1) % GCODE_QUEUE_DEPTH]
  <2>1. Len(t) = n - 1 /\ t \in Seq(S)
    BY <1>1, RingType, ZenonT(40)
  <2> QED
    BY <2>1 DEF RingOf
<1>4. r # <<>>
  BY <1>1, <1>2, EmptySeq
<1>5. Head(r) = slot[first]
  <2>1. first + 1 - 1 = first /\ first % GCODE_QUEUE_DEPTH = first
    BY <1>1, Wraps
  <2>2. Head(r) = r[1]
    BY <1>2, <1>4
  <2> QED
    BY <1>1, <1>2, <2>1, <2>2
<1>6. Tail(r) = t
  <2>1. /\ Tail(r) \in Seq(S) /\ Len(Tail(r)) = n - 1
        /\ \A i \in 1 .. n - 1 : Tail(r)[i] = r[i + 1]
    BY <1>2, <1>4, HeadTailProperties
  <2>2. ASSUME NEW i \in 1 .. n - 1 PROVE Tail(r)[i] = t[i]
    <3>1. i + 1 \in 1 .. n /\ first + (i + 1) - 1 = first + 1 + i - 1
      BY <1>1
    <3> QED
      BY <1>2, <1>3, <2>1, <3>1
  <2> HIDE DEF r, t
  <2> QED
    BY <1>3, <2>1, <2>2, SeqEqual
<1>7. RingOf(slot, (first + 1) % GCODE_QUEUE_DEPTH, n - 1) = t
  <2>1. CASE first + 1 < GCODE_QUEUE_DEPTH
    BY <1>1, <2>1, Wraps
  <2>2. CASE first + 1 = GCODE_QUEUE_DEPTH
    <3>1. (first + 1) % GCODE_QUEUE_DEPTH = 0
      BY <1>1, <2>2, Wraps, DepthAssumption
    <3>2. ASSUME NEW i \in 1 .. n - 1
          PROVE  (0 + i - 1) % GCODE_QUEUE_DEPTH = (first + 1 + i - 1) % GCODE_QUEUE_DEPTH
      <4> DEFINE a == i - 1
                 b == first + 1 + i - 1
      <4>1. /\ a \in Nat /\ a < GCODE_QUEUE_DEPTH /\ b \in Nat /\ b = a + GCODE_QUEUE_DEPTH
            /\ 0 + i - 1 = a
        BY <1>1, <2>2, DepthAssumption
      <4> HIDE DEF a, b
      <4>2. a % GCODE_QUEUE_DEPTH = a /\ b % GCODE_QUEUE_DEPTH = b - GCODE_QUEUE_DEPTH
        BY <4>1, Wraps, DepthAssumption
      <4>3. a % GCODE_QUEUE_DEPTH = b % GCODE_QUEUE_DEPTH
        BY <4>1, <4>2, DepthAssumption
      <4> QED
        BY <4>1, <4>3 DEF a, b
    <3> QED
      BY <3>1, <3>2 DEF RingOf
  <2> QED
    BY <1>1, <2>1, <2>2, DepthAssumption
<1> QED
  BY <1>4, <1>5, <1>6, <1>7

-------------------------------------------------------------------------------
(* The inductive invariant: what a core may rely on while it is inside the mutex. *)

\* The mutex is held by the core whose call is under way, and by no other.
Exclusion ==
    /\ queue_mutex = "core0" <=> push_pc # "idle"
    /\ queue_mutex = "core1" <=> pop_pc # "idle"

\* The room a push found is still there when it stores and counts its line, which is
\* then behind the last one.
PushHasRoom == push_pc \in {"store", "count"} => queue_count < GCODE_QUEUE_DEPTH
PushHasStored ==
    push_pc = "count" => gcode_lines[(queue_head + queue_count) % GCODE_QUEUE_DEPTH] = push_line

\* The line a pop found is counted until the pop has taken it.
PopHasLine == pop_pc \in {"copy", "advance", "count"} => queue_count > 0

\* The inductive invariant of the queue.
QueueInv == TypeOK /\ Exclusion /\ PushHasRoom /\ PushHasStored /\ PopHasLine

\* The empty, unlocked ring satisfies it.
LEMMA QueueInit == Init => QueueInv
<1> SUFFICES ASSUME Init PROVE QueueInv
  OBVIOUS
<1>1. 0 \in Slots /\ 0 \in 0 .. GCODE_QUEUE_DEPTH
  BY DepthAssumption DEF Slots
<1> QED
  BY <1>1 DEF Init, QueueInv, TypeOK, Exclusion, PushHasRoom, PushHasStored, PopHasLine

\* A push, step by step.
LEMMA PushKeepsInv ==
  ASSUME QueueInv, Push
  PROVE  QueueInv'
<1> USE DEF QueueInv, TypeOK, Exclusion, PushHasRoom, PushHasStored, PopHasLine,
            ring, pushing, popping
<1>1. ASSUME NEW l \in Lines, PushEnter(l) PROVE QueueInv'
  <2>1. CASE HasRoom
    <3>1. push_ok' = TRUE /\ push_pc' = "store"
      BY <1>1, <2>1 DEF PushEnter
    <3> QED
      BY <1>1, <2>1, <3>1 DEF PushEnter, Acquire, HasRoom
  <2>2. CASE ~ HasRoom
    <3>1. push_ok' = FALSE /\ push_pc' = "exit"
      <4>1. HasRoom = FALSE
        BY <2>2 DEF HasRoom
      <4>2. push_ok' = FALSE
        BY <1>1, <4>1, Zenon DEF PushEnter
      <4> QED
        BY <1>1, <4>2 DEF PushEnter
    <3> QED
      BY <1>1, <2>2, <3>1 DEF PushEnter, Acquire
  <2> QED
    BY <2>1, <2>2
<1>2. CASE PushStore
  <2>1. queue_head \in Slots /\ queue_count \in 0 .. GCODE_QUEUE_DEPTH - 1
    BY <1>2, DepthAssumption DEF PushStore
  <2>2. /\ gcode_lines' \in [Slots -> Lines \cup {NoLine}]
        /\ gcode_lines'[(queue_head + queue_count) % GCODE_QUEUE_DEPTH] = push_line
    <3>1. (queue_head + queue_count) % GCODE_QUEUE_DEPTH \in Slots
      BY <2>1, Wraps, SMTT(30) DEF Slots
    <3> QED
      BY <1>2, <3>1 DEF PushStore
  <2> QED
    BY <1>2, <2>1, <2>2 DEF PushStore
<1>3. CASE PushCount
  <2>1. queue_count' \in 0 .. GCODE_QUEUE_DEPTH
    BY <1>3, DepthAssumption DEF PushCount
  <2> QED
    BY <1>3, <2>1 DEF PushCount
<1>4. CASE PushExit
  BY <1>4 DEF PushExit
<1> QED
  BY <1>1, <1>2, <1>3, <1>4 DEF Push, PushBody

\* A pop, step by step.
LEMMA PopKeepsInv ==
  ASSUME QueueInv, Pop
  PROVE  QueueInv'
<1> USE DEF QueueInv, TypeOK, Exclusion, PushHasRoom, PushHasStored, PopHasLine,
            ring, pushing, popping
<1>1. CASE PopEnter
  <2>1. CASE queue_count > 0
    <3>1. pop_ok' = TRUE /\ pop_pc' = "copy"
      BY <1>1, <2>1 DEF PopEnter
    <3> QED
      BY <1>1, <2>1, <3>1 DEF PopEnter, Acquire
  <2>2. CASE ~ queue_count > 0
    <3>1. pop_ok' = FALSE /\ pop_pc' = "exit"
      <4>1. (queue_count > 0) = FALSE
        BY <2>2, SMT
      <4>2. pop_ok' = FALSE
        BY <1>1, <4>1, Zenon DEF PopEnter
      <4> QED
        BY <1>1, <4>2 DEF PopEnter
    <3> QED
      BY <1>1, <2>2, <3>1 DEF PopEnter, Acquire
  <2> QED
    BY <2>1, <2>2
<1>2. CASE PopCopy
  BY <1>2 DEF PopCopy
<1>3. CASE PopAdvance
  <2>1. queue_head + 1 \in Nat
    BY DepthAssumption DEF Slots
  <2>2. queue_head' \in Slots
    BY <1>3, <2>1, Wraps DEF PopAdvance
  <2> QED
    BY <1>3, <2>2 DEF PopAdvance
<1>4. CASE PopCount
  <2>1. queue_count' \in 0 .. GCODE_QUEUE_DEPTH
    BY <1>4, DepthAssumption DEF PopCount
  <2> QED
    BY <1>4, <2>1 DEF PopCount
<1>5. CASE PopExit
  BY <1>5 DEF PopExit
<1> QED
  BY <1>1, <1>2, <1>3, <1>4, <1>5 DEF Pop

\* The inductive invariant holds in every reachable state.
THEOREM QueueInvariant == SafetySpec => []QueueInv
<1>1. QueueInv /\ [Next]_vars => QueueInv'
  <2> SUFFICES ASSUME QueueInv, [Next]_vars PROVE QueueInv'
    OBVIOUS
  <2>1. CASE UNCHANGED vars
    BY <2>1 DEF vars, ring, pushing, popping, QueueInv, TypeOK, Exclusion, PushHasRoom,
                PushHasStored, PopHasLine
  <2> QED
    BY <2>1, PushKeepsInv, PopKeepsInv DEF Next
<1> QED
  BY <1>1, QueueInit, PTL DEF SafetySpec

\* The ring's indices stay in range and its count between 0 and the depth, whatever the
\* interleaving of the two cores (shared_state.c:140-164).
THEOREM QueueTypeCorrect == SafetySpec => []TypeOK
<1>1. QueueInv => TypeOK
  BY DEF QueueInv
<1> QED
  BY <1>1, QueueInvariant, PTL
-------------------------------------------------------------------------------
(* The refinement.  The abstract queue is always a ring of the concrete array. *)

\* What the abstract queue holds, by the program counters of the two calls.
LEMMA FifoIs ==
  ASSUME QueueInv
  PROVE  /\ push_pc \in {"store", "count"}
            => Fifo = Append(RingOf(gcode_lines, queue_head, queue_count), push_line)
         /\ pop_pc \in {"copy", "advance"}
            => Fifo = RingOf(gcode_lines, queue_head + 1, queue_count - 1)
         /\ pop_pc = "count" => Fifo = RingOf(gcode_lines, queue_head, queue_count - 1)
         /\ push_pc \in {"idle", "exit"} /\ pop_pc \in {"idle", "exit"}
            => Fifo = RingOf(gcode_lines, queue_head, queue_count)
  BY DEF QueueInv, Exclusion, Fifo, Ring, RingOf

\* The same of the next state.
LEMMA FifoIsPrimed ==
  ASSUME QueueInv'
  PROVE  /\ push_pc' \in {"store", "count"}
            => Fifo' = Append(RingOf(gcode_lines', queue_head', queue_count'), push_line')
         /\ pop_pc' \in {"copy", "advance"}
            => Fifo' = RingOf(gcode_lines', queue_head' + 1, queue_count' - 1)
         /\ pop_pc' = "count" => Fifo' = RingOf(gcode_lines', queue_head', queue_count' - 1)
         /\ push_pc' \in {"idle", "exit"} /\ pop_pc' \in {"idle", "exit"}
            => Fifo' = RingOf(gcode_lines', queue_head', queue_count')
  BY DEF QueueInv, Exclusion, Fifo, Ring, RingOf

\* The record a failed pop leaves.
LEMMA FailedPopKeepsLine ==
  \A a, b, c : [[ok |-> a, line |-> b] EXCEPT !.ok = c] = [ok |-> c, line |-> b]
  OBVIOUS

\* A push takes effect when it gets the mutex, and shows nothing of it afterwards.
LEMMA PushRefines ==
  ASSUME QueueInv, QueueInv', Push
  PROVE  [Abstract!Next]_(Abstract!vars)
<1> USE DEF ring, pushing, popping
<1>1. /\ gcode_lines \in [Slots -> Lines \cup {NoLine}] /\ push_line \in Lines \cup {NoLine}
      /\ queue_head \in Slots /\ queue_head \in Nat
      /\ queue_count \in 0 .. GCODE_QUEUE_DEPTH /\ queue_count \in Nat
  BY DepthAssumption DEF QueueInv, TypeOK, Slots
<1>2. ASSUME NEW l \in Lines, PushEnter(l) PROVE Abstract!Next
  <2>1. /\ push_pc = "idle" /\ pop_pc = "idle" /\ pop_pc' = "idle"
        /\ gcode_lines' = gcode_lines /\ queue_head' = queue_head /\ queue_count' = queue_count
        /\ push_line' = l /\ Popped' = Popped
    BY <1>2 DEF PushEnter, Acquire, QueueInv, Exclusion, TypeOK, Popped
  <2>2. Fifo = RingOf(gcode_lines, queue_head, queue_count)
    BY <2>1, FifoIs
  <2>3. Len(Fifo) = queue_count
    BY <1>1, <2>2, RingType
  <2>4. CASE HasRoom
    <3>1. push_ok' = TRUE /\ push_pc' = "store"
      BY <1>2, <2>4 DEF PushEnter
    <3>2. Fifo' = Append(Fifo, l)
      BY <2>1, <2>2, <3>1, FifoIsPrimed
    <3>3. Abstract!PushAccepted(l)
      BY <2>1, <2>3, <2>4, <3>1, <3>2 DEF Abstract!PushAccepted, HasRoom
    <3> QED
      BY <3>3 DEF Abstract!Next
  <2>5. CASE ~ HasRoom
    <3>1. HasRoom = FALSE
      BY <2>5 DEF HasRoom
    <3>2. push_ok' = FALSE
      BY <1>2, <3>1, Zenon DEF PushEnter
    <3>3. push_pc' = "exit"
      BY <1>2, <3>2 DEF PushEnter
    <3>4. Fifo' = Fifo
      BY <2>1, <2>2, <3>3, FifoIsPrimed
    <3>5. Len(Fifo) = GCODE_QUEUE_DEPTH
      BY <1>1, <2>3, <2>5, DepthAssumption DEF HasRoom
    <3>6. Abstract!PushRejected
      BY <2>1, <3>2, <3>4, <3>5 DEF Abstract!PushRejected
    <3> QED
      BY <3>6 DEF Abstract!Next
  <2> QED
    BY <2>4, <2>5
<1>3. ASSUME PushBody PROVE UNCHANGED Abstract!vars
  <2>1. pop_pc = "idle" /\ pop_pc' = "idle" /\ push_ok' = push_ok /\ Popped' = Popped
    BY <1>3 DEF PushBody, PushStore, PushCount, PushExit, QueueInv, Exclusion, TypeOK, Popped
  <2>2. CASE PushStore
    <3>1. queue_count \in 0 .. GCODE_QUEUE_DEPTH - 1
      BY <2>2, DepthAssumption DEF PushStore, QueueInv, TypeOK, PushHasRoom
    <3>2. RingOf(gcode_lines', queue_head, queue_count) = RingOf(gcode_lines, queue_head, queue_count)
      <4>1. /\ gcode_lines' \in [Slots -> Lines \cup {NoLine}]
            /\ \A s \in Slots : s # (queue_head + queue_count) % GCODE_QUEUE_DEPTH
                               => gcode_lines'[s] = gcode_lines[s]
        BY <1>1, <2>2 DEF PushStore, QueueInv, TypeOK
      <4> QED
        BY <1>1, <3>1, <4>1, RingStore
    <3>3. Fifo = Append(RingOf(gcode_lines, queue_head, queue_count), push_line)
      BY <2>2, FifoIs DEF PushStore
    <3>4. Fifo' = Append(RingOf(gcode_lines', queue_head, queue_count), push_line)
      BY <2>2, FifoIsPrimed DEF PushStore
    <3> QED
      BY <2>1, <3>2, <3>3, <3>4 DEF Abstract!vars
  <2>3. CASE PushCount
    <3>1. Fifo = Append(RingOf(gcode_lines, queue_head, queue_count), push_line)
      BY <2>3, FifoIs DEF PushCount
    <3>2. Fifo' = RingOf(gcode_lines, queue_head, queue_count + 1)
      BY <2>1, <2>3, FifoIsPrimed DEF PushCount
    <3>3. gcode_lines[(queue_head + queue_count) % GCODE_QUEUE_DEPTH] = push_line
      BY <2>3 DEF PushCount, QueueInv, PushHasStored
    <3>4. Fifo' = Fifo
      BY <1>1, <3>1, <3>2, <3>3, RingGrow
    <3> QED
      BY <2>1, <3>4 DEF Abstract!vars
  <2>4. CASE PushExit
    <3>1. Fifo = RingOf(gcode_lines, queue_head, queue_count)
      BY <2>1, <2>4, FifoIs DEF PushExit
    <3>2. Fifo' = RingOf(gcode_lines, queue_head, queue_count)
      BY <2>1, <2>4, FifoIsPrimed DEF PushExit
    <3> QED
      BY <2>1, <3>1, <3>2 DEF Abstract!vars
  <2> QED
    BY <1>3, <2>2, <2>3, <2>4 DEF PushBody
<1> QED
  BY <1>2, <1>3 DEF Push

\* So does a pop.
LEMMA PopRefines ==
  ASSUME QueueInv, QueueInv', Pop
  PROVE  [Abstract!Next]_(Abstract!vars)
<1> USE DEF ring, pushing, popping
<1>1. /\ gcode_lines \in [Slots -> Lines \cup {NoLine}]
      /\ queue_head \in Slots /\ queue_head \in Nat
      /\ queue_count \in 0 .. GCODE_QUEUE_DEPTH /\ queue_count \in Nat
  BY DepthAssumption DEF QueueInv, TypeOK, Slots
<1>2. ASSUME PopEnter PROVE Abstract!Next
  <2>1. /\ pop_pc = "idle" /\ push_pc = "idle" /\ push_pc' = "idle"
        /\ gcode_lines' = gcode_lines /\ queue_head' = queue_head /\ queue_count' = queue_count
        /\ push_ok' = push_ok /\ pop_out' = pop_out
    BY <1>2 DEF PopEnter, Acquire, QueueInv, Exclusion, TypeOK
  <2>2. Fifo = RingOf(gcode_lines, queue_head, queue_count)
    BY <2>1, FifoIs
  <2>3. CASE queue_count > 0
    <3>1. pop_ok' = TRUE /\ pop_pc' = "copy"
      BY <1>2, <2>3 DEF PopEnter
    <3>2. Fifo' = RingOf(gcode_lines, queue_head + 1, queue_count - 1)
      BY <2>1, <3>1, FifoIsPrimed
    <3>3. Popped' = [ok |-> TRUE, line |-> gcode_lines[queue_head]]
      BY <2>1, <3>1 DEF Popped
    <3>4. queue_count \in 1 .. GCODE_QUEUE_DEPTH
      BY <1>1, <2>3, DepthAssumption
    <3>5. Fifo # <<>> /\ Head(Fifo) = gcode_lines[queue_head] /\ Tail(Fifo) = Fifo'
      BY <1>1, <2>2, <3>2, <3>4, RingDrop
    <3>6. Abstract!PopLine
      BY <2>1, <3>3, <3>5 DEF Abstract!PopLine
    <3> QED
      BY <3>6 DEF Abstract!Next
  <2>4. CASE ~ queue_count > 0
    <3>1. (queue_count > 0) = FALSE
      BY <2>4, SMT
    <3>2. pop_ok' = FALSE
      BY <1>2, <3>1, Zenon DEF PopEnter
    <3>3. pop_pc' = "exit"
      BY <1>2, <3>2 DEF PopEnter
    <3>4. Fifo' = Fifo
      BY <2>1, <2>2, <3>3, FifoIsPrimed
    <3>5. Fifo = <<>>
      <4>1. queue_count = 0
        BY <1>1, <2>4, DepthAssumption
      <4> QED
        BY <1>1, <2>2, <4>1, RingEmpty
    <3>6. Popped' = [Popped EXCEPT !.ok = FALSE]
      <4>1. Popped = [ok |-> pop_ok, line |-> pop_out]
        BY <2>1 DEF Popped
      <4>2. Popped' = [ok |-> FALSE, line |-> pop_out]
        BY <2>1, <3>2, <3>3 DEF Popped
      <4>3. [[ok |-> pop_ok, line |-> pop_out] EXCEPT !.ok = FALSE]
              = [ok |-> FALSE, line |-> pop_out]
        BY FailedPopKeepsLine, Zenon
      <4> QED
        BY <4>1, <4>2, <4>3, Zenon
    <3>7. Abstract!PopNothing
      BY <2>1, <3>4, <3>5, <3>6 DEF Abstract!PopNothing
    <3> QED
      BY <3>7 DEF Abstract!Next
  <2> QED
    BY <2>3, <2>4
<1>3. CASE PopCopy
  <2>1. Fifo = RingOf(gcode_lines, queue_head + 1, queue_count - 1)
    BY <1>3, FifoIs DEF PopCopy
  <2>2. Fifo' = RingOf(gcode_lines, queue_head + 1, queue_count - 1)
    BY <1>3, FifoIsPrimed DEF PopCopy
  <2>3. Popped' = Popped /\ push_ok' = push_ok
    BY <1>3 DEF PopCopy, Popped
  <2> QED
    BY <2>1, <2>2, <2>3 DEF Abstract!vars
<1>4. CASE PopAdvance
  <2>1. Fifo = RingOf(gcode_lines, queue_head + 1, queue_count - 1)
    BY <1>4, FifoIs DEF PopAdvance
  <2>2. Fifo' = RingOf(gcode_lines, (queue_head + 1) % GCODE_QUEUE_DEPTH, queue_count - 1)
    BY <1>4, FifoIsPrimed DEF PopAdvance
  <2>3. queue_count \in 1 .. GCODE_QUEUE_DEPTH
    BY <1>1, <1>4, DepthAssumption DEF PopAdvance, QueueInv, PopHasLine
  <2>4. Fifo' = Fifo
    BY <1>1, <2>1, <2>2, <2>3, RingDrop
  <2>5. Popped' = Popped /\ push_ok' = push_ok
    BY <1>4 DEF PopAdvance, Popped
  <2> QED
    BY <2>4, <2>5 DEF Abstract!vars
<1>5. CASE PopCount
  <2>1. push_pc = "idle" /\ push_pc' = "idle"
    BY <1>5 DEF PopCount, QueueInv, Exclusion, TypeOK
  <2>2. Fifo = RingOf(gcode_lines, queue_head, queue_count - 1)
    BY <1>5, FifoIs DEF PopCount
  <2>3. Fifo' = RingOf(gcode_lines, queue_head, queue_count - 1)
    BY <1>5, <2>1, FifoIsPrimed DEF PopCount
  <2>4. Popped' = Popped /\ push_ok' = push_ok
    BY <1>5 DEF PopCount, Popped
  <2> QED
    BY <2>2, <2>3, <2>4 DEF Abstract!vars
<1>6. CASE PopExit
  <2>1. push_pc = "idle" /\ push_pc' = "idle"
    BY <1>6 DEF PopExit, QueueInv, Exclusion, TypeOK
  <2>2. Fifo = RingOf(gcode_lines, queue_head, queue_count)
    BY <1>6, <2>1, FifoIs DEF PopExit
  <2>3. Fifo' = RingOf(gcode_lines, queue_head, queue_count)
    BY <1>6, <2>1, FifoIsPrimed DEF PopExit
  <2>4. Popped' = Popped /\ push_ok' = push_ok
    BY <1>6 DEF PopExit, Popped
  <2> QED
    BY <2>2, <2>3, <2>4 DEF Abstract!vars
<1> QED
  BY <1>2, <1>3, <1>4, <1>5, <1>6 DEF Pop

\* The queue is one bounded FIFO with atomic operations, for every depth and every set of
\* lines: no line accepted by gcode_queue_push is lost, duplicated, overwritten or handed
\* out of order, and a refusal means the queue was full (shared_state.h:76-78).
THEOREM QueueIsAFifo == SafetySpec => ImplementsFifo
<1>1. Init => Abstract!Init
  <2> SUFFICES ASSUME Init PROVE Abstract!Init
    OBVIOUS
  <2>1. QueueInv /\ queue_head \in Nat /\ gcode_lines \in [Slots -> Lines \cup {NoLine}]
    BY QueueInit DEF Init, QueueInv, TypeOK
  <2>2. Fifo = RingOf(gcode_lines, queue_head, 0)
    BY <2>1, FifoIs DEF Init
  <2>3. Fifo = <<>>
    BY <2>1, <2>2, RingEmpty
  <2>4. push_ok = FALSE /\ Popped = [ok |-> FALSE, line |-> NoLine]
    BY DEF Init, Popped
  <2> QED
    BY <2>3, <2>4 DEF Abstract!Init
<1>2. QueueInv /\ QueueInv' /\ [Next]_vars => [Abstract!Next]_(Abstract!vars)
  <2> SUFFICES ASSUME QueueInv, QueueInv', [Next]_vars PROVE [Abstract!Next]_(Abstract!vars)
    OBVIOUS
  <2>1. CASE UNCHANGED vars
    BY <2>1 DEF vars, ring, pushing, popping, Abstract!vars, Fifo, Popped, Ring
  <2> QED
    BY <2>1, PushRefines, PopRefines DEF Next
<1> QED
  BY <1>1, <1>2, QueueInvariant, PTL DEF SafetySpec, ImplementsFifo
-------------------------------------------------------------------------------
(* What a ring holds of a log. *)

\* The ring l, q of c lines from slot h on holds the newest lines of lg and their numbers,
\* but for the oldest from of them.
Holds(l, q, h, c, lg, from) ==
    \A i \in from .. c - 1 :
        /\ l[(h + i) % CONSOLE_LOG_LINES] = lg[Len(lg) - c + 1 + i]
        /\ q[(h + i) % CONSOLE_LOG_LINES] = Len(lg) - c + 1 + i

\* As many lines as there are, or as there are slots.
Fills(c, lg) == c <= Len(lg) /\ (c = Len(lg) \/ c = CONSOLE_LOG_LINES)

\* The slot behind the newest line is the oldest one's when the ring is full.
Overwritten(c) == IF c = CONSOLE_LOG_LINES THEN 1 ELSE 0

\* An index into the ring, reduced: it wraps at most once.
LEMMA IndexWraps ==
  ASSUME Log!RingAssumption, NEW a \in Nat
  PROVE  /\ a % CONSOLE_LOG_LINES \in Log!Slots
         /\ a < CONSOLE_LOG_LINES => a % CONSOLE_LOG_LINES = a
         /\ CONSOLE_LOG_LINES <= a /\ a < 2 * CONSOLE_LOG_LINES
            => a % CONSOLE_LOG_LINES = a - CONSOLE_LOG_LINES
  BY DEF Log!RingAssumption, Log!Slots

\* Two indices less than a round apart are two slots.
LEMMA SlotsDiffer ==
  ASSUME Log!RingAssumption, NEW a \in Nat, NEW b \in Nat,
         a < b, b < a + CONSOLE_LOG_LINES, b < 2 * CONSOLE_LOG_LINES
  PROVE  a % CONSOLE_LOG_LINES # b % CONSOLE_LOG_LINES
<1>1. /\ a < CONSOLE_LOG_LINES => a % CONSOLE_LOG_LINES = a
      /\ a >= CONSOLE_LOG_LINES => a % CONSOLE_LOG_LINES = a - CONSOLE_LOG_LINES
  BY IndexWraps DEF Log!RingAssumption
<1>2. /\ b < CONSOLE_LOG_LINES => b % CONSOLE_LOG_LINES = b
      /\ b >= CONSOLE_LOG_LINES => b % CONSOLE_LOG_LINES = b - CONSOLE_LOG_LINES
  BY IndexWraps DEF Log!RingAssumption
<1>3. CONSOLE_LOG_LINES \in Nat \ {0}
  BY DEF Log!RingAssumption
<1> QED
  BY <1>1, <1>2, <1>3

\* Writing the slot behind the newest line spares all lines but the oldest of a full ring.
LEMMA StoreSpares ==
  ASSUME Log!RingAssumption, NEW l, NEW q, NEW l2, NEW q2, NEW h \in Log!Slots,
         NEW c \in 0 .. CONSOLE_LOG_LINES, NEW lg,
         Holds(l, q, h, c, lg, Overwritten(c)),
         \A s \in Log!Slots : s # (h + c) % CONSOLE_LOG_LINES => l2[s] = l[s] /\ q2[s] = q[s]
  PROVE  Holds(l2, q2, h, c, lg, Overwritten(c))
<1>0. /\ CONSOLE_LOG_LINES \in Nat /\ CONSOLE_LOG_LINES > 0
      /\ h \in Nat /\ h < CONSOLE_LOG_LINES /\ c \in Nat /\ c <= CONSOLE_LOG_LINES
  BY DEF Log!RingAssumption, Log!Slots
<1> SUFFICES ASSUME NEW i \in Overwritten(c) .. c - 1
             PROVE  /\ l2[(h + i) % CONSOLE_LOG_LINES] = l[(h + i) % CONSOLE_LOG_LINES]
                    /\ q2[(h + i) % CONSOLE_LOG_LINES] = q[(h + i) % CONSOLE_LOG_LINES]
  BY DEF Holds
<1>1. i \in Nat /\ i < c /\ c - i < CONSOLE_LOG_LINES
  BY <1>0 DEF Overwritten
<1>2. CASE h + c < 2 * CONSOLE_LOG_LINES
  <2>1. (h + i) % CONSOLE_LOG_LINES # (h + c) % CONSOLE_LOG_LINES
    <3> DEFINE a == h + i
               b == h + c
    <3>1. a \in Nat /\ b \in Nat /\ a < b /\ b < a + CONSOLE_LOG_LINES
      BY <1>0, <1>1
    <3>2. b < 2 * CONSOLE_LOG_LINES
      BY <1>2
    <3> HIDE DEF a, b
    <3>3. a % CONSOLE_LOG_LINES # b % CONSOLE_LOG_LINES
      BY <3>1, <3>2, SlotsDiffer
    <3> QED
      BY <3>3 DEF a, b
  <2>2. (h + i) % CONSOLE_LOG_LINES \in Log!Slots
    BY <1>0, <1>1, IndexWraps
  <2> QED
    BY <2>1, <2>2
<1> QED
  BY <1>0, <1>2

\* A line stored behind the newest one, once it is counted, is the newest.
LEMMA CountedInRoom ==
  ASSUME Log!RingAssumption, NEW l, NEW q, NEW h \in Log!Slots,
         NEW c \in 0 .. CONSOLE_LOG_LINES, NEW S, NEW lg \in Seq(S), NEW x \in S,
         c < CONSOLE_LOG_LINES, c = Len(lg),
         Holds(l, q, h, c, lg, 0),
         l[(h + c) % CONSOLE_LOG_LINES] = x, q[(h + c) % CONSOLE_LOG_LINES] = Len(lg) + 1
  PROVE  Holds(l, q, h, c + 1, Append(lg, x), 0)
<1> DEFINE n == Len(lg)
           t == Append(lg, x)
<1>1. /\ Len(t) = n + 1 /\ t[n + 1] = x /\ n \in Nat
      /\ \A k \in 1 .. n : t[k] = lg[k]
  BY AppendProperties, LenProperties
<1>2. c \in Nat /\ c = n
  BY DEF Log!RingAssumption
<1>3. \A i \in 0 .. c - 1 : /\ l[(h + i) % CONSOLE_LOG_LINES] = lg[n - c + 1 + i]
                            /\ q[(h + i) % CONSOLE_LOG_LINES] = n - c + 1 + i
  BY DEF Holds
<1>4. l[(h + c) % CONSOLE_LOG_LINES] = x /\ q[(h + c) % CONSOLE_LOG_LINES] = n + 1
  OBVIOUS
<1> HIDE DEF n, t
<1>5. ASSUME NEW i \in 0 .. (c + 1) - 1
      PROVE  /\ l[(h + i) % CONSOLE_LOG_LINES] = t[Len(t) - (c + 1) + 1 + i]
             /\ q[(h + i) % CONSOLE_LOG_LINES] = Len(t) - (c + 1) + 1 + i
  <2>1. Len(t) - (c + 1) + 1 + i = n - c + 1 + i
    BY <1>1, <1>2
  <2>2. CASE i = c
    BY <1>1, <1>2, <1>4, <2>1, <2>2
  <2>3. CASE i # c
    <3>0. c \in Nat /\ n \in Nat /\ c = n /\ i \in 0 .. c
      BY <1>1, <1>2
    <3>1. i \in 0 .. c - 1
      BY <2>3, <3>0
    <3>2. n - c + 1 + i \in 1 .. n
      BY <3>0, <3>1
    <3> QED
      BY <1>1, <1>3, <2>1, <3>1, <3>2
  <2> QED
    BY <2>2, <2>3
<1> QED
  BY <1>5 DEF Holds, t

\* In a full ring it takes the oldest one's place, and the next older becomes the oldest.
LEMMA CountedInFull ==
  ASSUME Log!RingAssumption, NEW l, NEW q, NEW h \in Log!Slots,
         NEW S, NEW lg \in Seq(S), NEW x \in S,
         CONSOLE_LOG_LINES <= Len(lg),
         Holds(l, q, h, CONSOLE_LOG_LINES, lg, 1),
         l[(h + CONSOLE_LOG_LINES) % CONSOLE_LOG_LINES] = x,
         q[(h + CONSOLE_LOG_LINES) % CONSOLE_LOG_LINES] = Len(lg) + 1
  PROVE  Holds(l, q, (h + 1) % CONSOLE_LOG_LINES, CONSOLE_LOG_LINES, Append(lg, x), 0)
<1> DEFINE n == Len(lg)
           t == Append(lg, x)
           c == CONSOLE_LOG_LINES
           g == (h + 1) % CONSOLE_LOG_LINES
<1>1. /\ Len(t) = n + 1 /\ t[n + 1] = x /\ n \in Nat
      /\ \A k \in 1 .. n : t[k] = lg[k]
  BY AppendProperties, LenProperties
<1>2. c \in Nat /\ c > 0 /\ c <= n /\ h \in Nat /\ h < c
  BY DEF Log!RingAssumption, Log!Slots
<1>3. \A i \in 1 .. c - 1 : /\ l[(h + i) % c] = lg[n - c + 1 + i]
                            /\ q[(h + i) % c] = n - c + 1 + i
  BY DEF Holds
<1>4. l[(h + c) % c] = x /\ q[(h + c) % c] = n + 1
  OBVIOUS
<1>5. \A a \in Nat : /\ a < c => a % c = a
                     /\ c <= a /\ a < 2 * c => a % c = a - c
  BY IndexWraps
<1>6. g \in Nat /\ (h + 1 < c => g = h + 1) /\ (h + 1 = c => g = 0)
  <2>1. /\ h + 1 < c => (h + 1) % c = h + 1
        /\ c <= h + 1 /\ h + 1 < 2 * c => (h + 1) % c = (h + 1) - c
    BY <1>2, <1>5
  <2>2. (h + 1) % c \in Log!Slots
    BY <1>2, IndexWraps
  <2> QED
    BY <1>2, <2>1, <2>2 DEF Log!Slots
<1> HIDE DEF n, t, c, g
<1>7. ASSUME NEW i \in 0 .. c - 1
      PROVE  (g + i) % c = (h + (i + 1)) % c
  <2>1. /\ h + 1 + i < c => (h + (i + 1)) % c = h + 1 + i
        /\ c <= h + 1 + i => (h + (i + 1)) % c = h + 1 + i - c
    <3> DEFINE a == h + (i + 1)
    <3>1. a \in Nat /\ a < 2 * c /\ a = h + 1 + i
      BY <1>2
    <3> HIDE DEF a
    <3>2. (a < c => a % c = a) /\ (c <= a => a % c = a - c)
      BY <1>5, <3>1
    <3>3. (h + 1 + i < c => a % c = h + 1 + i) /\ (c <= h + 1 + i => a % c = h + 1 + i - c)
      BY <1>2, <3>1, <3>2
    <3> QED
      BY <3>3 DEF a
  <2>2. /\ g + i < c => (g + i) % c = g + i
        /\ c <= g + i => (g + i) % c = g + i - c
    <3> DEFINE a == g + i
    <3>1. a \in Nat /\ a < 2 * c /\ a = g + i
      BY <1>2, <1>6
    <3> HIDE DEF a
    <3>2. (a < c => a % c = a) /\ (c <= a => a % c = a - c)
      BY <1>5, <3>1
    <3>3. (g + i < c => a % c = g + i) /\ (c <= g + i => a % c = g + i - c)
      BY <1>2, <1>6, <3>1, <3>2
    <3> QED
      BY <3>3 DEF a
  <2> QED
    BY <1>2, <1>6, <2>1, <2>2
<1>8. ASSUME NEW i \in 0 .. c - 1
      PROVE  /\ l[(g + i) % c] = t[Len(t) - c + 1 + i]
             /\ q[(g + i) % c] = Len(t) - c + 1 + i
  <2>1. (g + i) % c = (h + (i + 1)) % c
    BY <1>7
  <2>2. Len(t) - c + 1 + i = n - c + 1 + (i + 1)
    BY <1>1, <1>2
  <2>3. CASE i = c - 1
    <3>1. i + 1 = c /\ n - c + 1 + (i + 1) = n + 1
      BY <1>1, <1>2, <2>3
    <3> QED
      BY <1>1, <1>4, <2>1, <2>2, <3>1
  <2>4. CASE i # c - 1
    <3>1. i + 1 \in 1 .. c - 1 /\ n - c + 1 + (i + 1) \in 1 .. n
      BY <1>1, <1>2, <2>4
    <3> QED
      BY <1>1, <1>3, <2>1, <2>2, <3>1
  <2> QED
    BY <2>3, <2>4
<1> QED
  BY <1>8 DEF Holds, n, t, c, g
-------------------------------------------------------------------------------
(* The inductive invariant. *)

\* Each core is inside its call only while it has the mutex.
LogExclusion ==
    /\ log_push_pc # "idle" => log_mutex = "core1"
    /\ log_snap_pc # "idle" => log_mutex = "core0"

\* What the ring holds at each statement of a push.
RingInv ==
    /\ log_push_pc # "idle" => log_push_line \in LogLines
    /\ log_push_pc # "exit" => Fills(log_count, log)
    /\ log_push_pc \in {"idle", "store", "number"} => log_next_seq = Len(log) + 1
    /\ log_push_pc \in {"count", "exit"} => log_next_seq = Len(log) + 2
    /\ log_push_pc \in {"idle", "store"} => Holds(log_lines, log_seqs, log_head, log_count, log, 0)
    /\ log_push_pc \in {"number", "count"} =>
          /\ Holds(log_lines, log_seqs, log_head, log_count, log, Overwritten(log_count))
          /\ log_lines[Log!WriteIdx] = log_push_line
    /\ log_push_pc = "count" => log_seqs[Log!WriteIdx] = Len(log) + 1
    /\ log_push_pc = "exit" =>
          /\ Fills(log_count, Append(log, log_push_line))
          /\ Holds(log_lines, log_seqs, log_head, log_count, Append(log, log_push_line), 0)

\* What a snapshot has copied is the first of the lines it was asked for.
SnapInv ==
    log_snap_pc = "copy" =>
        /\ \E w \in Windows : log_snap_n = IF log_count < w THEN log_count ELSE w
        /\ log_snap_skip = log_count - log_snap_n
        /\ log_snap_i \in 0 .. log_snap_n
        /\ Len(log_copied) = log_snap_i
        /\ \A k \in 1 .. log_snap_i :
              log_copied[k] = [seq  |-> Len(log) - log_snap_n + k,
                               line |-> log[Len(log) - log_snap_n + k]]

\* The inductive invariant of the log.
LogInv == Log!TypeOK /\ LogExclusion /\ RingInv /\ SnapInv

LEMMA LogInit == Log!RingAssumption /\ Log!Init => LogInv
<1> SUFFICES ASSUME Log!RingAssumption, Log!Init PROVE LogInv
  OBVIOUS
<1>0. CONSOLE_LOG_LINES \in Nat /\ CONSOLE_LOG_LINES > 0
  BY DEF Log!RingAssumption
<1>1. <<>> \in Seq(Log!Entry) /\ <<>> \in Seq(LogLines) /\ Len(<<>>) = 0
  OBVIOUS
<1>2. Log!TypeOK
  BY <1>0, <1>1 DEF Log!Init, Log!TypeOK, Log!Slots
<1>3. LogExclusion
  BY DEF Log!Init, LogExclusion
<1>4. RingInv
  BY <1>0, <1>1 DEF Log!Init, RingInv, Fills, Holds
<1>5. SnapInv
  BY DEF Log!Init, SnapInv
<1> QED
  BY <1>2, <1>3, <1>4, <1>5 DEF LogInv

\* The types of what the steps read.
LEMMA LogTypes ==
  ASSUME Log!RingAssumption, LogInv
  PROVE  /\ CONSOLE_LOG_LINES \in Nat /\ CONSOLE_LOG_LINES > 0
         /\ log_head \in Nat /\ log_head < CONSOLE_LOG_LINES
         /\ log_count \in Nat /\ log_count <= CONSOLE_LOG_LINES
         /\ log_next_seq \in Nat /\ Len(log) \in Nat
         /\ log_head + log_count \in Nat
         /\ Log!WriteIdx \in Log!Slots
<1>1. /\ CONSOLE_LOG_LINES \in Nat /\ CONSOLE_LOG_LINES > 0
      /\ log_head \in Nat /\ log_head < CONSOLE_LOG_LINES
      /\ log_count \in Nat /\ log_count <= CONSOLE_LOG_LINES
      /\ log_next_seq \in Nat
  BY DEF Log!RingAssumption, LogInv, Log!TypeOK, Log!Slots
<1>2. Len(log) \in Nat
  BY LenProperties DEF LogInv, Log!TypeOK
<1>3. log_head + log_count \in Nat
  BY <1>1
<1>4. Log!WriteIdx \in Log!Slots
  BY <1>3, IndexWraps DEF Log!WriteIdx
<1> QED
  BY <1>1, <1>2, <1>3, <1>4

LEMMA PushEnterKeeps ==
    Log!RingAssumption /\ LogInv /\ (\E l \in LogLines : Log!PushEnter(l)) => LogInv'
<1> SUFFICES ASSUME Log!RingAssumption, LogInv, NEW l \in LogLines, Log!PushEnter(l) PROVE LogInv'
  OBVIOUS
<1>1. Log!TypeOK'
  BY DEF LogInv, Log!TypeOK, Log!PushEnter, Log!Acquire, Log!ring, Log!snapping
<1>2. log_snap_pc = "idle" /\ log_push_pc = "idle"
  BY DEF LogInv, Log!TypeOK, LogExclusion, Log!PushEnter, Log!Acquire
<1>3. LogExclusion'
  BY <1>2 DEF Log!PushEnter, Log!Acquire, LogExclusion, Log!snapping
<1>4. RingInv'
  BY <1>2 DEF LogInv, RingInv, Log!PushEnter, Log!Acquire, Log!ring, Log!WriteIdx
<1>5. SnapInv'
  BY <1>2 DEF SnapInv, Log!PushEnter, Log!snapping
<1> QED
  BY <1>1, <1>3, <1>4, <1>5 DEF LogInv

\* While core1 is inside its call core0 is not, and what it copies stands still.
LEMMA PushAlone ==
  ASSUME LogInv, log_push_pc # "idle", UNCHANGED Log!snapping
  PROVE  log_snap_pc = "idle" /\ SnapInv'
  BY DEF LogInv, Log!TypeOK, LogExclusion, SnapInv, Log!snapping

LEMMA PushStoreKeeps == Log!RingAssumption /\ LogInv /\ Log!PushStore => LogInv'
<1> SUFFICES ASSUME Log!RingAssumption, LogInv, Log!PushStore PROVE LogInv'
  OBVIOUS
<1>1. Log!TypeOK'
  BY LogTypes DEF LogInv, Log!TypeOK, Log!PushStore, Log!ring, Log!snapping
<1>2. log_push_line \in LogLines /\ Fills(log_count, log) /\ log_next_seq = Len(log) + 1
      /\ Holds(log_lines, log_seqs, log_head, log_count, log, 0)
  BY DEF LogInv, RingInv, Log!PushStore
<1>3. LogExclusion' /\ SnapInv'
  BY PushAlone DEF LogInv, LogExclusion, Log!PushStore, Log!snapping
<1>4. Holds(log_lines, log_seqs, log_head, log_count, log, Overwritten(log_count))
  BY <1>2, LogTypes DEF Holds, Overwritten
<1>5. /\ log_lines'[Log!WriteIdx] = log_push_line
      /\ \A s \in Log!Slots : s # Log!WriteIdx => log_lines'[s] = log_lines[s]
  BY LogTypes DEF LogInv, Log!TypeOK, Log!PushStore
<1>6. Holds(log_lines', log_seqs, log_head, log_count, log, Overwritten(log_count))
  <2>1. log_head \in Log!Slots /\ log_count \in 0 .. CONSOLE_LOG_LINES
    BY DEF LogInv, Log!TypeOK
  <2> QED
    BY <1>4, <1>5, <2>1, StoreSpares DEF Log!WriteIdx
<1>7. RingInv'
  BY <1>2, <1>5, <1>6 DEF RingInv, Log!PushStore, Log!WriteIdx
<1> QED
  BY <1>1, <1>3, <1>7 DEF LogInv

LEMMA PushNumberKeeps == Log!RingAssumption /\ LogInv /\ Log!PushNumber => LogInv'
<1> SUFFICES ASSUME Log!RingAssumption, LogInv, Log!PushNumber PROVE LogInv'
  OBVIOUS
<1>1. Log!TypeOK'
  BY LogTypes DEF LogInv, Log!TypeOK, Log!PushNumber, Log!ring, Log!snapping
<1>2. /\ log_push_line \in LogLines /\ Fills(log_count, log) /\ log_next_seq = Len(log) + 1
      /\ Holds(log_lines, log_seqs, log_head, log_count, log, Overwritten(log_count))
      /\ log_lines[Log!WriteIdx] = log_push_line
  BY DEF LogInv, RingInv, Log!PushNumber
<1>3. LogExclusion' /\ SnapInv'
  BY PushAlone DEF LogInv, LogExclusion, Log!PushNumber, Log!snapping
<1>5. /\ log_seqs'[Log!WriteIdx] = log_next_seq
      /\ \A s \in Log!Slots : s # Log!WriteIdx => log_seqs'[s] = log_seqs[s]
  BY LogTypes DEF LogInv, Log!TypeOK, Log!PushNumber
<1>6. Holds(log_lines, log_seqs', log_head, log_count, log, Overwritten(log_count))
  <2>1. log_head \in Log!Slots /\ log_count \in 0 .. CONSOLE_LOG_LINES
    BY DEF LogInv, Log!TypeOK
  <2> QED
    BY <1>2, <1>5, <2>1, StoreSpares DEF Log!WriteIdx
<1>7. log_next_seq' = Len(log) + 2
  BY <1>2, LogTypes DEF Log!PushNumber
<1>8. RingInv'
  BY <1>2, <1>5, <1>6, <1>7 DEF RingInv, Log!PushNumber, Log!WriteIdx
<1> QED
  BY <1>1, <1>3, <1>8 DEF LogInv

LEMMA PushCountKeeps == Log!RingAssumption /\ LogInv /\ Log!PushCount => LogInv'
<1> SUFFICES ASSUME Log!RingAssumption, LogInv, Log!PushCount PROVE LogInv'
  OBVIOUS
<1>0. (log_head + 1) % CONSOLE_LOG_LINES \in Log!Slots
  <2>1. log_head + 1 \in Nat
    BY LogTypes
  <2> QED
    BY <2>1, IndexWraps
<1>1. Log!TypeOK'
  <2>1. log_head' \in Log!Slots
    BY <1>0 DEF LogInv, Log!TypeOK, Log!PushCount
  <2>2. log_count' \in 0 .. CONSOLE_LOG_LINES
    <3>1. log_count + 1 \in Nat /\ (Log!Room => log_count + 1 <= CONSOLE_LOG_LINES)
      BY LogTypes DEF Log!Room
    <3> QED
      BY <3>1, LogTypes DEF Log!PushCount
  <2> QED
    BY <2>1, <2>2 DEF LogInv, Log!TypeOK, Log!PushCount, Log!snapping
<1>2. /\ log_push_line \in LogLines /\ Fills(log_count, log) /\ log_next_seq = Len(log) + 2
      /\ Holds(log_lines, log_seqs, log_head, log_count, log, Overwritten(log_count))
      /\ log_lines[Log!WriteIdx] = log_push_line /\ log_seqs[Log!WriteIdx] = Len(log) + 1
  BY DEF LogInv, RingInv, Log!PushCount
<1>3. LogExclusion' /\ SnapInv'
  BY PushAlone DEF LogInv, LogExclusion, Log!PushCount, Log!snapping
<1>4. /\ log \in Seq(LogLines) /\ log_head \in Log!Slots /\ log_count \in 0 .. CONSOLE_LOG_LINES
      /\ Append(log, log_push_line) \in Seq(LogLines)
      /\ Len(Append(log, log_push_line)) = Len(log) + 1
  BY <1>2, AppendProperties DEF LogInv, Log!TypeOK
<1>5. /\ Fills(log_count', Append(log, log_push_line))
      /\ Holds(log_lines, log_seqs, log_head', log_count', Append(log, log_push_line), 0)
  <2>1. CASE Log!Room
    <3>1. /\ log_count' = log_count + 1 /\ log_head' = log_head
          /\ log_count < CONSOLE_LOG_LINES /\ log_count = Len(log)
      BY <1>2, <2>1, LogTypes DEF Log!PushCount, Log!Room, Fills
    <3>2. Overwritten(log_count) = 0
      BY <3>1, LogTypes DEF Overwritten
    <3>3. Holds(log_lines, log_seqs, log_head, log_count + 1, Append(log, log_push_line), 0)
      BY <1>2, <1>4, <3>1, <3>2, CountedInRoom DEF Log!WriteIdx
    <3>4. Fills(log_count + 1, Append(log, log_push_line))
      BY <1>4, <3>1, LogTypes DEF Fills
    <3> QED
      BY <3>1, <3>3, <3>4
  <2>2. CASE ~Log!Room
    <3>1. /\ log_count' = log_count /\ log_head' = (log_head + 1) % CONSOLE_LOG_LINES
          /\ log_count = CONSOLE_LOG_LINES /\ CONSOLE_LOG_LINES <= Len(log)
      BY <1>2, <2>2, LogTypes DEF Log!PushCount, Log!Room, Fills
    <3>2. Overwritten(log_count) = 1
      BY <3>1 DEF Overwritten
    <3>3. Holds(log_lines, log_seqs, (log_head + 1) % CONSOLE_LOG_LINES, CONSOLE_LOG_LINES,
                Append(log, log_push_line), 0)
      BY <1>2, <1>4, <3>1, <3>2, CountedInFull DEF Log!WriteIdx
    <3>4. Fills(CONSOLE_LOG_LINES, Append(log, log_push_line))
      BY <1>4, <3>1, LogTypes DEF Fills
    <3> QED
      BY <3>1, <3>3, <3>4
  <2> QED
    BY <2>1, <2>2
<1>6. RingInv'
  BY <1>2, <1>5 DEF RingInv, Log!PushCount
<1> QED
  BY <1>1, <1>3, <1>6 DEF LogInv

LEMMA PushExitKeeps == Log!RingAssumption /\ LogInv /\ Log!PushExit => LogInv'
<1> SUFFICES ASSUME Log!RingAssumption, LogInv, Log!PushExit PROVE LogInv'
  OBVIOUS
<1>1. /\ log_push_line \in LogLines /\ log_next_seq = Len(log) + 2
      /\ Fills(log_count, Append(log, log_push_line))
      /\ Holds(log_lines, log_seqs, log_head, log_count, Append(log, log_push_line), 0)
  BY DEF LogInv, RingInv, Log!PushExit
<1>2. log' \in Seq(LogLines) /\ Len(log') = Len(log) + 1
  BY <1>1, AppendProperties DEF LogInv, Log!TypeOK, Log!PushExit
<1>3. Log!TypeOK'
  BY <1>2 DEF LogInv, Log!TypeOK, Log!PushExit, Log!ring, Log!snapping
<1>4. SnapInv' /\ log_snap_pc = "idle"
  BY PushAlone DEF Log!PushExit
<1>5. LogExclusion'
  BY <1>4 DEF LogExclusion, Log!PushExit, Log!snapping
<1>6. log_next_seq' = Len(log') + 1
  BY <1>1, <1>2, LogTypes DEF Log!PushExit, Log!ring
<1>7. RingInv'
  BY <1>1, <1>6 DEF RingInv, Log!PushExit, Log!ring
<1> QED
  BY <1>3, <1>4, <1>5, <1>7 DEF LogInv

\* While core0 is inside its call core1 is not, and the ring stands still.
LEMMA SnapAlone ==
  ASSUME LogInv, UNCHANGED <<Log!ring, Log!pushing>>
  PROVE  /\ RingInv'
         /\ log_push_pc = "idle" => /\ Fills(log_count, log)
                                    /\ Holds(log_lines, log_seqs, log_head, log_count, log, 0)
<1>1. RingInv'
  BY DEF LogInv, RingInv, Log!ring, Log!pushing, Log!WriteIdx
<1>2. log_push_pc = "idle" => /\ Fills(log_count, log)
                              /\ Holds(log_lines, log_seqs, log_head, log_count, log, 0)
  BY DEF LogInv, RingInv
<1> QED
  BY <1>1, <1>2

LEMMA SnapEnterKeeps ==
    Log!RingAssumption /\ LogInv /\ (\E w \in Windows : Log!SnapEnter(w)) => LogInv'
<1> SUFFICES ASSUME Log!RingAssumption, LogInv, NEW w \in Windows, Log!SnapEnter(w) PROVE LogInv'
  OBVIOUS
<1>1. w \in Nat
  BY DEF Log!RingAssumption
<1>2. log_snap_n' \in Nat /\ log_snap_n' <= log_count /\ log_snap_skip' = log_count - log_snap_n'
  BY <1>1, LogTypes DEF Log!SnapEnter
<1>3. log_copied' = <<>> /\ <<>> \in Seq(Log!Entry) /\ Len(<<>>) = 0 /\ log_snap_i' = 0
  BY DEF Log!SnapEnter
<1>4. log_snap_n' \in 0 .. CONSOLE_LOG_LINES /\ log_snap_skip' \in 0 .. CONSOLE_LOG_LINES
  BY <1>2, LogTypes
<1>5. Log!TypeOK'
  BY <1>3, <1>4 DEF LogInv, Log!TypeOK, Log!SnapEnter, Log!Acquire, Log!ring, Log!pushing
<1>6. LogExclusion'
  BY DEF LogInv, LogExclusion, Log!SnapEnter, Log!Acquire, Log!pushing
<1>7. RingInv'
  BY SnapAlone DEF Log!SnapEnter
<1>8. SnapInv'
  <2>1. /\ log_snap_n' = IF log_count < w THEN log_count ELSE w
        /\ log_count' = log_count /\ log' = log
    BY DEF Log!SnapEnter, Log!ring, Log!pushing
  <2>2. 0 \in 0 .. log_snap_n'
    BY <1>2
  <2>3. \A k \in 1 .. 0 : FALSE
    OBVIOUS
  <2> QED
    BY <1>2, <1>3, <2>1, <2>2, <2>3 DEF SnapInv
<1> QED
  BY <1>5, <1>6, <1>7, <1>8 DEF LogInv

\* A line copied is the ring's at its place among the newest.
LEMMA SnapCopyKeeps == Log!RingAssumption /\ LogInv /\ Log!SnapCopy => LogInv'
<1> SUFFICES ASSUME Log!RingAssumption, LogInv, Log!SnapCopy PROVE LogInv'
  OBVIOUS
<1> DEFINE e == [seq |-> log_seqs[Log!SnapIdx], line |-> log_lines[Log!SnapIdx]]
           i == log_snap_skip + log_snap_i
<1>1. /\ log_push_pc = "idle" /\ RingInv'
      /\ Fills(log_count, log) /\ Holds(log_lines, log_seqs, log_head, log_count, log, 0)
  <2>1. log_push_pc = "idle"
    BY DEF LogInv, Log!TypeOK, LogExclusion, Log!SnapCopy
  <2> QED
    BY <2>1, SnapAlone DEF Log!SnapCopy
<1>2. /\ log_snap_n \in Nat /\ log_snap_n <= log_count
      /\ log_snap_i \in Nat /\ log_snap_i < log_snap_n
      /\ log_snap_skip = log_count - log_snap_n
  BY LogTypes DEF LogInv, Log!TypeOK, SnapInv, Log!SnapCopy
<1>3. /\ i \in 0 .. log_count - 1 /\ log_head + i \in Nat
      /\ Log!SnapIdx = (log_head + i) % CONSOLE_LOG_LINES
  <2>1. log_head \in Nat /\ log_count \in Nat /\ log_snap_skip \in Nat
    BY <1>2, LogTypes
  <2>2. i = log_count - log_snap_n + log_snap_i /\ i \in Nat /\ i < log_count
    BY <1>2, <2>1
  <2>3. log_head + i = log_head + log_snap_skip + log_snap_i
    BY <1>2, <2>1
  <2>4. i \in 0 .. log_count - 1 /\ log_head + i \in Nat
    BY <2>1, <2>2
  <2> QED
    BY <2>3, <2>4 DEF Log!SnapIdx
<1> HIDE DEF i
<1>4. Log!SnapIdx \in Log!Slots
  BY <1>3, IndexWraps
<1>5. e \in Log!Entry
  BY <1>4 DEF LogInv, Log!TypeOK, Log!Entry
<1>6. e = [seq |-> Len(log) - log_snap_n + (log_snap_i + 1),
           line |-> log[Len(log) - log_snap_n + (log_snap_i + 1)]]
  <2>1. Len(log) - log_count + 1 + i = Len(log) - log_snap_n + (log_snap_i + 1)
    BY <1>2, LogTypes DEF i
  <2>2. /\ log_lines[Log!SnapIdx] = log[Len(log) - log_count + 1 + i]
        /\ log_seqs[Log!SnapIdx] = Len(log) - log_count + 1 + i
    BY <1>1, <1>3 DEF Holds
  <2> QED
    BY <2>1, <2>2
<1> HIDE DEF e
<1>7. /\ log_copied \in Seq(Log!Entry) /\ Len(log_copied) = log_snap_i
      /\ \A k \in 1 .. log_snap_i :
            log_copied[k] = [seq  |-> Len(log) - log_snap_n + k,
                             line |-> log[Len(log) - log_snap_n + k]]
  BY DEF LogInv, Log!TypeOK, SnapInv, Log!SnapCopy
<1>8. /\ log_copied' = Append(log_copied, e) /\ log_snap_i' = log_snap_i + 1
      /\ UNCHANGED <<Log!ring, log_mutex, Log!pushing,
                     log_snap_pc, log_snap_n, log_snap_skip, log_out>>
  BY DEF Log!SnapCopy, e
<1>9. /\ Append(log_copied, e) \in Seq(Log!Entry)
      /\ Len(Append(log_copied, e)) = log_snap_i + 1
      /\ Append(log_copied, e)[log_snap_i + 1] = e
      /\ \A k \in 1 .. log_snap_i : Append(log_copied, e)[k] = log_copied[k]
  BY <1>5, <1>7, AppendProperties
<1>10. Log!TypeOK'
  BY <1>2, <1>8, <1>9 DEF LogInv, Log!TypeOK, Log!ring, Log!pushing
<1>11. LogExclusion'
  BY <1>8 DEF LogInv, LogExclusion, Log!pushing
<1>12. \A k \in 1 .. log_snap_i + 1 :
          Append(log_copied, e)[k]
            = [seq |-> Len(log) - log_snap_n + k, line |-> log[Len(log) - log_snap_n + k]]
  <2> SUFFICES ASSUME NEW k \in 1 .. log_snap_i + 1
               PROVE  Append(log_copied, e)[k]
                        = [seq  |-> Len(log) - log_snap_n + k,
                           line |-> log[Len(log) - log_snap_n + k]]
    OBVIOUS
  <2>1. CASE k = log_snap_i + 1
    BY <1>6, <1>9, <2>1
  <2>2. CASE k # log_snap_i + 1
    <3>1. k \in 1 .. log_snap_i
      BY <1>2, <2>2
    <3> QED
      BY <1>7, <1>9, <3>1
  <2> QED
    BY <2>1, <2>2
<1>13. log_snap_i + 1 \in 0 .. log_snap_n
  BY <1>2
<1>14. /\ \E w \in Windows : log_snap_n = IF log_count < w THEN log_count ELSE w
       /\ log_snap_skip = log_count - log_snap_n
  BY DEF LogInv, SnapInv, Log!SnapCopy
<1>15. SnapInv'
  BY <1>8, <1>9, <1>12, <1>13, <1>14 DEF SnapInv, Log!ring, Log!pushing
<1> QED
  BY <1>1, <1>10, <1>11, <1>15 DEF LogInv

LEMMA SnapExitKeeps == Log!RingAssumption /\ LogInv /\ Log!SnapExit => LogInv'
<1> SUFFICES ASSUME Log!RingAssumption, LogInv, Log!SnapExit PROVE LogInv'
  OBVIOUS
<1>1. Log!TypeOK'
  BY DEF LogInv, Log!TypeOK, Log!SnapExit, Log!ring, Log!pushing
<1>2. log_push_pc = "idle"
  BY DEF LogInv, Log!TypeOK, LogExclusion, Log!SnapExit
<1>3. LogExclusion'
  BY <1>2 DEF LogExclusion, Log!SnapExit, Log!pushing
<1>4. RingInv' /\ SnapInv'
  BY SnapAlone DEF Log!SnapExit, SnapInv
<1> QED
  BY <1>1, <1>3, <1>4 DEF LogInv

\* The invariant holds for every size of the ring, every window and any number of lines.
LEMMA LogInvariant == Log!Spec => []LogInv
<1>1. Log!Init => LogInv
  BY LogInit, LogAssumption
<1>2. LogInv /\ [Log!Next]_(Log!vars) => LogInv'
  <2> SUFFICES ASSUME LogInv, [Log!Next]_(Log!vars) PROVE LogInv'
    OBVIOUS
  <2>1. CASE UNCHANGED Log!vars
    <3>1. Log!TypeOK' /\ LogExclusion' /\ SnapInv'
      BY <2>1 DEF Log!vars, Log!ring, Log!pushing, Log!snapping,
                  LogInv, Log!TypeOK, LogExclusion, SnapInv
    <3>2. RingInv'
      BY <2>1, SnapAlone DEF Log!vars
    <3> QED
      BY <3>1, <3>2 DEF LogInv
  <2> QED
    BY <2>1, LogAssumption, PushEnterKeeps, PushStoreKeeps, PushNumberKeeps, PushCountKeeps,
       PushExitKeeps, SnapEnterKeeps, SnapCopyKeeps, SnapExitKeeps
       DEF Log!Next, Log!Push, Log!PushBody, Log!Snapshot, Log!SnapBody
<1> QED
  BY <1>1, <1>2, PTL DEF Log!Spec

\* Both ends of the ring stay in range, and what a snapshot reads are slots of it, for every
\* size and every window.
THEOREM LogTypeCorrect == Log!Spec => []Log!TypeOK
<1>1. LogInv => Log!TypeOK
  BY DEF LogInv
<1> QED
  BY <1>1, LogInvariant, PTL
-------------------------------------------------------------------------------
(* A ring under a mutex is a log with atomic calls. *)

\* What a snapshot returns: the lines asked for, as one sequence.
LEMMA SnapReturns ==
  ASSUME Log!RingAssumption, LogInv, Log!SnapExit
  PROVE  \E w \in Windows : Log!Abstract!Snapshot(w)
<1>1. /\ log_snap_i = log_snap_n /\ log_out' = log_copied /\ log' = log
      /\ log_copied \in Seq(Log!Entry) /\ Len(log_copied) = log_snap_n /\ log_snap_n \in Nat
      /\ \A k \in 1 .. log_snap_n :
            log_copied[k] = [seq  |-> Len(log) - log_snap_n + k,
                             line |-> log[Len(log) - log_snap_n + k]]
  BY DEF LogInv, Log!TypeOK, SnapInv, Log!SnapExit, Log!pushing
<1>2. PICK w \in Windows : log_snap_n = IF log_count < w THEN log_count ELSE w
  BY DEF LogInv, SnapInv, Log!SnapExit
<1>3. Fills(log_count, log)
  BY DEF LogInv, Log!TypeOK, RingInv, LogExclusion, Log!SnapExit
<1>4. w \in Nat
  BY DEF Log!RingAssumption
<1>5. log_snap_n = Log!Abstract!Least(Len(log), Log!Abstract!Least(CONSOLE_LOG_LINES, w))
  BY <1>2, <1>3, <1>4, LogTypes DEF Fills, Log!Abstract!Least
<1>6. log_copied = Log!Abstract!Newest(log_snap_n)
  BY <1>1 DEF Log!Abstract!Newest
<1> QED
  BY <1>1, <1>5, <1>6 DEF Log!Abstract!Snapshot

\* Whatever the two cores interleave inside one push and one snapshot, for every size of the
\* ring and every window: every snapshot is the newest lines at one moment, each with its own
\* number and without a gap (shared_state.h:57-74).
THEOREM RingIsALog == Log!Spec => Log!ImplementsLog
<1>1. Log!Init => Log!Abstract!Init
  BY DEF Log!Init, Log!Abstract!Init
<1>2. LogInv /\ [Log!Next]_(Log!vars) => [Log!Abstract!Next]_(Log!Abstract!vars)
  <2> SUFFICES ASSUME LogInv, [Log!Next]_(Log!vars) PROVE [Log!Abstract!Next]_(Log!Abstract!vars)
    OBVIOUS
  <2>1. CASE UNCHANGED Log!vars
    BY <2>1 DEF Log!vars, Log!pushing, Log!snapping, Log!Abstract!vars
  <2>2. CASE Log!PushExit
    <3>1. log_push_line \in LogLines
      BY <2>2 DEF LogInv, RingInv, Log!PushExit
    <3>2. Log!Abstract!Push(log_push_line)
      BY <2>2 DEF Log!PushExit, Log!snapping, Log!Abstract!Push
    <3> QED
      BY <3>1, <3>2 DEF Log!Abstract!Next
  <2>3. CASE Log!SnapExit
    BY <2>3, LogAssumption, SnapReturns DEF Log!Abstract!Next
  <2>4. CASE \/ \E l \in LogLines : Log!PushEnter(l)
             \/ Log!PushStore
             \/ Log!PushNumber
             \/ Log!PushCount
    BY <2>4 DEF Log!PushEnter, Log!PushStore, Log!PushNumber, Log!PushCount,
                Log!pushing, Log!snapping, Log!Abstract!vars
  <2>5. CASE Log!SnapCopy \/ \E w \in Windows : Log!SnapEnter(w)
    BY <2>5 DEF Log!SnapEnter, Log!SnapCopy, Log!pushing, Log!snapping, Log!Abstract!vars
  <2> QED
    BY <2>1, <2>2, <2>3, <2>4, <2>5 DEF Log!Next, Log!Push, Log!PushBody, Log!Snapshot, Log!SnapBody
<1> QED
  BY <1>1, <1>2, LogInvariant, PTL DEF Log!Spec, Log!ImplementsLog
-------------------------------------------------------------------------------
(* The two together. *)

\* Every step of the two is a step of the queue alone, or none of its.
LEMMA QueueRuns == SharedSpec => SafetySpec
<1>1. SharedInit => Init
  BY DEF SharedInit
<1>2. [SharedNext]_allvars => [Next]_vars
  BY DEF SharedNext, GcodePost, Status, Core1Pop, OnLine, InQueue, InLog, Next, allvars
<1> QED
  BY <1>1, <1>2, PTL DEF SharedSpec, SafetySpec

\* And the same for the log.
LEMMA LogRuns == SharedSpec => Log!Spec
<1>1. SharedInit => Log!Init
  BY DEF SharedInit
<1>2. [SharedNext]_allvars => [Log!Next]_(Log!vars)
  <2> SUFFICES ASSUME [SharedNext]_allvars PROVE [Log!Next]_(Log!vars)
    OBVIOUS
  <2>1. CASE UNCHANGED logvars
    BY <2>1 DEF logvars, Log!vars, Log!ring, Log!pushing, Log!snapping
  <2>2. CASE Log!Snapshot \/ Log!Push
    BY <2>2 DEF Log!Next
  <2> QED
    BY <2>1, <2>2 DEF SharedNext, GcodePost, Status, Core1Pop, OnLine, InQueue, InLog, allvars
<1> QED
  BY <1>1, <1>2, PTL DEF SharedSpec, Log!Spec

\* The queue keeps its promise while the same cores use the log.
THEOREM SharedQueueIsAFifo == SharedSpec => ImplementsFifo
  BY QueueRuns, QueueIsAFifo, PTL

\* Both rings keep their indices in range, whatever is under way in the other.
THEOREM SharedTypeCorrect == SharedSpec => []SharedTypeOK
<1>1. TypeOK /\ Log!TypeOK => SharedTypeOK
  BY DEF SharedTypeOK
<1> QED
  BY <1>1, QueueRuns, LogRuns, QueueTypeCorrect, LogTypeCorrect, PTL

\* The log keeps its promise while the same cores use the queue.
THEOREM SharedLogIsALog == SharedSpec => ImplementsLog
  BY LogRuns, RingIsALog, PTL DEF ImplementsLog
===============================================================================
