---------------------------- MODULE GrblLinkProofs ----------------------------
(***************************************************************************)
(* Theorems about GrblLink, for every value of its constants: its types,   *)
(* what of its lines is in flight, what a hold waits for, and the order of *)
(* the lines and what becomes of an accepted one.                          *)
(***************************************************************************)
EXTENDS GrblLink, TLAPS, FiniteSetTheorems, FunctionTheorems, SequenceTheorems

-------------------------------------------------------------------------------
(* What Append, Tail and SubSeq do to Count. *)

\* A count is a natural number, and the positions counted are a finite set.
LEMMA CountType ==
  ASSUME NEW S, NEW s \in Seq(S), NEW T
  PROVE  /\ IsFiniteSet({i \in 1 .. Len(s) : s[i] \in T})
         /\ Count(s, T) \in Nat
<1> DEFINE I == {i \in 1 .. Len(s) : s[i] \in T}
<1>1. IsFiniteSet(1 .. Len(s))
  BY LenProperties, FS_Interval
<1>2. IsFiniteSet(I)
  BY <1>1, FS_Subset
<1>3. Cardinality(I) \in Nat
  BY <1>2, FS_CardinalityType
<1> QED
  BY <1>2, <1>3 DEF Count

\* Nothing is counted in the empty sequence.
LEMMA CountEmpty == \A T : Count(<<>>, T) = 0
  BY FS_EmptySet DEF Count

\* Appending an element counts it if it is in the set.
LEMMA CountAppend ==
  ASSUME NEW S, NEW s \in Seq(S), NEW x \in S, NEW T
  PROVE  Count(Append(s, x), T) = Count(s, T) + (IF x \in T THEN 1 ELSE 0)
<1> DEFINE I == {i \in 1 .. Len(s) : s[i] \in T}
           J == {i \in 1 .. Len(Append(s, x)) : Append(s, x)[i] \in T}
<1>1. Len(s) \in Nat /\ Len(Append(s, x)) = Len(s) + 1
  BY LenProperties, AppendProperties
<1>2. \A i \in 1 .. Len(s) : Append(s, x)[i] = s[i]
  BY AppendProperties
<1>3. Append(s, x)[Len(s) + 1] = x
  BY AppendProperties
<1>4. J = IF x \in T THEN I \cup {Len(s) + 1} ELSE I
  BY <1>1, <1>2, <1>3
<1>5. IsFiniteSet(I) /\ Cardinality(I) \in Nat
  BY CountType DEF Count
<1>6. Len(s) + 1 \notin I
  BY <1>1
<1>7. Cardinality(J) = Cardinality(I) + (IF x \in T THEN 1 ELSE 0)
  <2> HIDE DEF I, J
  <2>1. Cardinality(I \cup {Len(s) + 1}) = Cardinality(I) + 1
    BY <1>5, <1>6, FS_AddElement
  <2> QED
    BY <1>4, <1>5, <2>1
<1> QED
  BY <1>7 DEF Count

\* Dropping a prefix of which at most the last element is in the set.
LEMMA CountDrop ==
  ASSUME NEW S, NEW s \in Seq(S), NEW T, NEW k \in 1 .. Len(s),
         \A i \in 1 .. k - 1 : s[i] \notin T
  PROVE  /\ SubSeq(s, k + 1, Len(s)) \in Seq(S)
         /\ Count(s, T) = Count(SubSeq(s, k + 1, Len(s)), T) + (IF s[k] \in T THEN 1 ELSE 0)
<1> DEFINE r == SubSeq(s, k + 1, Len(s))
           I == {i \in 1 .. Len(s) : s[i] \in T}
           J == {i \in 1 .. Len(r) : r[i] \in T}
           L == {i \in k + 1 .. Len(s) : s[i] \in T}
<1>1. Len(s) \in Nat /\ k \in Nat /\ k >= 1 /\ k <= Len(s)
  BY LenProperties
<1>2. \A i \in k + 1 .. Len(s) : s[i] \in S
  BY <1>1, ElementOfSeq
<1>3. r \in Seq(S) /\ Len(r) = Len(s) - k /\ \A i \in 1 .. Len(s) - k : r[i] = s[k + i]
  <2>1. /\ r \in Seq(S)
        /\ Len(r) = IF k + 1 <= Len(s) THEN Len(s) - (k + 1) + 1 ELSE 0
        /\ \A i \in 1 .. Len(s) - (k + 1) + 1 : r[i] = s[k + 1 + i - 1]
    BY <1>1, <1>2, SubSeqProperties
  <2> HIDE DEF r
  <2> QED
    BY <1>1, <2>1
<1> HIDE DEF r
<1>4. IsFiniteSet(J)
  BY <1>3, CountType
<1>5. L \subseteq I
  BY <1>1
<1>6. IsFiniteSet(L) /\ Cardinality(L) \in Nat
  <2>1. IsFiniteSet(I)
    BY CountType
  <2> HIDE DEF I, L
  <2>2. IsFiniteSet(L)
    BY <1>5, <2>1, FS_Subset
  <2> QED
    BY <2>2, FS_CardinalityType
<1>7. Cardinality(J) = Cardinality(L)
  <2> DEFINE f == [j \in J |-> j + k]
  <2>1. f \in [J -> L]
    BY <1>1, <1>3, SMTT(30)
  <2>2. \A a, b \in J : f[a] = f[b] => a = b
    BY <1>1, <1>3
  <2>3. \A i \in L : \E j \in J : f[j] = i
    <3> SUFFICES ASSUME NEW i \in L PROVE i - k \in J /\ f[i - k] = i
      OBVIOUS
    <3> QED
      BY <1>1, <1>3
  <2>4. f \in Bijection(J, L)
    <3> HIDE DEF f, J, L
    <3> QED
      BY <2>1, <2>2, <2>3, Fun_IsBij
  <2>5. ExistsBijection(J, L)
    BY <2>4 DEF ExistsBijection
  <2> HIDE DEF J, L
  <2> QED
    BY <2>5, <1>4, FS_Bijection
<1>8. I = IF s[k] \in T THEN L \cup {k} ELSE L
  BY <1>1
<1>9. k \notin L
  BY <1>1
<1>10. Cardinality(I) = Cardinality(J) + (IF s[k] \in T THEN 1 ELSE 0)
  <2> HIDE DEF I, J, L
  <2>1. Cardinality(L \cup {k}) = Cardinality(L) + 1
    BY <1>6, <1>9, FS_AddElement
  <2> QED
    BY <1>6, <1>7, <1>8, <2>1
<1> QED
  BY <1>3, <1>10 DEF r, Count

\* Taking the head off.
LEMMA CountTail ==
  ASSUME NEW S, NEW s \in Seq(S), NEW T, s # <<>>
  PROVE  /\ Tail(s) \in Seq(S)
         /\ Count(s, T) = Count(Tail(s), T) + (IF Head(s) \in T THEN 1 ELSE 0)
<1>1. Len(s) \in Nat /\ Len(s) >= 1
  BY EmptySeq
<1>2. Tail(s) \in Seq(S) /\ Tail(s) = SubSeq(s, 1 + 1, Len(s))
  BY HeadTailProperties, TailIsSubSeq
<1>3. Head(s) = s[1]
  OBVIOUS
<1>4. 1 \in 1 .. Len(s) /\ \A i \in 1 .. 1 - 1 : s[i] \notin T
  BY <1>1
<1>5. Count(s, T) = Count(SubSeq(s, 1 + 1, Len(s)), T) + (IF s[1] \in T THEN 1 ELSE 0)
  BY <1>4, CountDrop
<1> QED
  BY <1>2, <1>3, <1>5
-------------------------------------------------------------------------------
(* The units on the cable. *)

\* Texts, newlines and real-time bytes are units, and no two kinds are the same.
LEMMA UnitFacts ==
    /\ \A l \in LineIds \cup {GQuery} : Text(l) \in LineUnits /\ Text(l) # Newline
    /\ Newline \in LineUnits
    /\ LineUnits \subseteq Units
    /\ \A r \in {"hold", "resume", "reset", "poll"} : Byte(r) \in Units /\ Byte(r) \notin LineUnits
    /\ \A u \in Units : u \in LineUnits \/ \E r \in {"hold", "resume", "reset", "poll"} : u = Byte(r)
  BY DEF Units, LineUnits, Text, Newline, Byte

\* A whole line that fits leaves the transmit FIFO within its size.
LEMMA WriteLineType ==
  ASSUME TypeOK, NEW l \in LineIds \cup {GQuery}, Fits(l), WriteLine(l)
  PROVE  /\ tx' \in Seq(Units) /\ Len(tx') <= TxRoom
         /\ tx' = Append(Append(tx, Text(l)), Newline)
<1>1. Text(l) \in Units /\ Newline \in Units
  BY UnitFacts
<1>2. tx \in Seq(Units) /\ Len(tx) + 2 <= TxRoom /\ Len(tx) \in Nat /\ TxRoom \in Nat
  BY ConstantsAssumption, LenProperties DEF TypeOK, Fits
<1>3. tx' = tx \o <<Text(l), Newline>>
  BY DEF WriteLine
<1>4. tx' = Append(Append(tx, Text(l)), Newline)
  <2>1. <<Text(l)>> \in Seq(Units) /\ <<Newline>> \in Seq(Units)
    BY <1>1
  <2>2. <<Text(l), Newline>> = <<Text(l)>> \o <<Newline>>
    BY <1>1
  <2>3. tx' = (tx \o <<Text(l)>>) \o <<Newline>>
    BY <1>2, <1>3, <2>1, <2>2, ConcatAssociative
  <2>4. Append(tx, Text(l)) = tx \o <<Text(l)>> /\ Append(tx, Text(l)) \in Seq(Units)
    BY <1>1, <1>2, AppendIsConcat, AppendProperties
  <2> QED
    BY <1>1, <2>3, <2>4, AppendIsConcat
<1>5. /\ Append(tx, Text(l)) \in Seq(Units) /\ Len(Append(tx, Text(l))) = Len(tx) + 1
  BY <1>1, <1>2, AppendProperties
<1>6. /\ tx' \in Seq(Units) /\ Len(tx') = Len(Append(tx, Text(l))) + 1
  BY <1>1, <1>4, <1>5, AppendProperties
<1> QED
  BY <1>2, <1>4, <1>5, <1>6

\* So does what fits of anything else.
LEMMA WriteCutType ==
  ASSUME TypeOK, NEW u \in Units, WriteCut(u)
  PROVE  /\ tx' \in Seq(Units) /\ Len(tx') <= TxRoom
         /\ tx' = tx \/ tx' = Append(tx, u)
<1>1. tx \in Seq(Units) /\ Len(tx) <= TxRoom /\ Len(tx) \in Nat /\ TxRoom \in Nat
  BY ConstantsAssumption, LenProperties DEF TypeOK
<1>2. CASE Len(tx) < TxRoom
  BY <1>1, <1>2, AppendProperties DEF WriteCut
<1>3. CASE ~(Len(tx) < TxRoom)
  BY <1>1, <1>3 DEF WriteCut
<1> QED
  BY <1>2, <1>3

\* What grblHAL says stays within what can be in transit.
LEMMA SaysType ==
  ASSUME TypeOK, NEW r \in Replies, Says(r)
  PROVE  replies' \in Seq(Replies) /\ Len(replies') <= ReplyRoom /\ replies' = Append(replies, r)
<1>1. replies \in Seq(Replies) /\ Len(replies) \in Nat /\ ReplyRoom \in Nat
  BY ConstantsAssumption, LenProperties DEF TypeOK
<1> QED
  BY <1>1, AppendProperties DEF Says

-------------------------------------------------------------------------------
(* Type correctness. *)

\* A POST /api/gcode, at any place.
Posts == [active : BOOLEAN, todo : Seq(LineIds), queued : Nat, rejected : Nat]

\* The initial states are well typed.
LEMMA TypeInit == Init => TypeOK
<1>1. NoPost \in Posts
  BY DEF NoPost, Posts
<1>2. 0 \in 0 .. MaxLines /\ 0 \in 0 .. MaxRequests /\ 0 \in 0 .. MaxCableMoves
  BY ConstantsAssumption
<1>3. /\ <<>> \in Seq(LineIds) /\ <<>> \in Seq(Units) /\ <<>> \in Seq(LineUnits)
      /\ <<>> \in Seq(Replies) /\ Len(<<>>) = 0
  BY EmptySeq
<1>4. 0 <= GCODE_QUEUE_DEPTH /\ 0 <= TxRoom /\ 0 <= ReplyRoom
  BY ConstantsAssumption
<1> SUFFICES ASSUME Init PROVE TypeOK
  OBVIOUS
<1>5. /\ mounted \in BOOLEAN /\ waiting_ok \in BOOLEAN /\ expired \in BOOLEAN
      /\ poll_due \in BOOLEAN /\ need_g_query \in BOOLEAN /\ connected \in BOOLEAN
      /\ plugged \in BOOLEAN /\ held \in BOOLEAN
  BY DEF Init
<1>6. pc \in Phases /\ alarm \in {"none", "error", "ALARM"}
      /\ rt \subseteq Requests
  BY DEF Init, Phases
<1>7. /\ queue \in Seq(LineIds) /\ Len(queue) <= GCODE_QUEUE_DEPTH
      /\ tx \in Seq(Units) /\ Len(tx) <= TxRoom
      /\ replies \in Seq(Replies) /\ Len(replies) <= ReplyRoom
      /\ inbox \in Seq(LineUnits)
  BY <1>3, <1>4 DEF Init
<1>8. /\ posted \in 0 .. MaxLines /\ accepted \subseteq LineIds /\ executed \subseteq LineIds
      /\ giveups \in Nat /\ overtaken \in Nat
      /\ requests \in 0 .. MaxRequests /\ cable_moves \in 0 .. MaxCableMoves
  BY <1>2 DEF Init
<1>9. post \in Posts
  BY <1>1 DEF Init
<1> QED
  BY <1>5, <1>6, <1>7, <1>8, <1>9 DEF TypeOK, Posts

\* The body of a POST loses its first line, and one of its two counts goes up.
LEMMA PostStep ==
  ASSUME post \in Posts, post.todo # <<>>
  PROVE  /\ Head(post.todo) \in LineIds
         /\ [post EXCEPT !.todo = Tail(@), !.queued = @ + 1] \in Posts
         /\ [post EXCEPT !.todo = Tail(@), !.rejected = @ + 1] \in Posts
<1>1. Head(post.todo) \in LineIds /\ Tail(post.todo) \in Seq(LineIds)
  BY HeadTailProperties DEF Posts
<1>2. post.queued + 1 \in Nat /\ post.rejected + 1 \in Nat
  BY DEF Posts
<1> QED
  BY <1>1, <1>2 DEF Posts

\* The steps of core0.
LEMMA TypeCore0 == TypeOK /\ Core0 => TypeOK'
<1> SUFFICES ASSUME TypeOK, Core0 PROVE TypeOK'
  OBVIOUS
<1> USE DEF core1, shared, cable, grblHAL, ledger, bounds, history
<1>0. post \in Posts
  BY DEF TypeOK, Posts
<1>1. ASSUME NEW k \in PostSizes, PostBegin(k) PROVE TypeOK'
  <2>1. posted \in Nat /\ k \in Nat /\ posted + k <= MaxLines /\ MaxLines \in Nat
    BY <1>1, ConstantsAssumption DEF PostBegin, TypeOK
  <2>2. [i \in 1 .. k |-> posted + i] \in [1 .. k -> LineIds]
    BY <2>1 DEF LineIds
  <2>3. [i \in 1 .. k |-> posted + i] \in Seq(LineIds)
    BY <2>1, <2>2, SeqDef
  <2>4. post' \in Posts
    BY <1>1, <2>3 DEF PostBegin, NoPost, Posts
  <2>5. posted' \in 0 .. MaxLines
    BY <1>1, <2>1 DEF PostBegin
  <2> QED
    BY <1>1, <2>4, <2>5 DEF PostBegin, TypeOK, Posts
<1>2. CASE PostAccept
  <2>1. Head(post.todo) \in LineIds /\ post' \in Posts
    BY <1>0, <1>2, PostStep DEF PostAccept
  <2>2. queue' \in Seq(LineIds) /\ Len(queue') <= GCODE_QUEUE_DEPTH
    BY <1>2, <2>1, ConstantsAssumption, AppendProperties, LenProperties
       DEF PostAccept, Push, QueueHasRoom, TypeOK
  <2>3. accepted' \subseteq LineIds
    BY <1>2, <2>1 DEF PostAccept, TypeOK
  <2> QED
    BY <1>2, <2>1, <2>2, <2>3, SMTT(30) DEF PostAccept, TypeOK, Posts
<1>3. CASE PostReject
  <2>1. post' \in Posts
    BY <1>0, <1>3, PostStep DEF PostReject
  <2> QED
    BY <1>3, <2>1, SMTT(30) DEF PostReject, TypeOK, Posts
<1>4. CASE PostReply
  BY <1>4, EmptySeq DEF PostReply, NoPost, TypeOK
<1>5. ASSUME NEW r \in Requests, Realtime(r) PROVE TypeOK'
  <2>1. r \in {"hold", "resume", "reset"}
    BY ConstantsAssumption
  <2>2. requests' \in 0 .. MaxRequests
    BY <1>5, ConstantsAssumption DEF Realtime, TypeOK
  <2>3. rt' \subseteq Requests /\ alarm' \in {"none", "error", "ALARM"}
    BY <1>5 DEF Realtime, TypeOK
  <2>4. overtaken' \in Nat
    BY <1>5, <2>1 DEF Realtime, TypeOK
  <2> QED
    BY <1>5, <2>2, <2>3, <2>4 DEF Realtime, TypeOK
<1>6. CASE FlagStall
  BY <1>6 DEF FlagStall, TypeOK
<1> QED
  BY <1>1, <1>2, <1>3, <1>4, <1>5, <1>6 DEF Core0

\* What on_line consumes keeps its type.
LEMMA OnLineType ==
  ASSUME TypeOK, NEW lines, OnLine(lines)
  PROVE  /\ replies # <<>> /\ Head(replies) \in Replies
         /\ replies' = Tail(replies) /\ replies' \in Seq(Replies) /\ Len(replies') <= ReplyRoom
<1>1. replies \in Seq(Replies) /\ replies # <<>> /\ replies' = Tail(replies)
  BY DEF OnLine, TypeOK
<1>2. Head(replies) \in Replies /\ replies' \in Seq(Replies) /\ Len(replies') = Len(replies) - 1
  BY <1>1, HeadTailProperties
<1>3. Len(replies) \in Nat /\ ReplyRoom \in Nat /\ Len(replies) <= ReplyRoom
  BY <1>1, LenProperties, ConstantsAssumption DEF TypeOK
<1> QED
  BY <1>1, <1>2, <1>3

\* The number of premature ends of a wait goes up by at most one.
LEMMA GiveUpType ==
  ASSUME TypeOK, GiveUp
  PROVE  giveups' \in Nat /\ giveups' = giveups + (IF waiting_ok THEN 1 ELSE 0)
  BY DEF TypeOK, GiveUp

\* The steps of core1 in usb_host_cdc_task().
LEMMA TypeTask == TypeOK /\ (Task \/ TaskDone) => TypeOK'
<1> SUFFICES ASSUME TypeOK, Task \/ TaskDone PROVE TypeOK'
  OBVIOUS
<1> USE DEF core1, shared, cable, grblHAL, ledger, bounds, history
<1>1. CASE Mount
  BY <1>1, GiveUpType DEF Mount, TypeOK
<1>2. CASE Unmount
  <2>1. <<>> \in Seq(Units) /\ Len(<<>>) <= TxRoom
    BY EmptySeq, ConstantsAssumption
  <2> QED
    BY <1>2, <2>1, GiveUpType DEF Unmount, TypeOK
<1>3. CASE OnAnswer
  <2>1. OnLine({"ok", "error"})
    BY <1>3 DEF OnAnswer
  <2>2. replies' \in Seq(Replies) /\ Len(replies') <= ReplyRoom
    BY <2>1, OnLineType
  <2>3. alarm' \in {"none", "error", "ALARM"}
    BY <1>3 DEF OnAnswer, TypeOK
  <2> QED
    BY <1>3, <2>1, <2>2, <2>3 DEF OnAnswer, OnLine, TypeOK
<1>4. CASE OnAlarm
  <2>1. OnLine({"ALARM"})
    BY <1>4 DEF OnAlarm
  <2>2. replies' \in Seq(Replies) /\ Len(replies') <= ReplyRoom
    BY <2>1, OnLineType
  <2> QED
    BY <1>4, <2>1, <2>2 DEF OnAlarm, OnLine, TypeOK
<1>5. CASE OnBanner
  <2>1. OnLine({"banner"})
    BY <1>5 DEF OnBanner
  <2>2. replies' \in Seq(Replies) /\ Len(replies') <= ReplyRoom
    BY <2>1, OnLineType
  <2> QED
    BY <1>5, <2>1, <2>2, GiveUpType DEF OnBanner, OnLine, TypeOK
<1>6. CASE OnStatus
  <2>1. OnLine({"status"})
    BY <1>6 DEF OnStatus
  <2>2. replies' \in Seq(Replies) /\ Len(replies') <= ReplyRoom
    BY <2>1, OnLineType
  <2> QED
    BY <1>6, <2>1, <2>2 DEF OnStatus, OnLine, TypeOK
<1>7. CASE TaskDone
  BY <1>7 DEF TaskDone, TypeOK, Phases
<1> QED
  BY <1>1, <1>2, <1>3, <1>4, <1>5, <1>6, <1>7 DEF Task

\* The rest of core1's loop.
LEMMA TypePass == TypeOK /\ Pass => TypeOK'
<1> SUFFICES ASSUME TypeOK, Pass PROVE TypeOK'
  OBVIOUS
<1> USE DEF core1, shared, cable, grblHAL, ledger, bounds, history
<1>1. CASE SendRealtime
  <2>1. Taken(rt) \in {"hold", "resume", "reset"}
    BY DEF Taken
  <2>2. Byte(Taken(rt)) \in Units
    BY <2>1, UnitFacts
  <2>3. tx' \in Seq(Units) /\ Len(tx') <= TxRoom
    BY <1>1, <2>2, WriteCutType DEF SendRealtime
  <2>4. overtaken' \in Nat /\ rt' \subseteq Requests
    BY <1>1 DEF SendRealtime, TypeOK
  <2> QED
    BY <1>1, <2>3, <2>4 DEF SendRealtime, TypeOK, Phases
<1>2. CASE SendPoll
  <2>1. tx' \in Seq(Units) /\ Len(tx') <= TxRoom
    BY <1>2, UnitFacts, WriteCutType DEF SendPoll
  <2> QED
    BY <1>2, <2>1 DEF SendPoll, TypeOK, Phases
<1>3. CASE TimeOut
  <2>1. giveups' \in Nat
    BY <1>3, GiveUpType DEF TimeOut
  <2> QED
    BY <1>3, <2>1, ZenonT(30) DEF TimeOut, TypeOK, Phases
<1>4. CASE SendGQuery
  <2>1. tx' \in Seq(Units) /\ Len(tx') <= TxRoom
    BY <1>4, WriteLineType DEF SendGQuery
  <2> QED
    BY <1>4, <2>1 DEF SendGQuery, StartWaiting, TypeOK, Phases
<1>5. CASE CutGQuery
  <2>1. tx' \in Seq(Units) /\ Len(tx') <= TxRoom
    BY <1>5, UnitFacts, WriteCutType DEF CutGQuery
  <2> QED
    BY <1>5, <2>1 DEF CutGQuery, TypeOK, Phases
<1>6. ASSUME SendLine \/ CutLine
      PROVE  /\ Head(queue) \in LineIds
             /\ queue' \in Seq(LineIds) /\ Len(queue') <= GCODE_QUEUE_DEPTH
             /\ overtaken' \in Nat
  <2>1. queue \in Seq(LineIds) /\ queue # <<>> /\ queue' = Tail(queue)
    BY <1>6 DEF SendLine, CutLine, CanPop, TypeOK
  <2>2. /\ Head(queue) \in LineIds /\ queue' \in Seq(LineIds)
        /\ Len(queue') = Len(queue) - 1
    BY <2>1, HeadTailProperties
  <2>3. Len(queue) \in Nat /\ GCODE_QUEUE_DEPTH \in Nat /\ Len(queue) <= GCODE_QUEUE_DEPTH
    BY <2>1, LenProperties, ConstantsAssumption DEF TypeOK
  <2>4. overtaken' \in Nat
    BY <1>6 DEF SendLine, CutLine, CountOvertaking, TypeOK
  <2> QED
    BY <2>2, <2>3, <2>4
<1>7. CASE SendLine
  <2>1. tx' \in Seq(Units) /\ Len(tx') <= TxRoom
    BY <1>6, <1>7, WriteLineType DEF SendLine
  <2> QED
    BY <1>6, <1>7, <2>1, ZenonT(30) DEF SendLine, StartWaiting, TypeOK, Phases
<1>8. CASE CutLine
  <2>1. tx' \in Seq(Units) /\ Len(tx') <= TxRoom
    BY <1>6, <1>8, UnitFacts, WriteCutType DEF CutLine
  <2> QED
    BY <1>6, <1>8, <2>1 DEF CutLine, TypeOK, Phases
<1>9. CASE NothingToDo
  BY <1>9 DEF NothingToDo, TypeOK, Phases
<1> QED
  BY <1>1, <1>2, <1>3, <1>4, <1>5, <1>7, <1>8, <1>9 DEF Pass
\* What grblHAL does with the unit it takes off the cable: a unit of a line goes to its
\* input or repeats what is there, a real-time byte is never a part of a line.
LEMMA ReceiveCases ==
  ASSUME TypeOK, GrblReceive
  PROVE  \/ /\ Head(tx) \in LineUnits
            /\ inbox' \in {inbox, Append(inbox, Head(tx))}
            /\ held' = held /\ replies' = replies
         \/ /\ Head(tx) \notin LineUnits
            /\ held' \in {held, TRUE, FALSE} /\ inbox' \in {inbox, <<>>}
            /\ replies' = replies \/ Says("status") \/ Says("banner")
<1>1. tx \in Seq(Units) /\ tx # <<>>
  BY DEF GrblReceive, TypeOK
<1>2. Head(tx) \in Units
  BY <1>1, HeadTailProperties
<1>3. ASSUME Head(tx) \in LineUnits
      PROVE  inbox' \in {inbox, Append(inbox, Head(tx))} /\ held' = held /\ replies' = replies
  <2>1. /\ Head(tx) # Byte("poll") /\ Head(tx) # Byte("hold")
        /\ Head(tx) # Byte("resume") /\ Head(tx) # Byte("reset")
    BY <1>3, UnitFacts
  <2> QED
    BY <1>3, <2>1 DEF GrblReceive
<1>4. ASSUME NEW r \in {"hold", "resume", "reset", "poll"}, Head(tx) = Byte(r)
      PROVE  /\ Head(tx) \notin LineUnits
             /\ held' \in {held, TRUE, FALSE} /\ inbox' \in {inbox, <<>>}
             /\ replies' = replies \/ Says("status") \/ Says("banner")
  <2>1. Byte(r) \notin LineUnits
    BY UnitFacts
  <2>2. \A q \in {"hold", "resume", "reset", "poll"} : Byte(r) = Byte(q) => r = q
    BY DEF Byte
  <2> QED
    BY <1>4, <2>1, <2>2 DEF GrblReceive, grblHAL
<1> QED
  BY <1>2, <1>3, <1>4, UnitFacts

\* So its input and what it says stay well typed.
LEMMA ReceiveType ==
  ASSUME TypeOK, GrblReceive
  PROVE  /\ inbox' \in Seq(LineUnits) /\ held' \in BOOLEAN
         /\ replies' \in Seq(Replies) /\ Len(replies') <= ReplyRoom
<1>1. inbox \in Seq(LineUnits) /\ held \in BOOLEAN
  BY DEF TypeOK
<1>2. replies \in Seq(Replies) /\ Len(replies) <= ReplyRoom
  BY DEF TypeOK
<1>3. "status" \in Replies /\ "banner" \in Replies
  BY DEF Replies
<1>4. replies' = replies \/ Says("status") \/ Says("banner")
  BY ReceiveCases
<1>5. replies' \in Seq(Replies) /\ Len(replies') <= ReplyRoom
  BY <1>2, <1>3, <1>4, SaysType
<1>6. /\ \/ inbox' \in {inbox, <<>>}
         \/ Head(tx) \in LineUnits /\ inbox' = Append(inbox, Head(tx))
      /\ held' \in {held, TRUE, FALSE}
  BY ReceiveCases
<1>7. inbox' \in Seq(LineUnits) /\ held' \in BOOLEAN
  <2>1. <<>> \in Seq(LineUnits)
    BY EmptySeq
  <2>2. ASSUME NEW u \in LineUnits PROVE Append(inbox, u) \in Seq(LineUnits)
    BY <1>1, AppendProperties
  <2> QED
    BY <1>1, <1>6, <2>1, <2>2
<1> QED
  BY <1>5, <1>7

\* The steps of the clock, the cable and grblHAL.
LEMMA TypeEnvironment == TypeOK /\ Environment => TypeOK'
<1> SUFFICES ASSUME TypeOK, Environment PROVE TypeOK'
  OBVIOUS
<1> USE DEF core1, shared, cable, grblHAL, ledger, bounds, history
<1>1. CASE DeadlinePasses
  BY <1>1 DEF DeadlinePasses, TypeOK
<1>2. CASE PollInterval
  BY <1>2 DEF PollInterval, TypeOK
<1>0. ASSUME MoveCable PROVE cable_moves' \in 0 .. MaxCableMoves
  BY <1>0, ConstantsAssumption DEF MoveCable, TypeOK
<1>3. CASE Plug
  <2>1. <<>> \in Seq(LineUnits) /\ <<>> \in Seq(Replies) /\ Len(<<>>) = 0
    BY EmptySeq
  <2>2. <<"banner">> \in Seq(Replies) /\ Len(<<"banner">>) = 1
    BY DEF Replies
  <2>3. ReplyRoom \in Nat /\ ReplyRoom >= 1
    BY ConstantsAssumption
  <2>4. replies' \in Seq(Replies) /\ Len(replies') <= ReplyRoom
    <3>1. replies' = replies \/ replies' = <<>> \/ replies' = <<"banner">>
      BY <1>3 DEF Plug
    <3>2. replies \in Seq(Replies) /\ Len(replies) <= ReplyRoom
      BY DEF TypeOK
    <3>3. CASE replies' = replies
      BY <3>2, <3>3
    <3>4. CASE replies' = <<>>
      BY <2>1, <2>3, <3>4
    <3>5. CASE replies' = <<"banner">>
      BY <2>2, <2>3, <3>5
    <3> QED
      BY <3>1, <3>3, <3>4, <3>5
  <2>5. inbox' \in Seq(LineUnits) /\ held' \in BOOLEAN
    BY <1>3, <2>1 DEF Plug, TypeOK
  <2>6. cable_moves' \in 0 .. MaxCableMoves
    BY <1>0, <1>3 DEF Plug
  <2> QED
    BY <1>3, <2>4, <2>5, <2>6 DEF Plug, TypeOK
<1>4. CASE Unplug
  <2>1. <<>> \in Seq(Replies) /\ Len(<<>>) <= ReplyRoom
    BY EmptySeq, ConstantsAssumption
  <2>2. cable_moves' \in 0 .. MaxCableMoves
    BY <1>0, <1>4 DEF Unplug
  <2> QED
    BY <1>4, <2>1, <2>2, ZenonT(30) DEF Unplug, TypeOK
<1>5. CASE GrblReceive
  <2>1. tx \in Seq(Units) /\ tx # <<>> /\ tx' = Tail(tx)
    BY <1>5 DEF GrblReceive, TypeOK
  <2>2. Head(tx) \in Units /\ tx' \in Seq(Units) /\ Len(tx') = Len(tx) - 1
    BY <2>1, HeadTailProperties
  <2>3. Len(tx) \in Nat /\ TxRoom \in Nat /\ Len(tx) <= TxRoom
    BY <2>1, LenProperties, ConstantsAssumption DEF TypeOK
  <2>4. Len(tx') <= TxRoom
    BY <2>2, <2>3
  <2>5. /\ inbox' \in Seq(LineUnits) /\ held' \in BOOLEAN
        /\ replies' \in Seq(Replies) /\ Len(replies') <= ReplyRoom
    BY <1>5, ReceiveType
  <2> QED
    BY <1>5, <2>2, <2>4, <2>5 DEF GrblReceive, TypeOK
<1>6. ASSUME NEW a \in {"ok", "error"}, GrblAnswer(a) PROVE TypeOK'
  <2>1. inbox' \in Seq(LineUnits)
    <3>1. PICK k \in DOMAIN inbox : Command(k) /\ inbox' = SubSeq(inbox, k + 1, Len(inbox))
      BY <1>6 DEF GrblAnswer
    <3>2. inbox \in Seq(LineUnits)
      BY DEF TypeOK
    <3>3. k \in 1 .. Len(inbox) /\ \A i \in 1 .. k - 1 : inbox[i] \notin {Newline}
      BY <3>1, <3>2, LenProperties DEF Command
    <3> QED
      BY <3>1, <3>2, <3>3, CountDrop
  <2>2. executed' \subseteq LineIds
    BY <1>6 DEF GrblAnswer, TypeOK
  <2>3. replies' \in Seq(Replies) /\ Len(replies') <= ReplyRoom
    <3>1. a \in Replies
      BY <1>6 DEF Replies
    <3>2. CASE plugged
      BY <1>6, <3>1, <3>2, SaysType DEF GrblAnswer
    <3>3. CASE ~plugged
      BY <1>6, <3>3 DEF GrblAnswer, TypeOK
    <3> QED
      BY <3>2, <3>3
  <2> QED
    BY <1>6, <2>1, <2>2, <2>3, SMTT(30) DEF GrblAnswer, TypeOK
<1>7. CASE GrblAlarm
  <2>1. replies' \in Seq(Replies) /\ Len(replies') <= ReplyRoom
    BY <1>7, SaysType DEF GrblAlarm, Replies
  <2>2. inbox' \in Seq(LineUnits)
    BY <1>7, EmptySeq DEF GrblAlarm, TypeOK
  <2>3. requests' \in 0 .. MaxRequests
    BY <1>7, ConstantsAssumption DEF GrblAlarm, TypeOK
  <2> QED
    BY <1>7, <2>1, <2>2, <2>3 DEF GrblAlarm, TypeOK
<1> QED
  BY <1>1, <1>2, <1>3, <1>4, <1>5, <1>6, <1>7 DEF Environment

\* The model never leaves its types: in particular the queue, the transmit FIFO and the
\* lines in transit stay within their capacities, whatever the two cores, the cable and
\* grblHAL do.
THEOREM TypeCorrect == SafetySpec => []TypeOK
<1>1. TypeOK /\ [Next]_vars => TypeOK'
  <2> SUFFICES ASSUME TypeOK, [Next]_vars PROVE TypeOK'
    OBVIOUS
  <2>1. CASE UNCHANGED vars
    BY <2>1 DEF vars, core1, shared, cable, grblHAL, ledger, bounds, history, TypeOK
  <2> QED
    BY <2>1, TypeCore0, TypeTask, TypePass, TypeEnvironment DEF Next, Core1
<1> QED
  BY TypeInit, <1>1, PTL DEF SafetySpec

-------------------------------------------------------------------------------
(* The handshake.  InFlightBound is inductive once the types are known: every   *)
(* step is looked at for what it does to the three counts InFlight adds up.     *)

\* The three places a line sent and unanswered can be counted in.
Sent     == Count(tx, {Newline})
Received == Count(inbox, {Newline})
Answered == Count(replies, {"ok", "error"})

\* How many lines may be in flight.
Allowance == (IF waiting_ok THEN 1 ELSE 0) + giveups

\* They are natural numbers.
LEMMA CountsType ==
  ASSUME TypeOK
  PROVE  /\ Sent \in Nat /\ Received \in Nat /\ Answered \in Nat /\ Allowance \in Nat
         /\ giveups \in Nat /\ waiting_ok \in BOOLEAN
<1>1. /\ tx \in Seq(Units) /\ inbox \in Seq(LineUnits) /\ replies \in Seq(Replies)
      /\ giveups \in Nat /\ waiting_ok \in BOOLEAN
  BY DEF TypeOK
<1>2. Sent \in Nat /\ Received \in Nat /\ Answered \in Nat
  BY <1>1, CountType DEF Sent, Received, Answered
<1>3. Allowance \in Nat
  BY <1>1 DEF Allowance
<1> QED
  BY <1>1, <1>2, <1>3

\* A wait, as a number, and a natural number add up to one.
LEMMA AllowanceType == ASSUME NEW w \in BOOLEAN, NEW n \in Nat
                       PROVE  (IF w THEN 1 ELSE 0) + n \in Nat
  OBVIOUS

\* So they are after a step.
LEMMA CountsTypeNext ==
  ASSUME TypeOK'
  PROVE  Sent' \in Nat /\ Received' \in Nat /\ Answered' \in Nat /\ Allowance' \in Nat
<1>1. /\ tx' \in Seq(Units) /\ inbox' \in Seq(LineUnits) /\ replies' \in Seq(Replies)
      /\ giveups' \in Nat /\ waiting_ok' \in BOOLEAN
  BY DEF TypeOK
<1>2. Sent' \in Nat /\ Received' \in Nat /\ Answered' \in Nat
  BY <1>1, CountType DEF Sent, Received, Answered
<1>3. Allowance' \in Nat
  BY <1>1, AllowanceType DEF Allowance
<1> QED
  BY <1>2, <1>3

\* Giving up changes a wait into a count of it.
LEMMA GiveUpAllowance ==
  ASSUME TypeOK, GiveUp, ~waiting_ok'
  PROVE  Allowance' = Allowance
  BY CountsType, GiveUpType DEF Allowance

\* Only what is newline counts on the cable.
LEMMA WriteCutSent ==
  ASSUME TypeOK, NEW u \in Units, u # Newline, WriteCut(u)
  PROVE  Sent' = Sent
<1>1. tx \in Seq(Units) /\ Sent \in Nat
  BY CountsType DEF TypeOK
<1>2. tx' = tx \/ tx' = Append(tx, u)
  BY WriteCutType
<1>3. CASE tx' = tx
  BY <1>3 DEF Sent
<1>4. CASE tx' = Append(tx, u)
  BY <1>1, <1>4, CountAppend DEF Sent
<1> QED
  BY <1>2, <1>3, <1>4

\* A whole line adds one.
LEMMA WriteLineSent ==
  ASSUME TypeOK, NEW l \in LineIds \cup {GQuery}, Fits(l), WriteLine(l)
  PROVE  Sent' = Sent + 1
<1>1. tx \in Seq(Units) /\ Sent \in Nat
  BY CountsType DEF TypeOK
<1>2. Text(l) \in Units /\ Text(l) # Newline /\ Newline \in Units
  BY UnitFacts
<1>3. tx' = Append(Append(tx, Text(l)), Newline)
  BY WriteLineType
<1>4. Append(tx, Text(l)) \in Seq(Units)
  BY <1>1, <1>2, AppendProperties
<1>5. Count(Append(tx, Text(l)), {Newline}) = Sent
  BY <1>1, <1>2, CountAppend DEF Sent
<1>6. Count(tx', {Newline}) = Count(Append(tx, Text(l)), {Newline}) + 1
  BY <1>2, <1>3, <1>4, CountAppend, ZenonT(40)
<1> QED
  BY <1>5, <1>6 DEF Sent

\* What grblHAL says adds one if it is an answer.
LEMMA SaysAnswered ==
  ASSUME TypeOK, NEW r \in Replies, Says(r)
  PROVE  Answered' = Answered + (IF r \in {"ok", "error"} THEN 1 ELSE 0)
<1>1. replies \in Seq(Replies) /\ replies' = Append(replies, r)
  BY SaysType DEF TypeOK
<1> QED
  BY <1>1, CountAppend DEF Answered

\* What core1 reads takes one away if it is an answer.
LEMMA OnLineAnswered ==
  ASSUME TypeOK, NEW lines, OnLine(lines)
  PROVE  /\ Answered' = Answered - (IF Head(replies) \in {"ok", "error"} THEN 1 ELSE 0)
         /\ Sent' = Sent /\ Received' = Received
<1>1. replies \in Seq(Replies) /\ replies # <<>> /\ replies' = Tail(replies)
  BY DEF OnLine, TypeOK
<1>2. /\ Tail(replies) \in Seq(Replies)
      /\ Count(replies, {"ok", "error"}) = Count(Tail(replies), {"ok", "error"})
                                          + (IF Head(replies) \in {"ok", "error"} THEN 1 ELSE 0)
  BY <1>1, CountTail
<1>4. /\ Count(replies, {"ok", "error"}) \in Nat
      /\ Count(Tail(replies), {"ok", "error"}) \in Nat
  BY <1>1, <1>2, CountType
<1>5. Answered' = Answered - (IF Head(replies) \in {"ok", "error"} THEN 1 ELSE 0)
  BY <1>1, <1>2, <1>4 DEF Answered
<1>3. tx' = tx /\ inbox' = inbox
  BY DEF OnLine, grblHAL
<1> QED
  BY <1>3, <1>5 DEF Sent, Received

\* What leaves the three places, the wait and the count of premature ends alone.
LEMMA BoundElsewhere ==
  ASSUME InFlightBound, UNCHANGED <<tx, inbox, replies, waiting_ok, giveups>>
  PROVE  InFlightBound'
  BY DEF InFlightBound, InFlight

\* What the steps of core1 outside that do to the counts: a whole line adds one and is
\* waited for, an answer takes one away, and nothing else is a line.
LEMMA BoundCore1 ==
  ASSUME TypeOK, Core1
  PROVE  \/ UNCHANGED <<tx, inbox, replies, waiting_ok, giveups>>
         \/ /\ Received' = Received /\ Answered' <= Answered /\ Sent' <= Sent
            /\ Allowance' = Allowance
         \/ /\ Received' = Received /\ Answered' = Answered /\ Sent' = Sent + 1
            /\ Allowance' = Allowance + 1
         \/ /\ Received' = Received /\ Answered' = Answered - 1 /\ Sent' = Sent
            /\ Allowance' \in {Allowance, Allowance - 1}
<1> USE DEF core1, shared, cable, grblHAL, ledger, bounds, history
<1>0. /\ Sent \in Nat /\ Received \in Nat /\ Answered \in Nat /\ Allowance \in Nat
      /\ giveups \in Nat /\ waiting_ok \in BOOLEAN
  BY CountsType
<1> DEFINE Less == /\ Received' = Received /\ Answered' <= Answered /\ Sent' <= Sent
                   /\ Allowance' = Allowance
           More == /\ Received' = Received /\ Answered' = Answered /\ Sent' = Sent + 1
                   /\ Allowance' = Allowance + 1
           Done == /\ Received' = Received /\ Answered' = Answered - 1 /\ Sent' = Sent
                   /\ Allowance' \in {Allowance, Allowance - 1}
<1>1. CASE Mount
  <2>1. Allowance' = Allowance
    BY <1>1, GiveUpAllowance DEF Mount
  <2>2. Sent' = Sent /\ Received' = Received /\ Answered' = Answered
    BY <1>1 DEF Mount, Sent, Received, Answered
  <2> QED
    BY <1>0, <2>1, <2>2
<1>2. CASE Unmount
  <2>1. Allowance' = Allowance
    BY <1>2, GiveUpAllowance DEF Unmount
  <2>2. Sent' = 0 /\ Received' = Received /\ Answered' = Answered
    BY <1>2, CountEmpty DEF Unmount, Sent, Received, Answered
  <2> QED
    BY <1>0, <2>1, <2>2
<1>3. CASE OnAnswer
  <2>1. OnLine({"ok", "error"}) /\ Head(replies) \in {"ok", "error"}
    BY <1>3 DEF OnAnswer, OnLine
  <2>2. Answered' = Answered - 1 /\ Sent' = Sent /\ Received' = Received
    BY <1>0, <2>1, OnLineAnswered
  <2>3. Allowance' = giveups
    BY <1>0, <1>3 DEF OnAnswer, Allowance
  <2>4. giveups \in {Allowance, Allowance - 1}
    BY <1>0 DEF Allowance
  <2> QED
    BY <2>2, <2>3, <2>4
<1>4. CASE OnBanner
  <2>1. OnLine({"banner"}) /\ Head(replies) \notin {"ok", "error"}
    BY <1>4 DEF OnBanner, OnLine
  <2>2. Answered' = Answered /\ Sent' = Sent /\ Received' = Received
    BY <1>0, <2>1, OnLineAnswered
  <2>3. Allowance' = Allowance
    BY <1>4, GiveUpAllowance DEF OnBanner
  <2> QED
    BY <1>0, <2>2, <2>3
<1>5. CASE OnAlarm \/ OnStatus
  <2>1. PICK lines \in {{"ALARM"}, {"status"}} : OnLine(lines)
    BY <1>5 DEF OnAlarm, OnStatus
  <2>2. Head(replies) \notin {"ok", "error"}
    BY <2>1 DEF OnLine
  <2>3. Answered' = Answered /\ Sent' = Sent /\ Received' = Received
    BY <1>0, <2>1, <2>2, OnLineAnswered
  <2>4. Allowance' = Allowance
    BY <1>5 DEF OnAlarm, OnStatus, Allowance
  <2> QED
    BY <1>0, <2>3, <2>4
<1>6. CASE SendRealtime \/ SendPoll \/ CutGQuery \/ CutLine
  <2>1. Sent' = Sent
    <3>1. ASSUME NEW r \in {"hold", "resume", "reset", "poll"}, WriteCut(Byte(r))
          PROVE  Sent' = Sent
      BY <3>1, UnitFacts, WriteCutSent
    <3>2. ASSUME NEW l \in LineIds \cup {GQuery}, WriteCut(Text(l)) PROVE Sent' = Sent
      BY <3>2, UnitFacts, WriteCutSent
    <3>3. CASE SendRealtime
      BY <3>1, <3>3 DEF SendRealtime, Taken
    <3>4. CASE SendPoll
      BY <3>1, <3>4 DEF SendPoll
    <3>5. CASE CutGQuery
      BY <3>2, <3>5 DEF CutGQuery
    <3>6. CASE CutLine
      <4>1. queue \in Seq(LineIds) /\ queue # <<>>
        BY <3>6 DEF CutLine, CanPop, TypeOK
      <4>2. Head(queue) \in LineIds
        BY <4>1, HeadTailProperties
      <4> QED
        BY <3>2, <3>6, <4>2 DEF CutLine
    <3> QED
      BY <1>6, <3>3, <3>4, <3>5, <3>6
  <2>2. /\ UNCHANGED <<inbox, replies, waiting_ok, giveups>>
    BY <1>6 DEF SendRealtime, SendPoll, CutGQuery, CutLine
  <2>3. Received' = Received /\ Answered' = Answered /\ Allowance' = Allowance
    BY <2>2 DEF Received, Answered, Allowance
  <2> QED
    BY <1>0, <2>1, <2>3
<1>7. CASE TimeOut
  <2>1. Allowance' = Allowance
    BY <1>7, GiveUpAllowance DEF TimeOut
  <2>2. Sent' = Sent /\ Received' = Received /\ Answered' = Answered
    BY <1>7 DEF TimeOut, Sent, Received, Answered
  <2> QED
    BY <1>0, <2>1, <2>2
<1>8. CASE SendGQuery \/ SendLine
  <2>1. Sent' = Sent + 1
    <3>1. CASE SendGQuery
      BY <3>1, WriteLineSent DEF SendGQuery
    <3>2. CASE SendLine
      <4>1. queue \in Seq(LineIds) /\ queue # <<>>
        BY <3>2 DEF SendLine, CanPop, TypeOK
      <4>2. Head(queue) \in LineIds
        BY <4>1, HeadTailProperties
      <4> QED
        BY <3>2, <4>2, WriteLineSent DEF SendLine
    <3> QED
      BY <1>8, <3>1, <3>2
  <2>2. /\ UNCHANGED <<inbox, replies, giveups>>
        /\ ~waiting_ok /\ waiting_ok'
    BY <1>8 DEF SendGQuery, SendLine, CanQuery, CanPop, StartWaiting
  <2>3. Received' = Received /\ Answered' = Answered
    BY <2>2 DEF Received, Answered
  <2>4. Allowance' = Allowance + 1
    BY <1>0, <2>2 DEF Allowance
  <2> QED
    BY <2>1, <2>3, <2>4
<1>9. CASE TaskDone \/ NothingToDo
  BY <1>9 DEF TaskDone, NothingToDo
<1> QED
  BY <1>1, <1>2, <1>3, <1>4, <1>5, <1>6, <1>7, <1>8, <1>9 DEF Core1, Task, Pass

\* What the environment does to them: a newline moves from the cable into grblHAL, a command
\* becomes an answer or is lost, and nothing else is added.
LEMMA BoundEnvironment ==
  ASSUME TypeOK, Environment
  PROVE  \/ UNCHANGED <<tx, inbox, replies, waiting_ok, giveups>>
         \/ /\ UNCHANGED <<waiting_ok, giveups>>
            /\ \/ Sent' <= Sent /\ Received' <= Received /\ Answered' <= Answered
               \/ Sent' = Sent - 1 /\ Received' = Received + 1 /\ Answered' = Answered
               \/ /\ Sent' = Sent /\ Received' = Received - 1
                  /\ Answered' \in {Answered, Answered + 1}
<1> USE DEF core1, shared, cable, grblHAL, ledger, bounds, history
<1>0. /\ Sent \in Nat /\ Received \in Nat /\ Answered \in Nat
      /\ tx \in Seq(Units) /\ inbox \in Seq(LineUnits) /\ replies \in Seq(Replies)
  BY CountsType DEF TypeOK
<1>1. CASE DeadlinePasses \/ PollInterval
  BY <1>1 DEF DeadlinePasses, PollInterval
<1>2. ASSUME replies' = replies \/ \E r \in {"status", "banner", "ALARM"} : Says(r)
      PROVE  Answered' = Answered
  <2>1. CASE replies' = replies
    BY <2>1 DEF Answered
  <2>2. ASSUME NEW r \in {"status", "banner", "ALARM"}, Says(r) PROVE Answered' = Answered
    BY <1>0, <2>2, SaysAnswered DEF Replies
  <2> QED
    BY <1>2, <2>1, <2>2
<1>3. ASSUME inbox' \in {inbox, <<>>} PROVE Received' <= Received
  BY <1>0, <1>3, CountEmpty DEF Received
<1>4. CASE Plug
  <2>1. UNCHANGED <<tx, waiting_ok, giveups>> /\ inbox' \in {inbox, <<>>}
    BY <1>4 DEF Plug
  <2>2. replies' = replies \/ replies' = <<>> \/ replies' = <<"banner">>
    BY <1>4 DEF Plug
  <2>3. Count(<<"banner">>, {"ok", "error"}) = 0
    <3>1. <<>> \in Seq(Replies) /\ "banner" \in Replies /\ "banner" \notin {"ok", "error"}
      BY EmptySeq DEF Replies
    <3>2. Append(<<>>, "banner") = <<"banner">>
      OBVIOUS
    <3>3. Count(<<>>, {"ok", "error"}) = 0
      BY CountEmpty
    <3>4. Count(Append(<<>>, "banner"), {"ok", "error"}) = Count(<<>>, {"ok", "error"}) + 0
      BY <3>1, CountAppend
    <3> QED
      BY <3>2, <3>3, <3>4
  <2>4. Answered' <= Answered
    BY <1>0, <2>2, <2>3, CountEmpty DEF Answered
  <2>5. Sent' <= Sent
    BY <1>0, <2>1 DEF Sent
  <2> QED
    BY <1>3, <2>1, <2>4, <2>5
<1>5. CASE Unplug
  <2>1. UNCHANGED <<tx, inbox, waiting_ok, giveups>> /\ replies' = <<>>
    BY <1>5 DEF Unplug
  <2>2. Sent' <= Sent /\ Answered' <= Answered
    BY <1>0, <2>1, CountEmpty DEF Sent, Answered
  <2> QED
    BY <1>3, <2>1, <2>2
<1>6. CASE GrblReceive
  <2>1. UNCHANGED <<waiting_ok, giveups>> /\ tx # <<>> /\ tx' = Tail(tx)
    BY <1>6 DEF GrblReceive
  <2>2. /\ Tail(tx) \in Seq(Units)
        /\ Count(tx, {Newline}) = Count(Tail(tx), {Newline})
                                   + (IF Head(tx) \in {Newline} THEN 1 ELSE 0)
    BY <1>0, <2>1, CountTail
  <2>3. Count(tx, {Newline}) \in Nat /\ Count(Tail(tx), {Newline}) \in Nat
    BY <1>0, <2>2, CountType
  <2>4. Sent' = Sent - (IF Head(tx) = Newline THEN 1 ELSE 0)
    BY <2>1, <2>2, <2>3 DEF Sent
  <2>5. CASE /\ Head(tx) \in LineUnits
             /\ inbox' \in {inbox, Append(inbox, Head(tx))} /\ replies' = replies
    <3>1. Answered' = Answered
      BY <1>2, <2>5
    <3>2. CASE inbox' = inbox
      <4>1. Sent' <= Sent /\ Received' <= Received /\ Answered' <= Answered
        BY <1>0, <1>3, <2>4, <3>1, <3>2
      <4> QED
        BY <2>1, <4>1
    <3>3. CASE inbox' = Append(inbox, Head(tx))
      <4>1. Received' = Received + (IF Head(tx) \in {Newline} THEN 1 ELSE 0)
        BY <1>0, <2>5, <3>3, CountAppend DEF Received
      <4>2. CASE Head(tx) = Newline
        BY <2>1, <2>4, <3>1, <4>1, <4>2
      <4>3. CASE Head(tx) # Newline
        BY <1>0, <2>1, <2>4, <3>1, <4>1, <4>3
      <4> QED
        BY <4>2, <4>3
    <3> QED
      BY <2>5, <3>2, <3>3
  <2>6. CASE /\ Head(tx) \notin LineUnits /\ inbox' \in {inbox, <<>>}
             /\ replies' = replies \/ Says("status") \/ Says("banner")
    <3>1. Answered' <= Answered
      BY <1>0, <1>2, <2>6
    <3>2. Sent' <= Sent
      BY <1>0, <2>4
    <3> QED
      BY <1>3, <2>1, <2>6, <3>1, <3>2
  <2> QED
    BY <1>6, <2>5, <2>6, ReceiveCases
<1>7. ASSUME NEW a \in {"ok", "error"}, GrblAnswer(a)
      PROVE  /\ UNCHANGED <<waiting_ok, giveups>>
             /\ Sent' = Sent /\ Received' = Received - 1
             /\ Answered' \in {Answered, Answered + 1}
  <2>1. UNCHANGED <<waiting_ok, giveups, tx>>
    BY <1>7 DEF GrblAnswer
  <2>2. Received' = Received - 1
    <3>1. PICK k \in DOMAIN inbox : Command(k) /\ inbox' = SubSeq(inbox, k + 1, Len(inbox))
      BY <1>7 DEF GrblAnswer
    <3>2. /\ k \in 1 .. Len(inbox) /\ \A i \in 1 .. k - 1 : inbox[i] \notin {Newline}
          /\ inbox[k] \in {Newline}
      BY <1>0, <3>1, LenProperties DEF Command
    <3> DEFINE rest == SubSeq(inbox, k + 1, Len(inbox))
    <3>3. rest \in Seq(LineUnits) /\ Count(inbox, {Newline}) = Count(rest, {Newline}) + 1
      BY <1>0, <3>2, CountDrop
    <3>4. Count(inbox, {Newline}) \in Nat /\ Count(rest, {Newline}) \in Nat
      BY <1>0, <3>3, CountType
    <3>5. inbox' = rest
      BY <3>1
    <3> HIDE DEF rest
    <3> QED
      BY <3>3, <3>4, <3>5 DEF Received
  <2>3. Answered' \in {Answered, Answered + 1}
    <3>1. CASE plugged
      <4>1. Says(a) /\ a \in Replies
        BY <1>7, <3>1 DEF GrblAnswer, Replies
      <4> QED
        BY <1>7, <4>1, SaysAnswered
    <3>2. CASE ~plugged
      BY <1>2, <1>7, <3>2 DEF GrblAnswer
    <3> QED
      BY <3>1, <3>2
  <2> QED
    BY <2>1, <2>2, <2>3 DEF Sent
<1>8. CASE GrblAlarm
  <2>1. UNCHANGED <<tx, waiting_ok, giveups>> /\ Says("ALARM") /\ inbox' \in {inbox, <<>>}
    BY <1>8 DEF GrblAlarm
  <2>2. Sent' <= Sent /\ Answered' <= Answered
    BY <1>0, <1>2, <2>1 DEF Sent
  <2> QED
    BY <1>3, <2>1, <2>2
<1> QED
  BY <1>1, <1>4, <1>5, <1>6, <1>7, <1>8 DEF Environment

\* Between any two cores, cables and controllers, with any capacities: the lines in flight
\* are the one core1 waits for and at most one for each time it gave up waiting.  With no
\* timeout, banner or unplugged cable this is the handshake, one line at a time.
THEOREM HandshakeBound == SafetySpec => []InFlightBound
<1>1. Init => InFlightBound
  <2> SUFFICES ASSUME Init PROVE InFlightBound
    OBVIOUS
  <2>1. Count(tx, {Newline}) = 0 /\ Count(inbox, {Newline}) = 0 /\ Count(replies, {"ok", "error"}) = 0
    BY CountEmpty DEF Init
  <2>2. giveups = 0 /\ waiting_ok = FALSE
    BY DEF Init
  <2> QED
    BY <2>1, <2>2 DEF InFlightBound, InFlight
<1>2. TypeOK /\ TypeOK' /\ InFlightBound /\ [Next]_vars => InFlightBound'
  <2> SUFFICES ASSUME TypeOK, TypeOK', InFlightBound, [Next]_vars PROVE InFlightBound'
    OBVIOUS
  <2>1. CASE UNCHANGED <<tx, inbox, replies, waiting_ok, giveups>>
    BY <2>1, BoundElsewhere
  <2>2. CASE UNCHANGED vars
    BY <2>1, <2>2 DEF vars, core1, cable, grblHAL, history
  <2>3. CASE Core0
    BY <2>1, <2>3 DEF Core0, PostBegin, PostAccept, PostReject, PostReply, Realtime, FlagStall,
                      core1, cable, grblHAL, history
  <2>4. Sent + Received + Answered <= Allowance
    BY DEF InFlightBound, InFlight, Sent, Received, Answered, Allowance
  <2>5. PICK s \in Nat, r \in Nat, a \in Nat, m \in Nat :
           s = Sent /\ r = Received /\ a = Answered /\ m = Allowance
    BY CountsType
  <2>6. PICK s1 \in Nat, r1 \in Nat, a1 \in Nat, m1 \in Nat :
           s1 = Sent' /\ r1 = Received' /\ a1 = Answered' /\ m1 = Allowance'
    BY CountsTypeNext
  <2>7. ASSUME s1 + r1 + a1 <= m1 PROVE InFlightBound'
    BY <2>6, <2>7 DEF InFlightBound, InFlight, Sent, Received, Answered, Allowance
  <2>8. CASE Core1
    <3>1. \/ UNCHANGED <<tx, inbox, replies, waiting_ok, giveups>>
          \/ r1 = r /\ a1 <= a /\ s1 <= s /\ m1 = m
          \/ r1 = r /\ a1 = a /\ s1 = s + 1 /\ m1 = m + 1
          \/ r1 = r /\ a1 = a - 1 /\ s1 = s /\ m1 \in {m, m - 1}
      BY <2>5, <2>6, <2>8, BoundCore1
    <3>2. s + r + a <= m
      BY <2>4, <2>5
    <3> QED
      BY <2>1, <2>7, <3>1, <3>2
  <2>9. CASE Environment
    <3>1. \/ UNCHANGED <<tx, inbox, replies, waiting_ok, giveups>>
          \/ /\ UNCHANGED <<waiting_ok, giveups>>
             /\ \/ s1 <= s /\ r1 <= r /\ a1 <= a
                \/ s1 = s - 1 /\ r1 = r + 1 /\ a1 = a
                \/ s1 = s /\ r1 = r - 1 /\ a1 \in {a, a + 1}
      BY <2>5, <2>6, <2>9, BoundEnvironment
    <3>2. s + r + a <= m
      BY <2>4, <2>5
    <3>3. ASSUME UNCHANGED <<waiting_ok, giveups>> PROVE m1 = m
      BY <2>5, <2>6, <3>3 DEF Allowance
    <3> QED
      BY <2>1, <2>7, <3>1, <3>2, <3>3
  <2> QED
    BY <2>2, <2>3, <2>8, <2>9 DEF Next
<1> QED
  BY <1>1, <1>2, TypeCorrect, PTL DEF SafetySpec

-------------------------------------------------------------------------------
(* What the API shows of the connection. *)

\* The API never shows a connection without a mounted device: state.connected goes up only
\* in a mount and in a status report, which only a mounted interface delivers, and the
\* unmount callback takes it down in the step that forgets the interface.
THEOREM ShownConnectionIsMounted == SafetySpec => []ConnectedMeansMounted
<1> USE DEF core1, shared, cable, grblHAL, ledger, bounds, history
<1>1. Init => ConnectedMeansMounted
  BY DEF Init, ConnectedMeansMounted
<1>2. ConnectedMeansMounted /\ [Next]_vars => ConnectedMeansMounted'
  <2> SUFFICES ASSUME ConnectedMeansMounted, [Next]_vars PROVE ConnectedMeansMounted'
    OBVIOUS
  <2>1. CASE UNCHANGED <<connected, mounted>>
    BY <2>1 DEF ConnectedMeansMounted
  <2>2. CASE UNCHANGED vars
    BY <2>1, <2>2 DEF vars
  <2>3. CASE Core0
    <3>1. CASE FlagStall
      BY <3>1 DEF FlagStall, ConnectedMeansMounted
    <3>2. CASE ~FlagStall
      BY <2>1, <2>3, <3>2 DEF Core0, PostBegin, PostAccept, PostReject, PostReply, Realtime
    <3> QED
      BY <3>1, <3>2
  <2>4. CASE Task
    <3>1. CASE Mount
      BY <3>1 DEF Mount, ConnectedMeansMounted
    <3>2. CASE Unmount
      BY <3>2 DEF Unmount, ConnectedMeansMounted
    <3>3. CASE OnAnswer \/ OnAlarm \/ OnBanner
      BY <2>1, <3>3 DEF OnAnswer, OnAlarm, OnBanner, OnLine
    <3>4. CASE OnStatus
      BY <3>4 DEF OnStatus, OnLine, ConnectedMeansMounted
    <3> QED
      BY <2>4, <3>1, <3>2, <3>3, <3>4 DEF Task
  <2>5. CASE TaskDone
    BY <2>1, <2>5 DEF TaskDone
  <2>6. CASE Pass
    BY <2>1, <2>6 DEF Pass, SendRealtime, SendPoll, TimeOut, SendGQuery, CutGQuery, SendLine,
                      CutLine, NothingToDo
  <2>7. CASE Environment
    BY <2>1, <2>7 DEF Environment, DeadlinePasses, PollInterval, Plug, Unplug, GrblReceive,
                      GrblAnswer, GrblAlarm
  <2> QED
    BY <2>2, <2>3, <2>4, <2>5, <2>6, <2>7 DEF Next, Core1
<1> QED
  BY <1>1, <1>2, PTL DEF SafetySpec

-------------------------------------------------------------------------------
(* The feed hold.  HoldOvertakenOnce is not inductive: it also has to be known where   *)
(* core1 can be once a line has gone out in front of a requested hold.                 *)

\* It is before the real-time phase of the next pass, or past it without a device, and a
\* device can only be mounted before that phase.
HoldIsNext ==
    "hold" \in rt /\ overtaken = 1 => pc \in {"task", "realtime"} \/ ~mounted

\* The inductive invariant.
HoldInv == HoldOvertakenOnce /\ HoldIsNext

\* The steps that leave the requests, the count, core1's place and the device alone.
LEMMA HoldElsewhere ==
  ASSUME HoldInv, UNCHANGED <<pc, mounted, rt, overtaken>>
  PROVE  HoldInv'
  BY DEF HoldInv, HoldOvertakenOnce, HoldIsNext

\* A hold is the first of the requests to be taken.
LEMMA HoldTaken ==
  ASSUME "hold" \in rt
  PROVE  Taken(rt) = "hold"
  BY DEF Taken

\* A line that goes out makes the count one, at most once for each hold.
LEMMA HoldLine ==
  ASSUME TypeOK, HoldInv, SendLine \/ CutLine
  PROVE  HoldInv'
<1>1. /\ pc = "pop" /\ mounted /\ pc' = "task" /\ rt' = rt
      /\ overtaken' = IF "hold" \in rt THEN overtaken + 1 ELSE overtaken
  BY DEF SendLine, CutLine, CanPop, CountOvertaking
<1>2. overtaken \in Nat /\ overtaken <= 1
  BY DEF TypeOK, HoldInv, HoldOvertakenOnce
<1>3. "hold" \in rt => overtaken = 0
  BY <1>1, <1>2 DEF HoldInv, HoldIsNext
<1>4. overtaken' \in Nat /\ overtaken' <= 1
  BY <1>1, <1>2, <1>3
<1> QED
  BY <1>1, <1>4 DEF HoldInv, HoldOvertakenOnce, HoldIsNext

\* However long the queue is, at most one line goes out between a hold being requested and
\* being written, and that without assuming anything of the queue or of grblHAL's answers.
THEOREM HoldGoesFirst == SafetySpec => []HoldOvertakenOnce
<1> USE DEF core1, shared, cable, grblHAL, ledger, bounds, history
<1>1. Init => HoldInv
  BY DEF Init, HoldInv, HoldOvertakenOnce, HoldIsNext
<1>2. TypeOK /\ HoldInv /\ [Next]_vars => HoldInv'
  <2> SUFFICES ASSUME TypeOK, HoldInv, [Next]_vars PROVE HoldInv'
    OBVIOUS
  <2>1. CASE UNCHANGED <<pc, mounted, rt, overtaken>>
    BY <2>1, HoldElsewhere
  <2>2. CASE UNCHANGED vars
    BY <2>1, <2>2 DEF vars
  <2>3. ASSUME NEW r \in Requests, Realtime(r) PROVE HoldInv'
    <3>1. pc' = pc /\ mounted' = mounted /\ rt' = rt \cup {r}
      BY <2>3 DEF Realtime
    <3>2. CASE r = "hold" /\ "hold" \notin rt
      BY <2>3, <3>2 DEF Realtime, HoldInv, HoldOvertakenOnce, HoldIsNext
    <3>3. CASE ~(r = "hold" /\ "hold" \notin rt)
      <4>1. overtaken' = overtaken /\ ("hold" \in rt' => "hold" \in rt)
        BY <2>3, <3>1, <3>3 DEF Realtime
      <4> QED
        BY <3>1, <4>1 DEF HoldInv, HoldOvertakenOnce, HoldIsNext
    <3> QED
      BY <3>2, <3>3
  <2>4. CASE Core0
    BY <2>1, <2>3, <2>4 DEF Core0, PostBegin, PostAccept, PostReject, PostReply, FlagStall
  <2>5. CASE Mount \/ Unmount
    BY <2>5 DEF Mount, Unmount, HoldInv, HoldOvertakenOnce, HoldIsNext
  <2>6. CASE OnAnswer \/ OnAlarm \/ OnBanner \/ OnStatus
    BY <2>1, <2>6 DEF OnAnswer, OnAlarm, OnBanner, OnStatus, OnLine
  <2>7. CASE TaskDone
    BY <2>7 DEF TaskDone, HoldInv, HoldOvertakenOnce, HoldIsNext
  <2>8. CASE SendRealtime
    <3>1. CASE "hold" \in rt
      BY <2>8, <3>1, HoldTaken DEF SendRealtime, HoldInv, HoldOvertakenOnce, HoldIsNext
    <3>2. CASE "hold" \notin rt
      <4>1. Taken(rt) # "hold"
        BY <3>2 DEF Taken
      <4>2. overtaken' = overtaken /\ "hold" \notin rt'
        BY <2>8, <3>2, <4>1 DEF SendRealtime
      <4> QED
        BY <4>2 DEF HoldInv, HoldOvertakenOnce, HoldIsNext
    <3> QED
      BY <3>1, <3>2
  <2>9. CASE SendPoll \/ TimeOut \/ SendGQuery \/ CutGQuery
    BY <2>9 DEF SendPoll, TimeOut, SendGQuery, CutGQuery, StartWaiting,
                HoldInv, HoldOvertakenOnce, HoldIsNext
  <2>10. CASE SendLine \/ CutLine
    BY <2>10, HoldLine
  <2>11. CASE NothingToDo
    <3>1. UNCHANGED <<mounted, rt, overtaken>>
      BY <2>11 DEF NothingToDo
    <3>2. /\ pc = "realtime" => ~mounted \/ "hold" \notin rt
          /\ pc # "task"
      BY <2>11 DEF NothingToDo, RealtimeReady
    <3> QED
      BY <3>1, <3>2 DEF HoldInv, HoldOvertakenOnce, HoldIsNext
  <2>12. CASE Environment
    BY <2>1, <2>12 DEF Environment, DeadlinePasses, PollInterval, Plug, Unplug, GrblReceive,
                       GrblAnswer, GrblAlarm
  <2> QED
    BY <2>2, <2>4, <2>5, <2>6, <2>7, <2>8, <2>9, <2>10, <2>11, <2>12
       DEF Next, Core1, Task, Pass
<1>3. HoldInv => HoldOvertakenOnce
  BY DEF HoldInv
<1> QED
  BY <1>1, <1>2, <1>3, TypeCorrect, PTL DEF SafetySpec
-------------------------------------------------------------------------------
(* Sequences of line numbers; zero is no line. *)

\* The lines of a sequence in which 0 stands for no line, and whether they ascend.
LinesIn(s) == {s[i] : i \in DOMAIN s} \ {0}
Sorted(s) == \A i, j \in DOMAIN s : i < j /\ s[i] # 0 /\ s[j] # 0 => s[i] < s[j]

\* The empty sequence has no lines.
LEMMA LinesEmpty == LinesIn(<<>>) = {} /\ Sorted(<<>>)
<1>1. DOMAIN <<>> = {}
  OBVIOUS
<1> QED
  BY <1>1 DEF LinesIn, Sorted

\* A line in a sequence of numbers is a number.
LEMMA LinesType ==
  ASSUME NEW s \in Seq(Nat)
  PROVE  LinesIn(s) \subseteq Nat
<1>1. \A i \in DOMAIN s : s[i] \in Nat
  BY ElementOfSeq, LenProperties
<1> QED
  BY <1>1 DEF LinesIn

\* The first of sorted lines is below the others.
LEMMA LinesTail ==
  ASSUME NEW s \in Seq(Nat), s # <<>>
  PROVE  /\ Head(s) \in Nat /\ Tail(s) \in Seq(Nat)
         /\ LinesIn(s) = LinesIn(Tail(s)) \cup ({Head(s)} \ {0})
         /\ Sorted(s) => /\ Sorted(Tail(s))
                         /\ \A b \in LinesIn(Tail(s)) : Head(s) # 0 => Head(s) < b
<1> DEFINE t == Tail(s)
<1>1. /\ t \in Seq(Nat) /\ Len(t) = Len(s) - 1 /\ Head(s) \in Nat
      /\ \A i \in 1 .. Len(t) : t[i] = s[i + 1]
  BY HeadTailProperties
<1>2. Len(s) \in Nat /\ Len(s) # 0 /\ DOMAIN s = 1 .. Len(s)
  BY EmptySeq, LenProperties
<1>3. DOMAIN t = 1 .. Len(t) /\ Len(t) \in Nat
  BY <1>1, LenProperties
<1>4. Head(s) = s[1]
  OBVIOUS
<1> HIDE DEF t
<1>5. LinesIn(s) \subseteq LinesIn(t) \cup ({Head(s)} \ {0})
  <2> SUFFICES ASSUME NEW i \in 1 .. Len(s), s[i] # 0
               PROVE  s[i] \in LinesIn(t) \cup ({Head(s)} \ {0})
    BY <1>2 DEF LinesIn
  <2>1. CASE i = 1
    BY <1>4, <2>1
  <2>2. CASE i # 1
    <3>1. i - 1 \in 1 .. Len(t) /\ t[i - 1] = s[i]
      BY <1>1, <1>2, <2>2
    <3> QED
      BY <1>3, <3>1 DEF LinesIn
  <2> QED
    BY <2>1, <2>2
<1>6. LinesIn(t) \subseteq LinesIn(s)
  <2> SUFFICES ASSUME NEW i \in 1 .. Len(t), t[i] # 0
               PROVE  t[i] \in LinesIn(s)
    BY <1>3 DEF LinesIn
  <2>1. i + 1 \in 1 .. Len(s) /\ t[i] = s[i + 1]
    BY <1>1, <1>2, <1>3
  <2> QED
    BY <1>2, <2>1 DEF LinesIn
<1>7. {Head(s)} \ {0} \subseteq LinesIn(s)
  <2>1. 1 \in 1 .. Len(s)
    BY <1>2
  <2> QED
    BY <1>2, <1>4, <2>1 DEF LinesIn
<1>8. ASSUME Sorted(s)
      PROVE  Sorted(t) /\ \A b \in LinesIn(t) : Head(s) # 0 => Head(s) < b
  <2>1. \A i, j \in 1 .. Len(s) : i < j /\ s[i] # 0 /\ s[j] # 0 => s[i] < s[j]
    BY <1>2, <1>8 DEF Sorted
  <2>2. Sorted(t)
    <3> SUFFICES ASSUME NEW i \in 1 .. Len(t), NEW j \in 1 .. Len(t),
                        i < j, t[i] # 0, t[j] # 0
                 PROVE  t[i] < t[j]
      BY <1>3 DEF Sorted
    <3>1. i + 1 \in 1 .. Len(s) /\ j + 1 \in 1 .. Len(s) /\ i + 1 < j + 1
      BY <1>1, <1>2, <1>3
    <3>2. t[i] = s[i + 1] /\ t[j] = s[j + 1]
      BY <1>1
    <3> QED
      BY <2>1, <3>1, <3>2
  <2>3. ASSUME NEW i \in 1 .. Len(t), t[i] # 0, Head(s) # 0
        PROVE  Head(s) < t[i]
    <3>1. i + 1 \in 1 .. Len(s) /\ 1 \in 1 .. Len(s) /\ 1 < i + 1
      BY <1>1, <1>2, <1>3
    <3>2. t[i] = s[i + 1]
      BY <1>1
    <3> QED
      BY <1>4, <2>1, <2>3, <3>1, <3>2
  <2> QED
    BY <1>3, <2>2, <2>3 DEF LinesIn
<1> QED
  BY <1>1, <1>5, <1>6, <1>7, <1>8 DEF t

\* A line above all others may go last; what is no line may go anywhere.
LEMMA LinesAppend ==
  ASSUME NEW s \in Seq(Nat), NEW x \in Nat
  PROVE  /\ Append(s, x) \in Seq(Nat)
         /\ LinesIn(Append(s, x)) = LinesIn(s) \cup ({x} \ {0})
         /\ Sorted(s) /\ (\A a \in LinesIn(s) : x # 0 => a < x) => Sorted(Append(s, x))
<1> DEFINE t == Append(s, x)
           n == Len(s)
<1>1. /\ t \in Seq(Nat) /\ Len(t) = n + 1 /\ t[n + 1] = x
      /\ \A i \in 1 .. n : t[i] = s[i]
  BY AppendProperties
<1>2. n \in Nat /\ DOMAIN s = 1 .. n
  BY LenProperties
<1>3. DOMAIN t = 1 .. (n + 1)
  BY <1>1, LenProperties
<1> HIDE DEF t, n
<1>4. 1 .. (n + 1) = (1 .. n) \cup {n + 1}
  BY <1>2
<1>5. LinesIn(t) = LinesIn(s) \cup ({x} \ {0})
  <2>1. ASSUME NEW i \in 1 .. (n + 1), t[i] # 0
        PROVE  t[i] \in LinesIn(s) \cup ({x} \ {0})
    <3>1. CASE i \in 1 .. n
      BY <1>1, <1>2, <2>1, <3>1 DEF LinesIn
    <3>2. CASE i = n + 1
      BY <1>1, <2>1, <3>2
    <3> QED
      BY <1>4, <3>1, <3>2
  <2>2. ASSUME NEW i \in 1 .. n, s[i] # 0
        PROVE  s[i] \in LinesIn(t)
    <3>1. i \in DOMAIN t /\ t[i] = s[i]
      BY <1>1, <1>3, <1>4
    <3> QED
      BY <2>2, <3>1 DEF LinesIn
  <2>3. x # 0 => x \in LinesIn(t)
    <3>1. n + 1 \in DOMAIN t
      BY <1>3, <1>4
    <3> QED
      BY <1>1, <3>1 DEF LinesIn
  <2>4. LinesIn(t) \subseteq LinesIn(s) \cup ({x} \ {0})
    BY <1>3, <2>1 DEF LinesIn
  <2>5. LinesIn(s) \subseteq LinesIn(t)
    <3> SUFFICES ASSUME NEW y \in LinesIn(s) PROVE y \in LinesIn(t)
      OBVIOUS
    <3>1. PICK i \in 1 .. n : y = s[i] /\ s[i] # 0
      BY <1>2 DEF LinesIn
    <3> QED
      BY <2>2, <3>1
  <2> QED
    BY <2>3, <2>4, <2>5
<1>6. ASSUME Sorted(s), \A a \in LinesIn(s) : x # 0 => a < x
      PROVE  Sorted(t)
  <2> SUFFICES ASSUME NEW i \in 1 .. (n + 1), NEW j \in 1 .. (n + 1),
                      i < j, t[i] # 0, t[j] # 0
               PROVE  t[i] < t[j]
    BY <1>3 DEF Sorted
  <2>1. i \in 1 .. n
    BY <1>2
  <2>2. t[i] = s[i] /\ s[i] \in LinesIn(s)
    BY <1>1, <1>2, <2>1 DEF LinesIn
  <2>3. CASE j \in 1 .. n
    BY <1>1, <1>2, <1>6, <2>1, <2>3 DEF Sorted
  <2>4. CASE j = n + 1
    BY <1>1, <1>6, <2>2, <2>4
  <2> QED
    BY <1>4, <2>3, <2>4
<1> QED
  BY <1>1, <1>5, <1>6 DEF t

\* What is left behind the k-th element.
LEMMA Suffix ==
  ASSUME NEW S, NEW s \in Seq(S), NEW k \in 1 .. Len(s)
  PROVE  LET r == SubSeq(s, k + 1, Len(s)) IN
         r \in Seq(S) /\ Len(r) = Len(s) - k /\ \A i \in 1 .. Len(s) - k : r[i] = s[k + i]
<1> DEFINE r == SubSeq(s, k + 1, Len(s))
<1>1. Len(s) \in Nat /\ k \in Nat /\ k >= 1 /\ k <= Len(s)
  BY LenProperties
<1>2. \A i \in k + 1 .. Len(s) : s[i] \in S
  BY <1>1, ElementOfSeq
<1>3. /\ r \in Seq(S)
      /\ Len(r) = IF k + 1 <= Len(s) THEN Len(s) - (k + 1) + 1 ELSE 0
      /\ \A i \in 1 .. Len(s) - (k + 1) + 1 : r[i] = s[k + 1 + i - 1]
  BY <1>1, <1>2, SubSeqProperties
<1> HIDE DEF r
<1>4. r \in Seq(S) /\ Len(r) = Len(s) - k /\ \A i \in 1 .. Len(s) - k : r[i] = s[k + i]
  BY <1>1, <1>3
<1> QED
  BY <1>4 DEF r

\* The lines behind the k-th element of sorted ones are above all up to it.
LEMMA LinesDrop ==
  ASSUME NEW s \in Seq(Nat), NEW k \in 1 .. Len(s)
  PROVE  LET r == SubSeq(s, k + 1, Len(s)) IN
         /\ r \in Seq(Nat)
         /\ LinesIn(r) \subseteq LinesIn(s)
         /\ LinesIn(s) \subseteq LinesIn(r) \cup {s[j] : j \in 1 .. k}
         /\ Sorted(s) => /\ Sorted(r)
                         /\ \A j \in 1 .. k, b \in LinesIn(r) : s[j] # 0 => s[j] < b
<1> DEFINE r == SubSeq(s, k + 1, Len(s))
<1>1. Len(s) \in Nat /\ k \in Nat /\ k >= 1 /\ k <= Len(s) /\ DOMAIN s = 1 .. Len(s)
  BY LenProperties
<1>3. r \in Seq(Nat) /\ Len(r) = Len(s) - k /\ \A i \in 1 .. Len(s) - k : r[i] = s[k + i]
  BY Suffix
<1> HIDE DEF r
<1> DEFINE m == Len(s) - k
<1>4. DOMAIN r = 1 .. m
  BY <1>3, LenProperties
<1>5. \A i \in 1 .. m : k + i \in 1 .. Len(s)
  BY <1>1
<1>6. LinesIn(r) \subseteq LinesIn(s)
  <2> SUFFICES ASSUME NEW i \in 1 .. m, r[i] # 0 PROVE r[i] \in LinesIn(s)
    BY <1>4 DEF LinesIn
  <2> QED
    BY <1>1, <1>3, <1>5 DEF LinesIn
<1>7. LinesIn(s) \subseteq LinesIn(r) \cup {s[j] : j \in 1 .. k}
  <2> SUFFICES ASSUME NEW i \in 1 .. Len(s), s[i] # 0, i \notin 1 .. k
               PROVE  s[i] \in LinesIn(r)
    BY <1>1 DEF LinesIn
  <2>1. i - k \in 1 .. m /\ k + (i - k) = i
    BY <1>1
  <2>2. r[i - k] = s[i]
    BY <1>3, <2>1
  <2> QED
    BY <1>4, <2>1, <2>2 DEF LinesIn
<1>8. ASSUME Sorted(s)
      PROVE  /\ Sorted(r)
             /\ \A j \in 1 .. k, b \in LinesIn(r) : s[j] # 0 => s[j] < b
  <2>1. \A i, j \in 1 .. Len(s) : i < j /\ s[i] # 0 /\ s[j] # 0 => s[i] < s[j]
    BY <1>1, <1>8 DEF Sorted
  <2>2. Sorted(r)
    <3> SUFFICES ASSUME NEW i \in 1 .. m, NEW j \in 1 .. m, i < j, r[i] # 0, r[j] # 0
                 PROVE  r[i] < r[j]
      BY <1>4 DEF Sorted
    <3>1. k + i < k + j
      BY <1>1
    <3> QED
      BY <1>3, <1>5, <2>1, <3>1
  <2>3. ASSUME NEW j \in 1 .. k, NEW i \in 1 .. m, r[i] # 0, s[j] # 0
        PROVE  s[j] < r[i]
    <3>1. j \in 1 .. Len(s) /\ j < k + i
      BY <1>1
    <3> QED
      BY <1>3, <1>5, <2>1, <2>3, <3>1
  <2>4. ASSUME NEW j \in 1 .. k, NEW b \in LinesIn(r), s[j] # 0
        PROVE  s[j] < b
    <3>1. PICK i \in 1 .. m : b = r[i] /\ r[i] # 0
      BY <1>4 DEF LinesIn
    <3> QED
      BY <2>3, <2>4, <3>1
  <2> QED
    BY <2>2, <2>4
<1> QED
  BY <1>3, <1>6, <1>7, <1>8 DEF r

-------------------------------------------------------------------------------
(* The lines of a sequence of units. *)

LEMMA UnitLine ==
  /\ \A u \in Units : u.line \in Nat
  /\ \A l \in LineIds \cup {GQuery} : Text(l).line = l
  /\ Newline.line = 0
  /\ \A r \in {"hold", "resume", "reset", "poll"} : Byte(r).line = 0
  BY ConstantsAssumption DEF Units, LineUnits, LineIds, GQuery, Text, Newline, Byte

LEMMA Wider ==
  /\ Seq(LineUnits) \subseteq Seq(Units)
  /\ Seq(LineIds) \subseteq Seq(Nat)
<1>1. LineUnits \subseteq Units
  BY UnitFacts
<1>2. LineIds \subseteq Nat
  BY DEF LineIds
<1>3. ASSUME NEW S, NEW T, S \subseteq T, NEW s \in Seq(S)
      PROVE  s \in Seq(T)
  <2>1. PICK n \in Nat : s \in [1 .. n -> S]
    BY SeqDef
  <2>2. s \in [1 .. n -> T]
    BY <1>3, <2>1
  <2> QED
    BY <2>2, SeqDef
<1> QED
  BY <1>1, <1>2, <1>3

LEMMA LinesOfType ==
  ASSUME NEW s \in Seq(Units)
  PROVE  /\ LinesOf(s) \in Seq(Nat) /\ Len(LinesOf(s)) = Len(s)
         /\ DOMAIN LinesOf(s) = 1 .. Len(s) /\ Len(s) \in Nat
         /\ \A i \in 1 .. Len(s) : LinesOf(s)[i] = s[i].line
<1>1. Len(s) \in Nat /\ \A i \in 1 .. Len(s) : s[i] \in Units
  BY LenProperties, ElementOfSeq
<1>2. \A i \in 1 .. Len(s) : s[i].line \in Nat
  BY <1>1, UnitLine
<1>3. LinesOf(s) \in [1 .. Len(s) -> Nat]
  BY <1>2 DEF LinesOf
<1>4. LinesOf(s) \in Seq(Nat)
  BY <1>1, <1>3, SeqDef
<1>5. DOMAIN LinesOf(s) = 1 .. Len(s) /\ DOMAIN LinesOf(s) = 1 .. Len(LinesOf(s))
  BY <1>3, <1>4, LenProperties
<1>6. Len(LinesOf(s)) = Len(s)
  BY <1>1, <1>3, <1>4, LenProperties
<1> QED
  BY <1>1, <1>4, <1>5, <1>6 DEF LinesOf

LEMMA LinesOfEmpty == LinesOf(<<>>) = <<>>
<1>1. <<>> \in Seq(Units) /\ Len(<<>>) = 0
  BY EmptySeq
<1>2. LinesOf(<<>>) \in Seq(Nat) /\ Len(LinesOf(<<>>)) = 0
  BY <1>1, LinesOfType
<1> QED
  BY <1>2, EmptySeq

LEMMA LinesOfTail ==
  ASSUME NEW s \in Seq(Units), s # <<>>
  PROVE  /\ LinesOf(s) # <<>>
         /\ Head(LinesOf(s)) = Head(s).line
         /\ LinesOf(Tail(s)) = Tail(LinesOf(s))
<1> DEFINE n == LinesOf(s)
           t == Tail(s)
           m == LinesOf(t)
<1>1. /\ t \in Seq(Units) /\ Len(t) = Len(s) - 1 /\ Len(s) \in Nat /\ Len(s) # 0
      /\ \A i \in 1 .. Len(t) : t[i] = s[i + 1]
  BY HeadTailProperties, EmptySeq, LenProperties
<1>2. n \in Seq(Nat) /\ Len(n) = Len(s) /\ \A i \in 1 .. Len(s) : n[i] = s[i].line
  BY LinesOfType
<1>3. m \in Seq(Nat) /\ Len(m) = Len(t) /\ \A i \in 1 .. Len(t) : m[i] = t[i].line
  BY <1>1, LinesOfType
<1>4. n # <<>>
  BY <1>1, <1>2, EmptySeq
<1>5. Head(n) = Head(s).line
  <2>1. Head(s) = s[1] /\ 1 \in 1 .. Len(s)
    BY <1>1
  <2>2. Head(n) = n[1]
    BY <1>2, <1>4
  <2> QED
    BY <1>2, <2>1, <2>2
<1>6. /\ Tail(n) \in Seq(Nat) /\ Len(Tail(n)) = Len(n) - 1
      /\ \A i \in 1 .. Len(Tail(n)) : Tail(n)[i] = n[i + 1]
  BY <1>2, <1>4, HeadTailProperties
<1> HIDE DEF n, t, m
<1>7. ASSUME NEW i \in 1 .. Len(m) PROVE m[i] = Tail(n)[i]
  <2>1. i + 1 \in 1 .. Len(s) /\ i \in 1 .. Len(t) /\ i \in 1 .. Len(Tail(n))
    BY <1>1, <1>2, <1>3, <1>6
  <2> QED
    BY <1>1, <1>2, <1>3, <1>6, <2>1
<1>8. Len(m) = Len(Tail(n))
  BY <1>1, <1>2, <1>3, <1>6
<1>9. m = Tail(n)
  BY <1>3, <1>6, <1>7, <1>8, SeqEqual
<1> QED
  BY <1>4, <1>5, <1>9 DEF n, t, m

LEMMA LinesOfAppend ==
  ASSUME NEW s \in Seq(Units), NEW u \in Units
  PROVE  LinesOf(Append(s, u)) = Append(LinesOf(s), u.line)
<1> DEFINE n == LinesOf(s)
           t == Append(s, u)
           m == LinesOf(t)
           a == Append(n, u.line)
<1>1. /\ t \in Seq(Units) /\ Len(t) = Len(s) + 1 /\ Len(s) \in Nat
      /\ \A i \in 1 .. Len(s) : t[i] = s[i]
      /\ t[Len(s) + 1] = u
  BY AppendProperties, LenProperties
<1>2. n \in Seq(Nat) /\ Len(n) = Len(s) /\ \A i \in 1 .. Len(s) : n[i] = s[i].line
  BY LinesOfType
<1>3. m \in Seq(Nat) /\ Len(m) = Len(t) /\ \A i \in 1 .. Len(t) : m[i] = t[i].line
  BY <1>1, LinesOfType
<1>4. u.line \in Nat
  BY UnitLine
<1>5. /\ a \in Seq(Nat) /\ Len(a) = Len(n) + 1
      /\ \A i \in 1 .. Len(n) : a[i] = n[i]
      /\ a[Len(n) + 1] = u.line
  BY <1>2, <1>4, AppendProperties
<1> HIDE DEF n, t, m, a
<1>6. ASSUME NEW i \in 1 .. Len(m) PROVE m[i] = a[i]
  <2>1. i \in 1 .. Len(t)
    BY <1>3
  <2>2. CASE i \in 1 .. Len(s)
    BY <1>1, <1>2, <1>3, <1>5, <2>1, <2>2
  <2>3. CASE i = Len(s) + 1
    BY <1>1, <1>2, <1>3, <1>5, <2>1, <2>3
  <2> QED
    BY <1>1, <2>1, <2>2, <2>3
<1>7. Len(m) = Len(a)
  BY <1>1, <1>2, <1>3, <1>5
<1>8. m = a
  BY <1>3, <1>5, <1>6, <1>7, SeqEqual
<1> QED
  BY <1>8 DEF n, t, m, a

LEMMA LinesOfDrop ==
  ASSUME NEW s \in Seq(Units), NEW k \in 1 .. Len(s)
  PROVE  /\ SubSeq(s, k + 1, Len(s)) \in Seq(Units)
         /\ LinesOf(SubSeq(s, k + 1, Len(s))) = SubSeq(LinesOf(s), k + 1, Len(LinesOf(s)))
<1> DEFINE n == LinesOf(s)
           t == SubSeq(s, k + 1, Len(s))
           m == LinesOf(t)
           r == SubSeq(n, k + 1, Len(n))
<1>1. t \in Seq(Units) /\ Len(t) = Len(s) - k /\ \A i \in 1 .. Len(s) - k : t[i] = s[k + i]
  BY Suffix
<1>2. n \in Seq(Nat) /\ Len(n) = Len(s) /\ \A i \in 1 .. Len(s) : n[i] = s[i].line
  BY LinesOfType
<1>3. m \in Seq(Nat) /\ Len(m) = Len(t) /\ \A i \in 1 .. Len(t) : m[i] = t[i].line
  BY <1>1, LinesOfType
<1>4. k \in 1 .. Len(n)
  BY <1>2
<1>5. r \in Seq(Nat) /\ Len(r) = Len(n) - k /\ \A i \in 1 .. Len(n) - k : r[i] = n[k + i]
  BY <1>2, <1>4, Suffix
<1>0. Len(s) \in Nat /\ k \in Nat
  BY LenProperties
<1> HIDE DEF n, t, m, r
<1>6. ASSUME NEW i \in 1 .. Len(m) PROVE m[i] = r[i]
  <2>1. /\ i \in 1 .. Len(t) /\ i \in 1 .. Len(s) - k /\ i \in 1 .. Len(n) - k
        /\ k + i \in 1 .. Len(s)
    BY <1>0, <1>1, <1>2, <1>3, SMTT(30)
  <2> QED
    BY <1>1, <1>2, <1>3, <1>5, <2>1
<1>7. Len(m) = Len(r)
  BY <1>1, <1>2, <1>3, <1>5
<1>8. m = r
  BY <1>3, <1>5, <1>6, <1>7, SeqEqual
<1> QED
  BY <1>1, <1>8 DEF n, t, m, r

\* So what holds of numbers holds of the units that carry them.
LEMMA UnitsEmpty == LinesIn(LinesOf(<<>>)) = {} /\ Sorted(LinesOf(<<>>))
  BY LinesEmpty, LinesOfEmpty

LEMMA UnitsAppend ==
  ASSUME NEW s \in Seq(Units), NEW u \in Units
  PROVE  /\ Append(s, u) \in Seq(Units)
         /\ LinesIn(LinesOf(Append(s, u))) = LinesIn(LinesOf(s)) \cup ({u.line} \ {0})
         /\ Sorted(LinesOf(s)) /\ (\A a \in LinesIn(LinesOf(s)) : u.line # 0 => a < u.line)
               => Sorted(LinesOf(Append(s, u)))
<1> DEFINE n == LinesOf(s)
           x == u.line
<1>1. Append(s, u) \in Seq(Units)
  BY AppendProperties
<1>2. n \in Seq(Nat) /\ x \in Nat /\ LinesOf(Append(s, u)) = Append(n, x)
  BY UnitLine, LinesOfType, LinesOfAppend
<1> HIDE DEF n, x
<1>3. /\ LinesIn(Append(n, x)) = LinesIn(n) \cup ({x} \ {0})
      /\ Sorted(n) /\ (\A a \in LinesIn(n) : x # 0 => a < x) => Sorted(Append(n, x))
  BY <1>2, LinesAppend
<1> QED
  BY <1>1, <1>2, <1>3 DEF n, x

LEMMA UnitsTail ==
  ASSUME NEW s \in Seq(Units), s # <<>>
  PROVE  /\ Head(s) \in Units /\ Tail(s) \in Seq(Units)
         /\ LinesIn(LinesOf(s)) = LinesIn(LinesOf(Tail(s))) \cup ({Head(s).line} \ {0})
         /\ Sorted(LinesOf(s))
               => /\ Sorted(LinesOf(Tail(s)))
                  /\ \A b \in LinesIn(LinesOf(Tail(s))) : Head(s).line # 0 => Head(s).line < b
<1>1. Head(s) \in Units /\ Tail(s) \in Seq(Units)
  BY HeadTailProperties
<1> DEFINE n == LinesOf(s)
<1>2. /\ n \in Seq(Nat) /\ n # <<>>
      /\ Head(n) = Head(s).line /\ LinesOf(Tail(s)) = Tail(n)
  BY LinesOfType, LinesOfTail
<1> HIDE DEF n
<1>3. /\ LinesIn(n) = LinesIn(Tail(n)) \cup ({Head(n)} \ {0})
      /\ Sorted(n) => /\ Sorted(Tail(n))
                      /\ \A b \in LinesIn(Tail(n)) : Head(n) # 0 => Head(n) < b
  BY <1>2, LinesTail
<1> QED
  BY <1>1, <1>2, <1>3 DEF n

-------------------------------------------------------------------------------
(* Where the lines are. *)

\* The stages that a line goes through, as the sets of the lines that are in them.
AtGrbl  == LinesIn(LinesOf(inbox))
OnCable == LinesIn(LinesOf(tx))
InQueue == LinesIn(queue)
ToDo    == LinesIn(post.todo)

Stages == executed \cup AtGrbl \cup OnCable \cup InQueue \cup ToDo

\* All of one stage come before all of the other.
Below(X, Y) == \A x \in X, y \in Y : x < y

\* Every stage is behind the one before it.
Staged ==
    /\ Below(executed, AtGrbl) /\ Below(executed, OnCable)
    /\ Below(executed, InQueue) /\ Below(executed, ToDo)
    /\ Below(AtGrbl, OnCable) /\ Below(AtGrbl, InQueue) /\ Below(AtGrbl, ToDo)
    /\ Below(OnCable, InQueue) /\ Below(OnCable, ToDo)
    /\ Below(InQueue, ToDo)

\* Each stage is sorted.
InOrder ==
    Sorted(LinesOf(inbox)) /\ Sorted(LinesOf(tx)) /\ Sorted(queue) /\ Sorted(post.todo)

\* A line that is yet to be pushed was not accepted, and all lines have been received.
Known ==
    /\ Stages \cup accepted \subseteq 1 .. posted
    /\ accepted \cap ToDo = {}

\* The inductive invariant.
OrderInv == InOrder /\ Staged /\ Known

\* What a step keeps.
Kept == accepted \cap Stages \subseteq Stages'

LEMMA StageTypes ==
  ASSUME TypeOK
  PROVE  /\ inbox \in Seq(Units) /\ tx \in Seq(Units)
         /\ queue \in Seq(Nat) /\ post.todo \in Seq(Nat) /\ posted \in Nat
         /\ AtGrbl \subseteq Nat /\ OnCable \subseteq Nat /\ InQueue \subseteq Nat
         /\ ToDo \subseteq Nat /\ executed \subseteq Nat /\ accepted \subseteq Nat
<1>1. inbox \in Seq(Units) /\ tx \in Seq(Units) /\ queue \in Seq(Nat)
  BY Wider DEF TypeOK
<1>2. post.todo \in Seq(Nat) /\ posted \in Nat
  BY Wider DEF TypeOK
<1>3. LinesOf(inbox) \in Seq(Nat) /\ LinesOf(tx) \in Seq(Nat)
  BY <1>1, LinesOfType
<1>4. executed \subseteq Nat /\ accepted \subseteq Nat
  BY DEF TypeOK, LineIds
<1> QED
  BY <1>1, <1>2, <1>3, <1>4, LinesType DEF AtGrbl, OnCable, InQueue, ToDo

LEMMA OrderInit ==
  ASSUME Init
  PROVE  OrderInv
<1>1. AtGrbl = {} /\ OnCable = {} /\ InQueue = {} /\ ToDo = {}
  BY LinesEmpty, UnitsEmpty DEF Init, NoPost, AtGrbl, OnCable, InQueue, ToDo
<1>2. InOrder
  BY LinesEmpty, UnitsEmpty DEF Init, NoPost, InOrder
<1>3. executed = {} /\ accepted = {}
  BY DEF Init
<1> QED
  BY <1>1, <1>2, <1>3 DEF OrderInv, Staged, Known, Below, Stages

\* Steps that touch no line.
LEMMA OrderElsewhere ==
  ASSUME OrderInv, UNCHANGED <<inbox, tx, queue, post, executed, accepted, posted>>
  PROVE  OrderInv' /\ Kept
<1>1. AtGrbl' = AtGrbl /\ OnCable' = OnCable /\ InQueue' = InQueue /\ ToDo' = ToDo
  BY DEF AtGrbl, OnCable, InQueue, ToDo
<1>2. InOrder'
  BY DEF OrderInv, InOrder
<1> QED
  BY <1>1, <1>2 DEF OrderInv, Staged, Known, Stages, Kept

-------------------------------------------------------------------------------
(* Core0. *)

LEMMA OrderPostBegin ==
  ASSUME TypeOK, OrderInv, NEW k \in PostSizes, PostBegin(k)
  PROVE  OrderInv' /\ Kept
<1>1. k \in Nat /\ posted \in Nat /\ posted' = posted + k
  BY ConstantsAssumption, StageTypes DEF PostBegin
<1> DEFINE t == [i \in 1 .. k |-> posted + i]
<1>2. post'.todo = t
  BY DEF PostBegin, NoPost
<1>3. ToDo' \subseteq (posted + 1) .. (posted + k)
  <2>1. \A i \in 1 .. k : t[i] \in (posted + 1) .. (posted + k)
    BY <1>1
  <2>2. DOMAIN t = 1 .. k
    OBVIOUS
  <2> HIDE DEF t
  <2> QED
    BY <1>2, <2>1, <2>2 DEF ToDo, LinesIn
<1>4. Sorted(t)
  BY <1>1 DEF Sorted
<1> HIDE DEF t
<1>5. /\ inbox' = inbox /\ tx' = tx /\ queue' = queue
      /\ executed' = executed /\ accepted' = accepted
  BY DEF PostBegin, cable, grblHAL
<1>6. AtGrbl' = AtGrbl /\ OnCable' = OnCable /\ InQueue' = InQueue
  BY <1>5 DEF AtGrbl, OnCable, InQueue
<1>7. InOrder'
  BY <1>2, <1>4, <1>5 DEF OrderInv, InOrder
<1>8. Staged'
  BY <1>1, <1>3, <1>5, <1>6, StageTypes DEF OrderInv, Staged, Below, Known, Stages
<1>9. Known'
  <2> DEFINE Old == executed \cup AtGrbl \cup OnCable \cup InQueue \cup accepted
  <2>1. Old \subseteq 1 .. posted
    BY DEF OrderInv, Known, Stages
  <2>2. (Stages \cup accepted)' = Old \cup ToDo'
    BY <1>5, <1>6 DEF Stages
  <2>3. accepted' \subseteq Old
    BY <1>5
  <2> HIDE DEF Old
  <2>4. Old \subseteq 1 .. (posted + k) /\ ToDo' \subseteq 1 .. (posted + k)
    BY <1>1, <1>3, <2>1
  <2>5. (Stages \cup accepted)' \subseteq 1 .. posted'
    BY <1>1, <2>2, <2>4
  <2>6. \A l \in accepted' : l \notin ToDo'
    BY <1>1, <1>3, <2>1, <2>3
  <2> QED
    BY <2>5, <2>6 DEF Known
<1>10. Kept
  BY <1>5, <1>6 DEF OrderInv, Known, Kept, Stages
<1> QED
  BY <1>7, <1>8, <1>9, <1>10 DEF OrderInv

\* The body without its first line.
LEMMA TodoTail ==
  ASSUME TypeOK, OrderInv, post.todo # <<>>, post'.todo = Tail(post.todo)
  PROVE  /\ Head(post.todo) \in Nat /\ Head(post.todo) \in ToDo
         /\ ToDo = ToDo' \cup {Head(post.todo)}
         /\ Sorted(post'.todo) /\ \A b \in ToDo' : Head(post.todo) < b
<1>1. post.todo \in Seq(Nat)
  BY StageTypes
<1>2. Head(post.todo) # 0
  <2>1. post.todo \in Seq(LineIds)
    BY DEF TypeOK
  <2>2. Head(post.todo) \in LineIds
    BY <2>1, HeadTailProperties
  <2> QED
    BY <2>2 DEF LineIds
<1> QED
  BY <1>1, <1>2, LinesTail DEF ToDo, OrderInv, InOrder

LEMMA OrderPostAccept ==
  ASSUME TypeOK, OrderInv, PostAccept
  PROVE  OrderInv' /\ Kept
<1> DEFINE l == Head(post.todo)
<1>1. post.todo # <<>> /\ post'.todo = Tail(post.todo)
  BY DEF PostAccept, TypeOK
<1>2. /\ l \in Nat /\ l \in ToDo /\ ToDo = ToDo' \cup {l}
      /\ Sorted(post'.todo) /\ \A b \in ToDo' : l < b
  BY <1>1, TodoTail
<1>3. /\ inbox' = inbox /\ tx' = tx /\ queue' = Append(queue, l)
      /\ executed' = executed /\ accepted' = accepted \cup {l} /\ posted' = posted
  BY DEF PostAccept, Push, cable, grblHAL
<1> HIDE DEF l
<1>4. AtGrbl' = AtGrbl /\ OnCable' = OnCable
  BY <1>3 DEF AtGrbl, OnCable
<1>5. /\ InQueue' = InQueue \cup ({l} \ {0})
      /\ Sorted(queue) /\ (\A a \in InQueue : l # 0 => a < l) => Sorted(queue')
  BY <1>2, <1>3, LinesAppend, StageTypes DEF InQueue
<1>6. l # 0
  BY <1>2 DEF ToDo, LinesIn
<1>7. \A a \in InQueue : a < l
  BY <1>2 DEF OrderInv, Staged, Below
<1>8. InOrder'
  BY <1>2, <1>3, <1>5, <1>7 DEF OrderInv, InOrder
<1>9. Staged'
  BY <1>2, <1>3, <1>4, <1>5, <1>6 DEF OrderInv, Staged, Below
<1>10. l \notin ToDo'
  BY <1>2
<1>11. Known'
  BY <1>2, <1>3, <1>4, <1>5, <1>10 DEF OrderInv, Known, Stages
<1>12. Kept
  BY <1>2, <1>3, <1>4, <1>5, <1>6 DEF Kept, Stages
<1> QED
  BY <1>8, <1>9, <1>11, <1>12 DEF OrderInv

\* The refused line was accepted by nobody.
LEMMA OrderPostReject ==
  ASSUME TypeOK, OrderInv, PostReject
  PROVE  OrderInv' /\ Kept
<1>1. post.todo # <<>> /\ post'.todo = Tail(post.todo)
  BY DEF PostReject, TypeOK
<1>2. /\ Head(post.todo) \in ToDo /\ ToDo = ToDo' \cup {Head(post.todo)}
      /\ Sorted(post'.todo)
  BY <1>1, TodoTail
<1>3. UNCHANGED <<inbox, tx, queue, executed, accepted, posted>>
  BY DEF PostReject, shared, cable, grblHAL, history, ledger
<1>4. AtGrbl' = AtGrbl /\ OnCable' = OnCable /\ InQueue' = InQueue
  BY <1>3 DEF AtGrbl, OnCable, InQueue
<1>5. InOrder'
  BY <1>2, <1>3 DEF OrderInv, InOrder
<1>6. Staged' /\ Known'
  BY <1>2, <1>3, <1>4 DEF OrderInv, Staged, Known, Stages, Below
<1>7. Kept
  BY <1>2, <1>3, <1>4 DEF OrderInv, Known, Kept, Stages
<1> QED
  BY <1>5, <1>6, <1>7 DEF OrderInv

LEMMA OrderPostReply ==
  ASSUME TypeOK, OrderInv, PostReply
  PROVE  OrderInv' /\ Kept
<1>1. post.todo = <<>> /\ post'.todo = <<>>
  BY DEF PostReply, NoPost
<1>2. UNCHANGED <<inbox, tx, queue, executed, accepted, posted>>
  BY DEF PostReply, shared, cable, grblHAL, history, ledger
<1>3. AtGrbl' = AtGrbl /\ OnCable' = OnCable /\ InQueue' = InQueue /\ ToDo' = ToDo
  BY <1>1, <1>2 DEF AtGrbl, OnCable, InQueue, ToDo
<1>4. InOrder'
  BY <1>1, <1>2 DEF OrderInv, InOrder
<1> QED
  BY <1>2, <1>3, <1>4 DEF OrderInv, Staged, Known, Stages, Kept

LEMMA OrderCore0 ==
  ASSUME TypeOK, OrderInv, Core0
  PROVE  OrderInv' /\ Kept
<1>1. ASSUME NEW r \in Requests, Realtime(r) PROVE OrderInv' /\ Kept
  BY <1>1, OrderElsewhere DEF Realtime, cable, grblHAL, ledger
<1>2. CASE FlagStall
  BY <1>2, OrderElsewhere DEF FlagStall, cable, grblHAL, history, ledger
<1> QED
  BY <1>1, <1>2, OrderPostBegin, OrderPostAccept, OrderPostReject, OrderPostReply DEF Core0

-------------------------------------------------------------------------------
(* Core1. *)

\* The steps in which an accepted line can be lost.
Loses ==
    \/ CutLine /\ Len(tx) = TxRoom
    \/ Unmount
    \/ GrblReceive /\ Head(tx) = Byte("reset")
    \/ GrblAlarm
    \/ Plug

\* Emptying a stage leaves the others in order.
LEMMA OrderEmptied ==
  ASSUME OrderInv, UNCHANGED <<queue, post, executed, accepted, posted>>,
         inbox' \in {inbox, <<>>}, tx' \in {tx, <<>>}
  PROVE  OrderInv'
<1>1. AtGrbl' \in {AtGrbl, {}} /\ Sorted(LinesOf(inbox'))
  BY UnitsEmpty DEF AtGrbl, OrderInv, InOrder
<1>2. OnCable' \in {OnCable, {}} /\ Sorted(LinesOf(tx'))
  BY UnitsEmpty DEF OnCable, OrderInv, InOrder
<1>3. InQueue' = InQueue /\ ToDo' = ToDo
  BY DEF InQueue, ToDo
<1>4. InOrder'
  BY <1>1, <1>2 DEF OrderInv, InOrder
<1>5. Staged'
  BY <1>1, <1>2, <1>3 DEF OrderInv, Staged, Below
<1>6. Known'
  BY <1>1, <1>2, <1>3 DEF OrderInv, Known, Stages
<1> QED
  BY <1>4, <1>5, <1>6 DEF OrderInv

LEMMA OrderTask ==
  ASSUME TypeOK, OrderInv, Task \/ TaskDone
  PROVE  OrderInv' /\ (Loses \/ Kept)
<1> USE DEF core1, shared, cable, grblHAL, ledger, history
<1>1. CASE Mount
  BY <1>1, OrderElsewhere DEF Mount
<1>2. CASE Unmount
  <2>1. OrderInv'
    BY <1>2, OrderEmptied DEF Unmount
  <2> QED
    BY <1>2, <2>1 DEF Loses
<1>3. ASSUME NEW lines, OnLine(lines) PROVE OrderInv' /\ Kept
  BY <1>3, OrderElsewhere DEF OnLine
<1>4. CASE TaskDone
  BY <1>4, OrderElsewhere DEF TaskDone
<1> QED
  BY <1>1, <1>2, <1>3, <1>4 DEF Task, OnAnswer, OnAlarm, OnBanner, OnStatus

\* What is no line may be put on the cable at any time.
LEMMA OrderByte ==
  ASSUME TypeOK, OrderInv, UNCHANGED <<inbox, queue, post, executed, accepted, posted>>,
         NEW u \in Units, u.line = 0, tx' \in {tx, Append(tx, u)}
  PROVE  OrderInv' /\ Kept
<1>1. tx \in Seq(Units)
  BY StageTypes
<1>2. OnCable' = OnCable /\ Sorted(LinesOf(tx'))
  <2>1. CASE tx' = tx
    BY <2>1 DEF OnCable, OrderInv, InOrder
  <2>2. CASE tx' = Append(tx, u)
    <3> DEFINE t == Append(tx, u)
    <3>1. /\ LinesIn(LinesOf(t)) = OnCable \cup ({u.line} \ {0})
          /\ Sorted(LinesOf(tx)) /\ (\A a \in OnCable : u.line # 0 => a < u.line)
                => Sorted(LinesOf(t))
      BY <1>1, UnitsAppend DEF OnCable
    <3> HIDE DEF t
    <3>2. LinesIn(LinesOf(t)) = OnCable /\ Sorted(LinesOf(t))
      BY <3>1 DEF OrderInv, InOrder
    <3> QED
      BY <2>2, <3>2 DEF OnCable, t
  <2> QED
    BY <2>1, <2>2
<1>3. AtGrbl' = AtGrbl /\ InQueue' = InQueue /\ ToDo' = ToDo
  BY DEF AtGrbl, InQueue, ToDo
<1>4. InOrder'
  BY <1>2 DEF OrderInv, InOrder
<1> QED
  BY <1>2, <1>3, <1>4 DEF OrderInv, Staged, Known, Stages, Kept

\* The oldest line of the queue comes behind all that has left it.
LEMMA QueueTail ==
  ASSUME TypeOK, OrderInv, queue # <<>>, queue' = Tail(queue)
  PROVE  /\ Head(queue) \in LineIds /\ Head(queue) \in Nat \ {0}
         /\ InQueue = InQueue' \cup {Head(queue)}
         /\ Sorted(queue') /\ \A b \in InQueue' : Head(queue) < b
         /\ \A a \in OnCable : a < Head(queue)
<1>1. queue \in Seq(Nat) /\ queue \in Seq(LineIds)
  BY StageTypes DEF TypeOK
<1>2. Head(queue) \in LineIds
  BY <1>1, HeadTailProperties
<1>3. Head(queue) \in Nat \ {0}
  BY <1>2 DEF LineIds
<1>4. /\ InQueue = InQueue' \cup {Head(queue)}
      /\ Sorted(queue') /\ \A b \in InQueue' : Head(queue) < b
  BY <1>1, <1>3, LinesTail DEF InQueue, OrderInv, InOrder
<1> QED
  BY <1>2, <1>3, <1>4 DEF OrderInv, Staged, Below

\* It is put on the cable, or is lost on the way.
LEMMA OrderPopped ==
  ASSUME TypeOK, OrderInv, UNCHANGED <<inbox, post, executed, accepted, posted>>,
         queue # <<>>, queue' = Tail(queue), Sorted(LinesOf(tx')),
         OnCable' \in {OnCable, OnCable \cup {Head(queue)}}
  PROVE  OrderInv' /\ (OnCable' = OnCable \cup {Head(queue)} => Kept)
<1> DEFINE l == Head(queue)
<1>1. /\ l \in Nat \ {0} /\ InQueue = InQueue' \cup {l}
      /\ Sorted(queue') /\ \A b \in InQueue' : l < b
  BY QueueTail
<1>2. AtGrbl' = AtGrbl /\ ToDo' = ToDo
  BY DEF AtGrbl, ToDo
<1>3. OnCable' \in {OnCable, OnCable \cup {l}}
  OBVIOUS
<1>4. InOrder'
  BY <1>1 DEF OrderInv, InOrder
<1>6. OnCable' = OnCable \cup {l} => Kept
  BY <1>1, <1>2 DEF Kept, Stages
<1> HIDE DEF l
<1>5. Staged' /\ Known'
  BY <1>1, <1>2, <1>3 DEF OrderInv, Staged, Known, Stages, Below
<1> QED
  BY <1>4, <1>5, <1>6 DEF OrderInv, l

LEMMA OrderSendLine ==
  ASSUME TypeOK, OrderInv, SendLine
  PROVE  OrderInv' /\ Kept
<1> DEFINE l == Head(queue)
<1>1. /\ queue # <<>> /\ queue' = Tail(queue)
      /\ UNCHANGED <<inbox, post, executed, accepted, posted>>
  BY DEF SendLine, CanPop, grblHAL, ledger
<1>2. l \in LineIds /\ l \in Nat \ {0} /\ \A a \in OnCable : a < l
  BY <1>1, QueueTail
<1>3. tx' = Append(Append(tx, Text(l)), Newline) /\ tx \in Seq(Units)
  BY <1>2, WriteLineType, StageTypes DEF SendLine
<1>4. Text(l) \in Units /\ Newline \in Units /\ Text(l).line = l /\ Newline.line = 0
  BY <1>2, UnitFacts, UnitLine
<1> DEFINE half == Append(tx, Text(l))
<1>5. /\ half \in Seq(Units) /\ LinesIn(LinesOf(half)) = OnCable \cup {l}
      /\ Sorted(LinesOf(half))
  BY <1>2, <1>3, <1>4, UnitsAppend DEF OnCable, OrderInv, InOrder
<1> HIDE DEF half
<1>6. /\ LinesIn(LinesOf(Append(half, Newline))) = LinesIn(LinesOf(half))
      /\ Sorted(LinesOf(Append(half, Newline)))
  BY <1>4, <1>5, UnitsAppend
<1>7. OnCable' = OnCable \cup {l} /\ Sorted(LinesOf(tx'))
  BY <1>3, <1>5, <1>6 DEF OnCable, half
<1> QED
  BY <1>1, <1>7, OrderPopped

LEMMA OrderCutLine ==
  ASSUME TypeOK, OrderInv, CutLine
  PROVE  OrderInv' /\ (Loses \/ Kept)
<1> DEFINE l == Head(queue)
<1>1. /\ queue # <<>> /\ queue' = Tail(queue) /\ WriteCut(Text(l))
      /\ UNCHANGED <<inbox, post, executed, accepted, posted>>
  BY DEF CutLine, CanPop, grblHAL, ledger
<1>2. l \in LineIds /\ l \in Nat \ {0} /\ \A a \in OnCable : a < l
  BY <1>1, QueueTail
<1>3. Text(l) \in Units /\ Text(l).line = l
  BY <1>2, UnitFacts, UnitLine
<1>4. tx \in Seq(Units) /\ Len(tx) <= TxRoom /\ Len(tx) \in Nat /\ TxRoom \in Nat
  BY LenProperties, ConstantsAssumption DEF TypeOK
<1>5. CASE Len(tx) < TxRoom
  <2>1. tx' = Append(tx, Text(l))
    BY <1>1, <1>5 DEF WriteCut
  <2>2. OnCable' = OnCable \cup {l} /\ Sorted(LinesOf(tx'))
    BY <1>2, <1>3, <1>4, <2>1, UnitsAppend DEF OnCable, OrderInv, InOrder
  <2> QED
    BY <1>1, <2>2, OrderPopped
<1>6. CASE Len(tx) = TxRoom
  <2>1. tx' = tx
    BY <1>1, <1>4, <1>6 DEF WriteCut
  <2>2. OnCable' = OnCable /\ Sorted(LinesOf(tx'))
    BY <2>1 DEF OnCable, OrderInv, InOrder
  <2>3. OrderInv'
    BY <1>1, <2>2, OrderPopped
  <2> QED
    BY <1>6, <2>3 DEF Loses
<1> QED
  BY <1>4, <1>5, <1>6

LEMMA OrderPass ==
  ASSUME TypeOK, OrderInv, Pass
  PROVE  OrderInv' /\ (Loses \/ Kept)
<1> USE DEF core1, shared, cable, grblHAL, ledger, history
<1>1. CASE SendRealtime
  <2> DEFINE u == Byte(Taken(rt))
  <2>1. Taken(rt) \in {"hold", "resume", "reset"}
    BY DEF Taken
  <2>2. u \in Units /\ u.line = 0
    BY <2>1, UnitFacts, UnitLine
  <2>3. tx' \in {tx, Append(tx, u)}
    BY <1>1, <2>2, WriteCutType DEF SendRealtime
  <2>4. UNCHANGED <<inbox, queue, post, executed, accepted, posted>>
    BY <1>1 DEF SendRealtime
  <2> HIDE DEF u
  <2> QED
    BY <2>2, <2>3, <2>4, OrderByte
<1>2. CASE SendPoll
  <2>1. Byte("poll") \in Units /\ Byte("poll").line = 0
    BY UnitFacts, UnitLine
  <2>2. tx' \in {tx, Append(tx, Byte("poll"))}
    BY <1>2, <2>1, WriteCutType DEF SendPoll
  <2>3. UNCHANGED <<inbox, queue, post, executed, accepted, posted>>
    BY <1>2 DEF SendPoll
  <2> QED
    BY <2>1, <2>2, <2>3, OrderByte
<1>3. CASE TimeOut
  BY <1>3, OrderElsewhere DEF TimeOut
<1>4. CASE CutGQuery
  <2>1. Text(GQuery) \in Units /\ Text(GQuery).line = 0
    BY UnitFacts, UnitLine DEF GQuery
  <2>2. tx' \in {tx, Append(tx, Text(GQuery))}
    BY <1>4, <2>1, WriteCutType DEF CutGQuery
  <2>3. UNCHANGED <<inbox, queue, post, executed, accepted, posted>>
    BY <1>4 DEF CutGQuery
  <2> QED
    BY <2>1, <2>2, <2>3, OrderByte
<1>5. CASE SendGQuery
  <2>1. /\ Text(GQuery) \in Units /\ Text(GQuery).line = 0
        /\ Newline \in Units /\ Newline.line = 0
    BY UnitFacts, UnitLine DEF GQuery
  <2>2. tx' = Append(Append(tx, Text(GQuery)), Newline) /\ tx \in Seq(Units)
    BY <1>5, WriteLineType, StageTypes DEF SendGQuery
  <2> DEFINE half == Append(tx, Text(GQuery))
  <2>3. /\ half \in Seq(Units) /\ LinesIn(LinesOf(half)) = OnCable
        /\ Sorted(LinesOf(half))
    BY <2>1, <2>2, UnitsAppend, ZenonT(40) DEF OnCable, OrderInv, InOrder
  <2> HIDE DEF half
  <2>4. /\ LinesIn(LinesOf(Append(half, Newline))) = OnCable
        /\ Sorted(LinesOf(Append(half, Newline)))
    BY <2>1, <2>3, UnitsAppend, ZenonT(40)
  <2>5. OnCable' = OnCable /\ Sorted(LinesOf(tx'))
    BY <2>2, <2>4 DEF OnCable, half
  <2>6. UNCHANGED <<inbox, queue, post, executed, accepted, posted>>
    BY <1>5 DEF SendGQuery
  <2>7. AtGrbl' = AtGrbl /\ InQueue' = InQueue /\ ToDo' = ToDo
    BY <2>6 DEF AtGrbl, InQueue, ToDo
  <2>8. InOrder'
    BY <2>5, <2>6 DEF OrderInv, InOrder
  <2> QED
    BY <2>5, <2>6, <2>7, <2>8 DEF OrderInv, Staged, Known, Stages, Kept
<1>6. CASE NothingToDo
  BY <1>6, OrderElsewhere DEF NothingToDo
<1> QED
  BY <1>1, <1>2, <1>3, <1>4, <1>5, <1>6, OrderSendLine, OrderCutLine DEF Pass

-------------------------------------------------------------------------------
(* The cable and grblHAL. *)

\* Only a reset byte makes grblHAL forget its input, and only "$G" is taken twice for once.
LEMMA ReceiveLines ==
  ASSUME TypeOK, GrblReceive
  PROVE  \/ Head(tx) \in LineUnits /\ inbox' = Append(inbox, Head(tx))
         \/ Head(tx).line = 0 /\ inbox' = inbox
         \/ Head(tx) = Byte("reset") /\ Head(tx).line = 0 /\ inbox' = <<>>
<1>1. tx \in Seq(Units) /\ tx # <<>>
  BY DEF GrblReceive, TypeOK
<1>2. Head(tx) \in Units
  BY <1>1, HeadTailProperties
<1>3. CASE Head(tx) \in LineUnits
  <2>1. /\ Head(tx) # Byte("poll") /\ Head(tx) # Byte("hold")
        /\ Head(tx) # Byte("resume") /\ Head(tx) # Byte("reset")
    BY <1>3, UnitFacts
  <2>2. \/ inbox' = Append(inbox, Head(tx))
        \/ inbox' = inbox /\ Head(tx) = Text(GQuery)
    BY <1>3, <2>1 DEF GrblReceive
  <2>3. Text(GQuery).line = 0
    BY UnitLine DEF GQuery
  <2> QED
    BY <1>3, <2>2, <2>3
<1>4. ASSUME NEW r \in {"hold", "resume", "reset", "poll"}, Head(tx) = Byte(r)
      PROVE  /\ Head(tx).line = 0
             /\ \/ inbox' = inbox
                \/ r = "reset" /\ inbox' = <<>>
  <2>1. Byte(r) \notin LineUnits /\ Byte(r).line = 0
    BY UnitFacts, UnitLine
  <2>2. \A q \in {"hold", "resume", "reset", "poll"} : Byte(r) = Byte(q) => r = q
    BY DEF Byte
  <2> QED
    BY <1>4, <2>1, <2>2 DEF GrblReceive, grblHAL
<1> QED
  BY <1>2, <1>3, <1>4, UnitFacts

LEMMA OrderReceive ==
  ASSUME TypeOK, OrderInv, GrblReceive
  PROVE  OrderInv' /\ (Loses \/ Kept)
<1> DEFINE u == Head(tx)
           x == u.line
<1>1. /\ tx \in Seq(Units) /\ tx # <<>> /\ tx' = Tail(tx) /\ inbox \in Seq(Units)
      /\ UNCHANGED <<queue, post, executed, accepted, posted>>
  BY StageTypes DEF GrblReceive, shared, history, ledger
<1>2. u \in Units /\ x \in Nat
  BY <1>1, UnitLine, HeadTailProperties
<1>3. /\ OnCable = OnCable' \cup ({x} \ {0})
      /\ Sorted(LinesOf(tx')) /\ \A b \in OnCable' : x # 0 => x < b
  BY <1>1, UnitsTail DEF OnCable, OrderInv, InOrder
<1>4. InQueue' = InQueue /\ ToDo' = ToDo
  BY <1>1 DEF InQueue, ToDo
<1>5. \/ inbox' = Append(inbox, u)
      \/ x = 0 /\ inbox' = inbox
      \/ u = Byte("reset") /\ x = 0 /\ inbox' = <<>>
  BY ReceiveLines
<1>6. \A a \in AtGrbl : x # 0 => a < x
  BY <1>3 DEF OrderInv, Staged, Below
<1>7. CASE inbox' = Append(inbox, u)
  <2>1. AtGrbl' = AtGrbl \cup ({x} \ {0}) /\ Sorted(LinesOf(inbox'))
    BY <1>1, <1>2, <1>6, <1>7, UnitsAppend DEF AtGrbl, OrderInv, InOrder
  <2>2. InOrder'
    BY <1>1, <1>3, <2>1 DEF OrderInv, InOrder
  <2>3. Kept
    BY <1>1, <1>3, <1>4, <2>1 DEF Kept, Stages
  <2> HIDE DEF u, x
  <2>4. Staged'
    BY <1>1, <1>3, <1>4, <2>1 DEF OrderInv, Staged, Below
  <2>5. Known'
    BY <1>1, <1>3, <1>4, <2>1 DEF OrderInv, Known, Stages
  <2> QED
    BY <2>2, <2>3, <2>4, <2>5 DEF OrderInv
<1>8. CASE x = 0 /\ inbox' \in {inbox, <<>>}
  <2>1. OnCable' = OnCable
    BY <1>3, <1>8
  <2>2. AtGrbl' \in {AtGrbl, {}} /\ Sorted(LinesOf(inbox'))
    BY <1>8, UnitsEmpty DEF AtGrbl, OrderInv, InOrder
  <2>3. InOrder'
    BY <1>1, <1>3, <2>2 DEF OrderInv, InOrder
  <2>4. Staged'
    BY <1>1, <1>4, <2>1, <2>2 DEF OrderInv, Staged, Below
  <2>5. Known'
    BY <1>1, <1>4, <2>1, <2>2 DEF OrderInv, Known, Stages
  <2>6. CASE inbox' = inbox
    <3>1. AtGrbl' = AtGrbl
      BY <2>6 DEF AtGrbl
    <3> QED
      BY <1>1, <1>4, <2>1, <2>3, <2>4, <2>5, <3>1 DEF OrderInv, Kept, Stages
  <2>7. CASE u = Byte("reset")
    BY <2>3, <2>4, <2>5, <2>7 DEF OrderInv, Loses
  <2> QED
    BY <1>5, <1>7, <1>8, <2>3, <2>4, <2>5, <2>6, <2>7 DEF OrderInv
<1> QED
  BY <1>5, <1>7, <1>8

\* The executed command was the first, and what is behind it stays.
LEMMA OrderAnswer ==
  ASSUME TypeOK, OrderInv, NEW a, GrblAnswer(a)
  PROVE  OrderInv' /\ Kept
<1>1. PICK k \in DOMAIN inbox :
         /\ inbox' = SubSeq(inbox, k + 1, Len(inbox))
         /\ executed' = executed \cup ({inbox[j].line : j \in 1 .. k} \cap LineIds)
  BY DEF GrblAnswer
<1>2. inbox \in Seq(Units) /\ k \in 1 .. Len(inbox) /\ Len(inbox) \in Nat
  BY StageTypes, LenProperties
<1>3. UNCHANGED <<tx, queue, post, accepted, posted>>
  BY DEF GrblAnswer, shared, ledger
<1> DEFINE n == LinesOf(inbox)
<1>4. /\ n \in Seq(Nat) /\ k \in 1 .. Len(n) /\ Len(n) = Len(inbox)
      /\ \A i \in 1 .. Len(inbox) : n[i] = inbox[i].line
      /\ LinesOf(inbox') = SubSeq(n, k + 1, Len(n))
  BY <1>1, <1>2, LinesOfType, LinesOfDrop
<1>5. Sorted(n) /\ AtGrbl = LinesIn(n)
  BY DEF OrderInv, InOrder, AtGrbl
<1> HIDE DEF n
<1>6. \A j \in 1 .. k : j \in 1 .. Len(inbox)
  BY <1>2
<1> DEFINE first == {n[j] : j \in 1 .. k}
<1>7. executed' = executed \cup (first \cap LineIds)
  BY <1>1, <1>4, <1>6
<1>8. /\ AtGrbl' \subseteq AtGrbl /\ AtGrbl \subseteq AtGrbl' \cup first
      /\ Sorted(LinesOf(inbox'))
      /\ \A j \in 1 .. k, b \in AtGrbl' : n[j] # 0 => n[j] < b
  BY <1>4, <1>5, LinesDrop DEF AtGrbl
<1>9. first \ {0} \subseteq AtGrbl
  BY <1>4, <1>5, <1>6, LenProperties DEF LinesIn
<1>10. \A x \in first \cap LineIds : x \in AtGrbl /\ \A b \in AtGrbl' : x < b
  BY <1>8, <1>9 DEF LineIds
<1> HIDE DEF first
<1>11. OnCable' = OnCable /\ InQueue' = InQueue /\ ToDo' = ToDo
  BY <1>3 DEF OnCable, InQueue, ToDo
<1>12. InOrder'
  BY <1>3, <1>8 DEF OrderInv, InOrder
<1>13. Staged'
  BY <1>7, <1>8, <1>10, <1>11 DEF OrderInv, Staged, Below
<1>14. Known'
  BY <1>3, <1>7, <1>8, <1>10, <1>11 DEF OrderInv, Known, Stages
<1>15. accepted \subseteq LineIds
  BY DEF TypeOK
<1>16. Kept
  BY <1>7, <1>8, <1>11, <1>15 DEF Kept, Stages
<1> QED
  BY <1>12, <1>13, <1>14, <1>16 DEF OrderInv

LEMMA OrderEnvironment ==
  ASSUME TypeOK, OrderInv, Environment
  PROVE  OrderInv' /\ (Loses \/ Kept)
<1> USE DEF core1, shared, cable, grblHAL, ledger, history
<1>1. CASE DeadlinePasses
  BY <1>1, OrderElsewhere DEF DeadlinePasses
<1>2. CASE PollInterval
  BY <1>2, OrderElsewhere DEF PollInterval
<1>3. CASE Plug
  <2>1. OrderInv'
    BY <1>3, OrderEmptied DEF Plug
  <2> QED
    BY <1>3, <2>1 DEF Loses
<1>4. CASE Unplug
  BY <1>4, OrderElsewhere DEF Unplug
<1>5. ASSUME NEW a, GrblAnswer(a) PROVE OrderInv' /\ Kept
  BY <1>5, OrderAnswer
<1>6. CASE GrblAlarm
  <2>1. OrderInv'
    BY <1>6, OrderEmptied DEF GrblAlarm
  <2> QED
    BY <1>6, <2>1 DEF Loses
<1> QED
  BY <1>1, <1>2, <1>3, <1>4, <1>5, <1>6, OrderReceive DEF Environment

LEMMA OrderStep ==
  ASSUME TypeOK, OrderInv, [Next]_vars
  PROVE  OrderInv' /\ (Loses \/ Kept)
<1>1. CASE UNCHANGED vars
  BY <1>1, OrderElsewhere DEF vars, shared, cable, grblHAL, ledger, history
<1> QED
  BY <1>1, OrderCore0, OrderTask, OrderPass, OrderEnvironment DEF Next, Core1

LEMMA OrderHolds == SafetySpec => []OrderInv
<1>1. TypeOK /\ OrderInv /\ [Next]_vars => OrderInv'
  BY OrderStep
<1> QED
  BY OrderInit, <1>1, TypeCorrect, PTL DEF SafetySpec

-------------------------------------------------------------------------------
(* The path as a whole. *)

\* Two sorted sequences, one below the other, are sorted when joined.
LEMMA SortedJoin ==
  ASSUME NEW s \in Seq(Nat), NEW t \in Seq(Nat)
  PROVE  /\ s \o t \in Seq(Nat)
         /\ LinesIn(s \o t) = LinesIn(s) \cup LinesIn(t)
         /\ Sorted(s) /\ Sorted(t) /\ Below(LinesIn(s), LinesIn(t)) => Sorted(s \o t)
<1> DEFINE r == s \o t
           n == Len(s)
           m == Len(t)
<1>1. /\ r \in Seq(Nat) /\ Len(r) = n + m
      /\ \A i \in 1 .. n + m : r[i] = IF i <= n THEN s[i] ELSE t[i - n]
  BY ConcatProperties
<1>2. n \in Nat /\ m \in Nat /\ DOMAIN s = 1 .. n /\ DOMAIN t = 1 .. m
  BY LenProperties
<1>3. DOMAIN r = 1 .. (n + m)
  BY <1>1, LenProperties
<1> HIDE DEF r, n, m
<1>4. ASSUME NEW i \in 1 .. (n + m)
      PROVE  \/ i \in 1 .. n /\ r[i] = s[i]
             \/ i > n /\ i - n \in 1 .. m /\ r[i] = t[i - n]
  BY <1>1, <1>2
<1>5. LinesIn(r) \subseteq LinesIn(s) \cup LinesIn(t)
  <2> SUFFICES ASSUME NEW i \in 1 .. (n + m), r[i] # 0
               PROVE  r[i] \in LinesIn(s) \cup LinesIn(t)
    BY <1>3 DEF LinesIn
  <2> QED
    BY <1>2, <1>4 DEF LinesIn
<1>6. LinesIn(s) \subseteq LinesIn(r)
  <2> SUFFICES ASSUME NEW i \in 1 .. n, s[i] # 0 PROVE s[i] \in LinesIn(r)
    BY <1>2 DEF LinesIn
  <2>1. i \in 1 .. (n + m) /\ i <= n
    BY <1>2
  <2>2. r[i] = s[i]
    BY <1>1, <2>1
  <2> QED
    BY <1>3, <2>1, <2>2 DEF LinesIn
<1>7. LinesIn(t) \subseteq LinesIn(r)
  <2> SUFFICES ASSUME NEW i \in 1 .. m, t[i] # 0 PROVE t[i] \in LinesIn(r)
    BY <1>2 DEF LinesIn
  <2>1. n + i \in 1 .. (n + m) /\ ~(n + i <= n) /\ (n + i) - n = i
    BY <1>2
  <2>2. r[n + i] = t[i]
    BY <1>1, <2>1
  <2> QED
    BY <1>3, <2>1, <2>2 DEF LinesIn
<1>8. ASSUME Sorted(s), Sorted(t), Below(LinesIn(s), LinesIn(t))
      PROVE  Sorted(r)
  <2> SUFFICES ASSUME NEW i \in 1 .. (n + m), NEW j \in 1 .. (n + m),
                      i < j, r[i] # 0, r[j] # 0
               PROVE  r[i] < r[j]
    BY <1>3 DEF Sorted
  <2>1. CASE i \in 1 .. n /\ j \in 1 .. n
    <3>1. r[i] = s[i] /\ r[j] = s[j]
      BY <1>1, <1>2, <2>1
    <3> QED
      BY <1>2, <1>8, <2>1, <3>1 DEF Sorted
  <2>2. CASE i \in 1 .. n /\ j > n
    <3>1. r[i] = s[i] /\ j - n \in 1 .. m /\ r[j] = t[j - n]
      BY <1>1, <1>2, <2>2
    <3>2. r[i] \in LinesIn(s) /\ r[j] \in LinesIn(t)
      BY <1>2, <2>2, <3>1 DEF LinesIn
    <3> QED
      BY <1>8, <3>2 DEF Below
  <2>3. CASE i > n /\ j > n
    <3>1. /\ i - n \in 1 .. m /\ r[i] = t[i - n]
          /\ j - n \in 1 .. m /\ r[j] = t[j - n] /\ i - n < j - n
      BY <1>1, <1>2, <2>3
    <3> QED
      BY <1>2, <1>8, <3>1 DEF Sorted
  <2> QED
    BY <1>2, <2>1, <2>2, <2>3
<1> QED
  BY <1>1, <1>5, <1>6, <1>7, <1>8 DEF r

\* The path holds the lines of its four stages.
LEMMA PathStages ==
  ASSUME TypeOK
  PROVE  /\ Path \in Seq(Nat)
         /\ LinesIn(Path) = AtGrbl \cup OnCable \cup InQueue \cup ToDo
         /\ OrderInv => Sorted(Path)
<1> DEFINE a == LinesOf(inbox)
           b == LinesOf(tx)
           c == queue
           d == post.todo
<1>1. a \in Seq(Nat) /\ b \in Seq(Nat) /\ c \in Seq(Nat) /\ d \in Seq(Nat)
  BY StageTypes, LinesOfType
<1>2. /\ LinesIn(a) = AtGrbl /\ LinesIn(b) = OnCable /\ LinesIn(c) = InQueue
      /\ LinesIn(d) = ToDo
  BY DEF AtGrbl, OnCable, InQueue, ToDo
<1>3. OrderInv => Sorted(a) /\ Sorted(b) /\ Sorted(c) /\ Sorted(d)
  BY DEF OrderInv, InOrder
<1>4. Path = ((a \o b) \o c) \o d
  BY DEF Path
<1> HIDE DEF a, b, c, d
<1>5. /\ a \o b \in Seq(Nat) /\ LinesIn(a \o b) = AtGrbl \cup OnCable
      /\ OrderInv => Sorted(a \o b)
  <2>1. OrderInv => Below(LinesIn(a), LinesIn(b))
    BY <1>2 DEF OrderInv, Staged
  <2> QED
    BY <1>1, <1>2, <1>3, <2>1, SortedJoin
<1> DEFINE ab == a \o b
<1> HIDE DEF ab
<1>6. /\ ab \o c \in Seq(Nat) /\ LinesIn(ab \o c) = AtGrbl \cup OnCable \cup InQueue
      /\ OrderInv => Sorted(ab \o c)
  <2>0. /\ ab \in Seq(Nat) /\ LinesIn(ab) = AtGrbl \cup OnCable
        /\ OrderInv => Sorted(ab)
    BY <1>5 DEF ab
  <2>1. OrderInv => Below(LinesIn(ab), LinesIn(c))
    BY <1>2, <2>0 DEF OrderInv, Staged, Below
  <2> QED
    BY <1>1, <1>2, <1>3, <2>0, <2>1, SortedJoin
<1> DEFINE abc == ab \o c
<1> HIDE DEF abc
<1>7. /\ abc \o d \in Seq(Nat)
      /\ LinesIn(abc \o d) = AtGrbl \cup OnCable \cup InQueue \cup ToDo
      /\ OrderInv => Sorted(abc \o d)
  <2>0. /\ abc \in Seq(Nat) /\ LinesIn(abc) = AtGrbl \cup OnCable \cup InQueue
        /\ OrderInv => Sorted(abc)
    BY <1>6 DEF abc
  <2>1. OrderInv => Below(LinesIn(abc), LinesIn(d))
    BY <1>2, <2>0 DEF OrderInv, Staged, Below
  <2> QED
    BY <1>1, <1>2, <1>3, <2>0, <2>1, SortedJoin
<1>8. Path = abc \o d
  BY <1>4 DEF ab, abc
<1> QED
  BY <1>7, <1>8

\* No line overtakes another on its way to grblHAL, and none is sent twice, for any number of
\* lines, any capacities, and whatever is cut, lost, timed out or reset.
THEOREM LinesKeepTheirOrder == SafetySpec => []PipelineOrder
<1>1. TypeOK /\ OrderInv => PipelineOrder
  <2> SUFFICES ASSUME TypeOK, OrderInv PROVE PipelineOrder
    OBVIOUS
  <2>1. Sorted(Path)
    BY PathStages
  <2>2. Below(executed, LinesIn(Path))
    BY PathStages DEF OrderInv, Staged, Below
  <2>3. \A i \in DOMAIN Path : Path[i] # 0 => Path[i] \in LinesIn(Path)
    BY DEF LinesIn
  <2> QED
    BY <2>1, <2>2, <2>3 DEF PipelineOrder, Sorted, Below
<1> QED
  BY <1>1, TypeCorrect, OrderHolds, PTL

\* What is alive is in one of the five stages.
LEMMA AliveStages == TypeOK => Alive \ {0} = Stages
<1> SUFFICES ASSUME TypeOK PROVE Alive \ {0} = Stages
  OBVIOUS
<1>1. Alive = executed \cup {Path[i] : i \in DOMAIN Path}
  BY DEF Alive
<1>2. {Path[i] : i \in DOMAIN Path} \ {0} = AtGrbl \cup OnCable \cup InQueue \cup ToDo
  BY PathStages DEF LinesIn
<1>3. 0 \notin executed
  BY DEF TypeOK, LineIds
<1> QED
  BY <1>1, <1>2, <1>3 DEF Stages

\* So it is after a step.
LEMMA AliveStagesNext == TypeOK' => (Alive \ {0} = Stages)'
  BY AliveStages, PTL

\* An accepted line is lost only to a full transmit FIFO, to an interface that is closed, or by
\* the controller: a reset, an alarm, its power.  It is lost neither to the queue, nor to a
\* refused neighbour, nor to core1 giving up on an answer.
THEOREM AcceptedLinesSurvive == SafetySpec => AcceptedNotLost
<1>1. ASSUME TypeOK, TypeOK', OrderInv, [Next]_vars
      PROVE  (accepted \cap Alive) \ Alive' # {} => Loses
  <2>1. Loses \/ Kept
    BY <1>1, OrderStep
  <2>2. ASSUME Kept PROVE (accepted \cap Alive) \ Alive' = {}
    <3>1. Alive \ {0} = Stages
      BY <1>1, AliveStages
    <3>2. Alive' \ {0} = Stages'
      BY <1>1, AliveStagesNext
    <3>3. 0 \notin accepted
      BY <1>1 DEF TypeOK, LineIds
    <3> QED
      BY <2>2, <3>1, <3>2, <3>3 DEF Kept
  <2> QED
    BY <2>1, <2>2
<1>2. TypeOK /\ TypeOK' /\ OrderInv /\ [Next]_vars
         => [(accepted \cap Alive) \ Alive' # {} =>
                \/ CutLine /\ Len(tx) = TxRoom
                \/ Unmount
                \/ GrblReceive /\ Head(tx) = Byte("reset")
                \/ GrblAlarm
                \/ Plug]_vars
  BY <1>1 DEF Loses
<1> QED
  BY <1>2, TypeCorrect, OrderHolds, PTL DEF SafetySpec, AcceptedNotLost
===============================================================================
