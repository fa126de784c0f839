--------------------------- MODULE HttpServerProofs ---------------------------
(***************************************************************************)
(* Theorems about HttpServer, for any sizes, any requests and any number   *)
(* of connections: memory, answers and what goes out.                      *)
(***************************************************************************)
EXTENDS HttpServer, TLAPS, SequenceTheorems

\* What a byte on the wire is of.
Sent == {"head", "handled", "too_large"}

\* The record of a connection.
Connection ==
    [pcb : {"none", "open", "closing", "gone"}, cbs : SUBSET Callbacks,
     mallocs : Nat, frees : Nat, request : Requests, arrived : Nat,
     req_len : 0 .. REQ_BUF_SIZE - 1, headers_complete : BOOLEAN, content_length : Int,
     oversized : BOOLEAN, late : BOOLEAN, response : {"none", "handled", "too_large"},
     answers : Nat, had : Int, sent_len : Nat, unacked : 0 .. SND_BUF,
     wire : Seq(Sent \X Nat), fails : Nat, ended : {"no", "recv", "sent", "poll", "err"}]

\* The block is there and registered exactly while the connection is open.
Memory(k) ==
    /\ k.mallocs \in {0, 1}
    /\ k.pcb = "none" => k = Unused
    /\ k.pcb = "open" => k.mallocs = 1 /\ k.frees = 0 /\ k.cbs = Callbacks
    /\ k.pcb \in {"closing", "gone"} => k.frees = k.mallocs /\ k.cbs = {}

\* Of a request that has fitted so far nothing is missing in req; its header tells its length.
Reading(k) ==
    /\ k.content_length = IF k.headers_complete THEN Declared(k) ELSE -1
    /\ ~k.oversized => k.req_len = k.arrived
    /\ k.headers_complete /\ ~k.oversized
       => k.request.header + k.content_length <= REQ_BUF_SIZE - 1

\* What an answer, once begun, was begun on.
Answering(k) ==
    /\ k.answers = IF k.response = "none" THEN 0 ELSE 1
    /\ k.response = "handled" =>
          /\ k.headers_complete
          /\ k.had >= k.content_length
          /\ k.request.header + k.content_length <= REQ_BUF_SIZE - 1

\* The i-th byte of a response, and the first n of them.
Byte(k, i) == IF i <= HEAD THEN <<"head", i>> ELSE <<k.response, i - HEAD>>
Beginning(k, n) == [i \in 1 .. n |-> Byte(k, i)]

\* What is out is a beginning of the response; who closed the connection did not cut it.
Sending(k) ==
    /\ k.response = "none" => k.sent_len = 0 /\ k.unacked = 0
    /\ k.sent_len <= Total(k)
    /\ k.wire = Beginning(k, k.sent_len)
    /\ k.ended = "sent" => k.sent_len = Total(k)
    /\ k.ended = "poll" => k.sent_len = 0
    /\ k.pcb = "open" => k.ended = "no"

\* The inductive invariant, of one connection and of all.
ConnectionInv(k) ==
    /\ k \in Connection
    /\ Memory(k)
    /\ Reading(k)
    /\ k.oversized => k.response # "none"
    /\ Answering(k)
    /\ Sending(k)

HttpInv == conn \in [Conns -> Connection] /\ \A c \in Conns : ConnectionInv(conn[c])
-------------------------------------------------------------------------------
(* The operators on one connection. *)

\* The smallest of two, and of three.
LEMMA LeastOfTwo ==
  ASSUME NEW a \in Int, NEW b \in Int
  PROVE  Least({a, b}) = IF a <= b THEN a ELSE b
  BY DEF Least

LEMMA LeastOfThree ==
  ASSUME NEW a \in Int, NEW b \in Int, NEW c \in Int
  PROVE  /\ Least({a, b, c}) \in {a, b, c}
         /\ Least({a, b, c}) <= a /\ Least({a, b, c}) <= b /\ Least({a, b, c}) <= c
<1>1. \E x \in {a, b, c} : \A y \in {a, b, c} : x <= y
  OBVIOUS
<1> QED
  BY <1>1 DEF Least

\* What a request is.
LEMMA RequestType ==
  ASSUME NEW k \in Connection
  PROVE  /\ k.request.header \in Nat \ {0} /\ k.request.length \in Int
         /\ Declared(k) \in Nat /\ Declared(k) >= k.request.length
  BY SizesAssumption, SMTT(30) DEF Connection, Declared

\* The types of a connection's fields.
LEMMA Fields ==
  ASSUME NEW k \in Connection
  PROVE  /\ k.sent_len \in Nat /\ k.unacked \in 0 .. SND_BUF /\ k.req_len \in 0 .. REQ_BUF_SIZE - 1
         /\ k.arrived \in Nat /\ k.content_length \in Int /\ k.fails \in Nat /\ k.answers \in Nat
         /\ k.had \in Int /\ k.mallocs \in Nat /\ k.frees \in Nat
         /\ k.wire \in Seq(Sent \X Nat)
  BY DEF Connection

LEMMA TotalType ==
  ASSUME NEW k \in Connection
  PROVE  Total(k) \in Nat /\ Total(k) >= HEAD /\ HEAD \in Nat \ {0}
  BY SizesAssumption DEF Total

\* One write takes no more than is left of the response, of the send buffer, and of the
\* buffer it starts in.
LEMMA ChunkFits ==
  ASSUME NEW k \in Connection, k.sent_len <= Total(k)
  PROVE  /\ Chunk(k) \in Nat
         /\ k.sent_len + Chunk(k) <= Total(k)
         /\ k.unacked + Chunk(k) <= SND_BUF
         /\ k.sent_len < HEAD => k.sent_len + Chunk(k) <= HEAD
<1> DEFINE left == Total(k) - k.sent_len
           room == SND_BUF - k.unacked
<1>1. left \in Nat /\ room \in Nat /\ k.sent_len \in Nat /\ k.unacked \in Nat
  BY TotalType, Fields, SizesAssumption
<1>2. CASE k.sent_len < HEAD
  <2>1. HEAD - k.sent_len \in Nat
    BY <1>1, <1>2, TotalType
  <2> DEFINE edge == HEAD - k.sent_len
  <2>2. Chunk(k) = Least({left, room, edge})
    <3>1. {left, room, edge} = {left, room} \cup {edge}
      OBVIOUS
    <3> QED
      BY <3>1, <1>2 DEF Chunk
  <2> HIDE DEF left, room, edge
  <2>3. /\ Chunk(k) \in {left, room, edge}
        /\ Chunk(k) <= left /\ Chunk(k) <= room /\ Chunk(k) <= edge
    <3>1. left \in Int /\ room \in Int /\ edge \in Int
      BY <1>1, <2>1 DEF edge
    <3> HIDE DEF edge
    <3>2. /\ Least({left, room, edge}) \in {left, room, edge}
          /\ Least({left, room, edge}) <= left
          /\ Least({left, room, edge}) <= room
          /\ Least({left, room, edge}) <= edge
      BY <3>1, LeastOfThree
    <3> QED
      BY <3>2, <2>2
  <2> QED
    BY <1>1, <2>1, <2>3, TotalType, SizesAssumption DEF left, room, edge
<1>3. CASE ~(k.sent_len < HEAD)
  <2>1. Chunk(k) = Least({left, room})
    <3>1. {left, room} = {left, room} \cup {}
      OBVIOUS
    <3> QED
      BY <3>1, <1>3 DEF Chunk
  <2> HIDE DEF left, room
  <2>2. Chunk(k) = IF left <= room THEN left ELSE room
    BY <1>1, <2>1, LeastOfTwo
  <2> QED
    BY <1>1, <1>3, <2>2, TotalType, SizesAssumption DEF left, room
<1> QED
  BY <1>2, <1>3

\* What one write adds is the next bytes of the response.
LEMMA SourceIsNext ==
  ASSUME NEW k \in Connection, k.sent_len <= Total(k)
  PROVE  Source(k, Chunk(k)) = [i \in 1 .. Chunk(k) |-> Byte(k, k.sent_len + i)]
<1>1. /\ Chunk(k) \in Nat /\ k.sent_len \in Nat /\ HEAD \in Nat
      /\ k.sent_len < HEAD => k.sent_len + Chunk(k) <= HEAD
  BY ChunkFits, TotalType DEF Connection
<1> DEFINE n == Chunk(k)
<1> HIDE DEF n
<1>2. CASE k.sent_len < HEAD
  <2>1. \A i \in 1 .. n : Byte(k, k.sent_len + i) = <<"head", k.sent_len + i>>
    BY <1>1, <1>2 DEF Byte, n
  <2> QED
    BY <1>2, <2>1 DEF Source, n
<1>3. CASE ~(k.sent_len < HEAD)
  <2>1. \A i \in 1 .. n : Byte(k, k.sent_len + i) = <<k.response, k.sent_len - HEAD + i>>
    <3> SUFFICES ASSUME NEW i \in 1 .. n
                 PROVE  Byte(k, k.sent_len + i) = <<k.response, k.sent_len - HEAD + i>>
      OBVIOUS
    <3> DEFINE p == k.sent_len + i
    <3>1. i \in Nat /\ i > 0
      BY <1>1 DEF n
    <3>2. ~(p <= HEAD) /\ p - HEAD = k.sent_len - HEAD + i
      BY <1>1, <1>3, <3>1
    <3>3. Byte(k, p) = <<k.response, p - HEAD>>
      <4> HIDE DEF p
      <4> QED
        BY <3>2 DEF Byte
    <3> QED
      BY <3>2, <3>3
  <2> QED
    BY <1>3, <2>1 DEF Source, n
<1> QED
  BY <1>2, <1>3

\* Beginnings are sequences, and a beginning and the bytes after it are a beginning.
LEMMA ByteType ==
  ASSUME NEW k \in Connection, k.response # "none", NEW i \in Nat
  PROVE  Byte(k, i) \in Sent \X Nat
<1>1. k.response \in Sent /\ "head" \in Sent /\ HEAD \in Nat
  BY TotalType DEF Connection, Sent
<1>2. CASE i <= HEAD
  BY <1>1, <1>2 DEF Byte
<1>3. CASE ~(i <= HEAD)
  <2>1. i - HEAD \in Nat
    BY <1>1, <1>3
  <2> QED
    BY <1>1, <1>3, <2>1 DEF Byte
<1> QED
  BY <1>2, <1>3

LEMMA BeginningType ==
  ASSUME NEW k \in Connection, k.response # "none", NEW n \in Nat
  PROVE  Beginning(k, n) \in Seq(Sent \X Nat) /\ Len(Beginning(k, n)) = n
<1>1. \A i \in 1 .. n : Byte(k, i) \in Sent \X Nat
  BY ByteType
<1> QED
  BY <1>1 DEF Beginning

\* One more byte written is a longer beginning.
LEMMA BeginningGrows ==
  ASSUME NEW k \in Connection, k.response # "none", NEW n \in Nat, NEW m \in Nat
  PROVE  Beginning(k, n) \o [i \in 1 .. m |-> Byte(k, n + i)] = Beginning(k, n + m)
<1> DEFINE more == [i \in 1 .. m |-> Byte(k, n + i)]
<1>1. \A i \in 1 .. m : Byte(k, n + i) \in Sent \X Nat
  <2>1. \A i \in 1 .. m : n + i \in Nat
    OBVIOUS
  <2> QED
    BY <2>1, ByteType
<1>2. more \in Seq(Sent \X Nat) /\ Len(more) = m
  BY <1>1
<1>3. Beginning(k, n) \in Seq(Sent \X Nat) /\ Len(Beginning(k, n)) = n
  BY BeginningType
<1>4. Beginning(k, n + m) \in Seq(Sent \X Nat) /\ Len(Beginning(k, n + m)) = n + m
  BY BeginningType
<1> DEFINE s == Beginning(k, n) \o more
<1>5. /\ s \in Seq(Sent \X Nat) /\ Len(s) = n + m
      /\ \A i \in 1 .. n + m : s[i] = IF i <= n THEN Beginning(k, n)[i] ELSE more[i - n]
  <2> DEFINE begun == Beginning(k, n)
  <2> HIDE DEF more, begun
  <2>1. more \in Seq(Sent \X Nat) /\ begun \in Seq(Sent \X Nat) /\ Len(begun) = n
    BY <1>2, <1>3 DEF begun
  <2>2. /\ begun \o more \in Seq(Sent \X Nat)
        /\ Len(begun \o more) = Len(begun) + Len(more)
        /\ \A i \in 1 .. Len(begun) + Len(more) :
              (begun \o more)[i] = IF i <= Len(begun) THEN begun[i] ELSE more[i - Len(begun)]
    BY <2>1, ConcatProperties
  <2> QED
    BY <1>2, <2>1, <2>2 DEF begun
<1>6. \A i \in 1 .. n + m : s[i] = Beginning(k, n + m)[i]
  <2> SUFFICES ASSUME NEW i \in 1 .. n + m
               PROVE  s[i] = Byte(k, i)
    BY DEF Beginning
  <2>1. s[i] = IF i <= n THEN Beginning(k, n)[i] ELSE more[i - n]
    BY <1>5
  <2>2. CASE i <= n
    BY <2>1, <2>2 DEF Beginning
  <2>3. CASE ~(i <= n)
    <3>1. i - n \in 1 .. m /\ n + (i - n) = i
      BY <2>3
    <3> QED
      BY <2>1, <2>3, <3>1
  <2> QED
    BY <2>2, <2>3
<1> HIDE DEF s
<1>7. s = Beginning(k, n + m)
  BY <1>4, <1>5, <1>6, SeqEqual
<1> QED
  BY <1>7 DEF s
-------------------------------------------------------------------------------
(* What a step on a connection leaves alone. *)

\* Whether a step leaves these parts of a connection alone.
SameMemory(k, m) ==
    /\ m.pcb = k.pcb /\ m.cbs = k.cbs /\ m.mallocs = k.mallocs /\ m.frees = k.frees
    /\ m.ended = k.ended
SameRequest(k, m) ==
    /\ m.request = k.request /\ m.arrived = k.arrived /\ m.req_len = k.req_len
    /\ m.headers_complete = k.headers_complete /\ m.content_length = k.content_length
    /\ m.oversized = k.oversized
SameAnswer(k, m) == m.response = k.response /\ m.answers = k.answers /\ m.had = k.had
SameWire(k, m) == m.sent_len = k.sent_len /\ m.unacked = k.unacked /\ m.wire = k.wire

\* A response that has been begun, and one that has got no shorter since.
Begun(k) ==
    /\ k \in Connection
    /\ k.response # "none" /\ k.sent_len <= Total(k) /\ k.wire = Beginning(k, k.sent_len)

\* Whether what is out has only grown, along the same response.
Further(k, m) ==
    /\ Begun(m)
    /\ SameMemory(k, m) /\ SameRequest(k, m) /\ SameAnswer(k, m)
    /\ k.sent_len <= m.sent_len

LEMMA FurtherIsTransitive ==
  ASSUME NEW k, NEW l, NEW m, k \in Connection, Further(k, l), Further(l, m)
  PROVE  Further(k, m)
<1>1. SameMemory(k, m) /\ SameRequest(k, m) /\ SameAnswer(k, m)
  BY DEF Further, SameMemory, SameRequest, SameAnswer
<1>2. k.sent_len <= m.sent_len
  <2>1. k.sent_len \in Nat /\ l.sent_len \in Nat /\ m.sent_len \in Nat
    BY Fields DEF Further, Begun
  <2>2. k.sent_len <= l.sent_len /\ l.sent_len <= m.sent_len
    BY DEF Further
  <2> QED
    BY <2>1, <2>2
<1> QED
  BY <1>1, <1>2 DEF Further

LEMMA BeginningKept ==
  ASSUME NEW k, NEW m, m.response = k.response, NEW n
  PROVE  Beginning(m, n) = Beginning(k, n) /\ Total(m) = Total(k)
  BY DEF Beginning, Byte, Total

\* A tcp_write that succeeds takes a response further; one that fails leaves it.
LEMMA WrittenIsFurther ==
  ASSUME NEW k, Begun(k)
  PROVE  Further(k, Written(k))
<1> DEFINE n == Chunk(k)
           m == Written(k)
           more == Source(k, n)
<1>1. k \in Connection /\ k.sent_len <= Total(k) /\ k.response # "none"
      /\ k.wire = Beginning(k, k.sent_len)
  BY DEF Begun
<1>2. /\ n \in Nat /\ k.sent_len \in Nat /\ k.unacked \in Nat /\ SND_BUF \in Nat
      /\ k.sent_len + n <= Total(k) /\ k.unacked + n <= SND_BUF
  BY <1>1, ChunkFits, Fields, SizesAssumption
<1>3. k.wire \o more = Beginning(k, k.sent_len + n)
  <2>1. more = [i \in 1 .. n |-> Byte(k, k.sent_len + i)]
    BY <1>1, SourceIsNext
  <2> HIDE DEF n, more
  <2> QED
    BY <1>1, <1>2, <2>1, BeginningGrows, ZenonT(40)
<1>4. k.wire \o more \in Seq(Sent \X Nat)
  <2>1. k.sent_len + n \in Nat
    BY <1>2
  <2> HIDE DEF n, more
  <2> QED
    BY <1>1, <1>3, <2>1, BeginningType
<1>5. m = [k EXCEPT !.wire = k.wire \o more, !.sent_len = k.sent_len + n,
                    !.unacked = k.unacked + n]
  BY DEF Written
<1> HIDE DEF n, m, more
<1>6. k.sent_len + n \in Nat /\ k.unacked + n \in 0 .. SND_BUF
  BY <1>2
<1>7. m \in Connection
  BY <1>1, <1>4, <1>5, <1>6 DEF Connection
<1>8. /\ SameMemory(k, m) /\ SameRequest(k, m) /\ SameAnswer(k, m)
      /\ m.sent_len = k.sent_len + n /\ m.wire = k.wire \o more
  BY <1>1, <1>5 DEF Connection, SameMemory, SameRequest, SameAnswer
<1>9. Beginning(m, m.sent_len) = Beginning(k, m.sent_len) /\ Total(m) = Total(k)
  BY <1>8, BeginningKept DEF SameAnswer
<1>10. k.sent_len <= m.sent_len
  BY <1>2, <1>8
<1> QED
  BY <1>1, <1>2, <1>3, <1>7, <1>8, <1>9, <1>10 DEF Further, Begun, SameAnswer, m

LEMMA WriteFailedIsFurther ==
  ASSUME NEW k, Begun(k), NEW m \in WriteFailed(k)
  PROVE  Further(k, m)
<1>1. k \in Connection /\ k.fails + 1 \in Nat
  BY Fields DEF Begun
<1>2. m = [k EXCEPT !.fails = k.fails + 1]
  BY DEF WriteFailed
<1>3. m \in Connection
  BY <1>1, <1>2 DEF Connection
<1>4. /\ SameMemory(k, m) /\ SameRequest(k, m) /\ SameAnswer(k, m)
      /\ m.sent_len = k.sent_len /\ m.wire = k.wire
  BY <1>1, <1>2 DEF Connection, SameMemory, SameRequest, SameAnswer
<1>5. Beginning(m, m.sent_len) = Beginning(k, m.sent_len) /\ Total(m) = Total(k)
  BY <1>4, BeginningKept DEF SameAnswer
<1>6. k.sent_len <= m.sent_len
  BY <1>1, <1>4, Fields
<1> QED
  BY <1>3, <1>4, <1>5, <1>6 DEF Further, Begun, SameAnswer

\* However often tcp_write fails, send_more takes a response further.
LEMMA SendMoreIsFurther ==
  ASSUME NEW k, Begun(k), NEW m \in SendMore(k)
  PROVE  Further(k, m)
<1>1. k \in Connection
  BY DEF Begun
<1>2. CASE m = k
  <2>1. k.sent_len <= k.sent_len
    BY <1>1, Fields
  <2> QED
    BY <1>2, <2>1 DEF Further, SameMemory, SameRequest, SameAnswer
<1>3. CASE m \in WriteFailed(k)
  BY <1>3, WriteFailedIsFurther
<1> DEFINE l == Written(k)
<1>4. Further(k, l) /\ Begun(l)
  BY WrittenIsFurther DEF Further
<1>5. CASE m = l
  BY <1>4, <1>5
<1>6. CASE m \in WriteFailed(l)
  BY <1>1, <1>4, <1>6, WriteFailedIsFurther, FurtherIsTransitive
<1>7. CASE m = Written(l)
  BY <1>1, <1>4, <1>7, WrittenIsFurther, FurtherIsTransitive
<1> QED
  BY <1>2, <1>3, <1>5, <1>6, <1>7 DEF SendMore
-------------------------------------------------------------------------------
(* What the steps make of one connection. *)

\* A response that went further keeps all that holds of the connection.
LEMMA FurtherKeepsInv ==
  ASSUME NEW k, ConnectionInv(k), k.pcb = "open", NEW l, Begun(l), l.pcb = "open",
         SameMemory(k, l), Reading(l), Answering(l), NEW m, Further(l, m)
  PROVE  ConnectionInv(m)
<1>1. k \in Connection /\ Memory(k) /\ Sending(k)
  BY DEF ConnectionInv
<1>2. m \in Connection /\ m.response # "none" /\ Begun(m)
  BY DEF Further, Begun
<1>3. SameMemory(k, m) /\ m.pcb = "open"
  BY DEF Further, SameMemory
<1>4. Memory(m)
  BY <1>1, <1>3 DEF SameMemory, Memory
<1>5. Reading(m)
  BY DEF Further, SameRequest, Reading, Declared
<1>6. Answering(m)
  BY DEF Further, SameRequest, SameAnswer, Answering
<1>7. Sending(m)
  BY <1>1, <1>2, <1>3 DEF Begun, Sending, SameMemory
<1> QED
  BY <1>2, <1>4, <1>5, <1>6, <1>7 DEF ConnectionInv

\* So does what send_more makes of a response that has been begun.
LEMMA SendMoreKeepsInv ==
  ASSUME NEW k, ConnectionInv(k), k.pcb = "open", k.response # "none",
         NEW m \in SendMore(k)
  PROVE  ConnectionInv(m)
<1>1. Begun(k) /\ Reading(k) /\ Answering(k)
  BY DEF ConnectionInv, Sending, Begun
<1>2. Further(k, m)
  BY <1>1, SendMoreIsFurther
<1>3. SameMemory(k, k)
  BY DEF SameMemory
<1> QED
  BY <1>1, <1>2, <1>3, FurtherKeepsInv

\* Beginning one, with the request read as it is, on what an answer of its kind needs.
LEMMA BeginResponseKeepsInv ==
  ASSUME NEW k, ConnectionInv(k), k.pcb = "open", k.response = "none",
         NEW l \in Connection, SameMemory(k, l), l.response = "none", l.answers = k.answers,
         l.wire = k.wire, Reading(l),
         NEW kind \in {"handled", "too_large"},
         kind = "handled" =>
            /\ l.headers_complete /\ l.had >= l.content_length
            /\ l.request.header + l.content_length <= REQ_BUF_SIZE - 1,
         NEW m \in BeginResponse(l, kind)
  PROVE  ConnectionInv(m)
<1> DEFINE b == [l EXCEPT !.response = kind, !.answers = @ + 1, !.sent_len = 0]
<1>1. k.answers = 0 /\ k.wire = Beginning(k, 0) /\ k.sent_len = 0
  BY DEF ConnectionInv, Answering, Sending
<1>2. b = [l EXCEPT !.response = kind, !.answers = 1, !.sent_len = 0]
  BY <1>1 DEF Connection
<1> HIDE DEF b
<1>3. b \in Connection
  BY <1>2 DEF Connection
<1>4. /\ SameMemory(l, b) /\ SameRequest(l, b) /\ b.had = l.had
      /\ b.response = kind /\ b.answers = 1 /\ b.sent_len = 0 /\ b.wire = l.wire
  BY <1>2 DEF Connection, SameMemory, SameRequest
<1>5. b.wire = Beginning(b, b.sent_len)
  BY <1>1, <1>4 DEF Beginning
<1>6. b.sent_len <= Total(b)
  BY <1>3, <1>4, TotalType
<1>7. Begun(b)
  BY <1>3, <1>4, <1>5, <1>6 DEF Begun
<1>8. SameMemory(k, b) /\ b.pcb = "open"
  BY <1>4 DEF SameMemory
<1>9. Reading(b)
  BY <1>4 DEF SameRequest, Reading, Declared
<1>10. Answering(b)
  BY <1>4 DEF SameRequest, Answering
<1>11. Further(b, m)
  BY <1>7, SendMoreIsFurther DEF BeginResponse, b
<1> QED
  BY <1>7, <1>8, <1>9, <1>10, <1>11, FurtherKeepsInv

\* Freeing what was not freed yet.
LEMMA FreedOnce ==
  ASSUME NEW k \in Connection, k.frees = 0
  PROVE  /\ Freed(k) \in Connection /\ Freed(k).frees = 1
         /\ SameRequest(k, Freed(k)) /\ SameAnswer(k, Freed(k)) /\ SameWire(k, Freed(k))
         /\ Freed(k).mallocs = k.mallocs /\ Freed(k).cbs = k.cbs
         /\ Freed(k).ended = k.ended /\ Freed(k).pcb = k.pcb
<1> DEFINE f == Freed(k)
<1>1. f = [k EXCEPT !.frees = 1]
  BY DEF Freed, Connection
<1> HIDE DEF f
<1>2. f \in Connection
  BY <1>1, ZenonT(40) DEF Connection
<1>3. SameRequest(k, f) /\ SameAnswer(k, f) /\ SameWire(k, f)
  BY <1>1 DEF Connection, SameRequest, SameAnswer, SameWire
<1>4. f.frees = 1 /\ f.mallocs = k.mallocs /\ f.cbs = k.cbs /\ f.ended = k.ended
      /\ f.pcb = k.pcb
  BY <1>1 DEF Connection
<1> QED
  BY <1>2, <1>3, <1>4 DEF f

\* close_conn frees the memory of an open connection, once, whatever tcp_close says.
LEMMA CloseConnKeepsInv ==
  ASSUME NEW k, ConnectionInv(k), k.pcb = "open",
         NEW l, l \in Connection, SameMemory(k, l), SameRequest(k, l), SameAnswer(k, l),
         l.sent_len = k.sent_len, l.wire = k.wire,
         k.response = "none" => l.unacked = 0,
         NEW callback \in {"recv", "sent", "poll"},
         callback = "sent" => k.sent_len = Total(k),
         callback = "poll" => k.response = "none",
         NEW m \in CloseConn(l, callback)
  PROVE  ConnectionInv(m)
<1>1. k \in Connection /\ Memory(k) /\ Reading(k) /\ Answering(k) /\ Sending(k)
      /\ (k.oversized => k.response # "none")
  BY DEF ConnectionInv
<1>2. l.mallocs = 1 /\ l.frees = 0 /\ l.pcb = "open"
  BY <1>1 DEF SameMemory, Memory
<1> DEFINE d == [l EXCEPT !.cbs = {}, !.ended = callback]
<1>3. d = [Deregistered(l) EXCEPT !.ended = callback]
  BY DEF Connection, Deregistered
<1>4. d \in Connection /\ d.cbs = {} /\ d.frees = 0
  BY <1>2, ZenonT(40) DEF Connection, d
<1>5. \/ m = Freed([d EXCEPT !.pcb = "closing"])
      \/ m = Freed(Aborted(d))
  BY <1>3 DEF CloseConn
<1> HIDE DEF d
<1> DEFINE e == [d EXCEPT !.pcb = "closing"]
           g == Aborted(d)
<1>6. /\ e \in Connection /\ SameRequest(d, e) /\ SameAnswer(d, e) /\ SameWire(d, e)
      /\ e.frees = 0 /\ e.mallocs = d.mallocs /\ e.cbs = {} /\ e.ended = d.ended
      /\ e.pcb = "closing"
  BY <1>4, ZenonT(40) DEF Connection, SameRequest, SameAnswer, SameWire
<1>7. /\ g \in Connection /\ SameRequest(d, g) /\ SameAnswer(d, g) /\ SameWire(d, g)
      /\ g.frees = 0 /\ g.mallocs = d.mallocs /\ g.cbs = {} /\ g.ended = d.ended
      /\ g.pcb = "gone"
  <2>1. g = [d EXCEPT !.pcb = "gone", !.frees = 0, !.cbs = {}]
    BY <1>4 DEF Aborted, Connection
  <2> HIDE DEF g
  <2>2. g \in Connection
    BY <1>4, <2>1, ZenonT(40) DEF Connection
  <2>3. SameRequest(d, g) /\ SameAnswer(d, g) /\ SameWire(d, g)
    BY <1>4, <2>1 DEF Connection, SameRequest, SameAnswer, SameWire
  <2>4. g.frees = 0 /\ g.mallocs = d.mallocs /\ g.cbs = {} /\ g.ended = d.ended
        /\ g.pcb = "gone"
    BY <1>4, <2>1 DEF Connection
  <2> QED
    BY <2>2, <2>3, <2>4
<1>8. /\ SameRequest(l, d) /\ SameAnswer(l, d) /\ SameWire(l, d)
      /\ d.mallocs = 1 /\ d.ended = callback
  BY <1>2 DEF Connection, SameRequest, SameAnswer, SameWire, d
<1> HIDE DEF e, g
<1>9. /\ m \in Connection /\ SameRequest(d, m) /\ SameAnswer(d, m) /\ SameWire(d, m)
      /\ m.frees = 1 /\ m.mallocs = d.mallocs /\ m.cbs = {} /\ m.ended = d.ended
      /\ m.pcb \in {"closing", "gone"}
  <2>1. m = Freed(e) \/ m = Freed(g)
    BY <1>5 DEF e, g
  <2> QED
    BY <1>6, <1>7, <2>1, FreedOnce DEF SameRequest, SameAnswer, SameWire
<1>10. SameRequest(k, m) /\ SameAnswer(k, m) /\ m.sent_len = k.sent_len /\ m.wire = k.wire
  BY <1>8, <1>9 DEF SameRequest, SameAnswer, SameWire
<1>11. Memory(m)
  BY <1>8, <1>9 DEF Memory
<1>12. Reading(m)
  BY <1>1, <1>10 DEF SameRequest, Reading, Declared
<1>13. Answering(m)
  BY <1>1, <1>10 DEF SameRequest, SameAnswer, Answering
<1>14. Beginning(m, m.sent_len) = Beginning(k, m.sent_len) /\ Total(m) = Total(k)
  BY <1>10, BeginningKept DEF SameAnswer
<1>15. Sending(m)
  <2>1. m.unacked = l.unacked /\ m.ended = callback /\ m.pcb # "open"
    BY <1>8, <1>9 DEF SameWire
  <2> QED
    BY <1>1, <1>10, <1>14, <2>1 DEF Sending, SameAnswer
<1>16. m.oversized => m.response # "none"
  BY <1>1, <1>10 DEF SameRequest, SameAnswer
<1> QED
  BY <1>9, <1>11, <1>12, <1>13, <1>15, <1>16 DEF ConnectionInv

\* What on_recv appends it accounts for: what does not fit makes the request oversized.
LEMMA StoredKeepsReading ==
  ASSUME NEW k, ConnectionInv(k), NEW n \in Nat
  PROVE  /\ Stored(k, n) \in Connection /\ Reading(Stored(k, n))
         /\ SameMemory(k, Stored(k, n)) /\ SameAnswer(k, Stored(k, n))
         /\ SameWire(k, Stored(k, n)) /\ Stored(k, n).request = k.request
         /\ Stored(k, n).headers_complete = k.headers_complete
         /\ Stored(k, n).content_length = k.content_length
<1>1. k \in Connection /\ Reading(k)
  BY DEF ConnectionInv
<1> DEFINE len == Least({k.req_len + n, REQ_BUF_SIZE - 1})
           over == k.oversized \/ n > REQ_BUF_SIZE - 1 - k.req_len
           m == Stored(k, n)
<1>2. k.req_len \in 0 .. REQ_BUF_SIZE - 1 /\ k.arrived \in Nat /\ REQ_BUF_SIZE \in Nat \ {0}
  BY <1>1, Fields, SizesAssumption
<1>3. len = IF k.req_len + n <= REQ_BUF_SIZE - 1 THEN k.req_len + n ELSE REQ_BUF_SIZE - 1
  <2>1. k.req_len + n \in Int /\ REQ_BUF_SIZE - 1 \in Int
    BY <1>2
  <2> DEFINE a == k.req_len + n
             b == REQ_BUF_SIZE - 1
  <2> HIDE DEF a, b
  <2>2. Least({a, b}) = IF a <= b THEN a ELSE b
    BY <2>1, LeastOfTwo DEF a, b
  <2> QED
    BY <2>2 DEF a, b
<1>4. over \in BOOLEAN
  OBVIOUS
<1>5. ~over => len = k.req_len + n /\ ~k.oversized
  BY <1>2, <1>3
<1>6. len \in 0 .. REQ_BUF_SIZE - 1 /\ k.arrived + n \in Nat
  BY <1>2, <1>3
<1>7. m = [k EXCEPT !.arrived = k.arrived + n, !.req_len = len, !.oversized = over]
  BY DEF Stored
<1> HIDE DEF len, over, m
<1>8. m \in Connection
  BY <1>1, <1>4, <1>6, <1>7 DEF Connection
<1>9. SameMemory(k, m) /\ SameAnswer(k, m) /\ SameWire(k, m) /\ m.request = k.request
      /\ m.headers_complete = k.headers_complete /\ m.content_length = k.content_length
  BY <1>1, <1>7 DEF Connection, SameMemory, SameAnswer, SameWire
<1>10. m.arrived = k.arrived + n /\ m.req_len = len /\ m.oversized = over
  BY <1>1, <1>7 DEF Connection
<1>11. Reading(m)
  BY <1>1, <1>2, <1>5, <1>9, <1>10 DEF Reading, Declared
<1> QED
  BY <1>8, <1>9, <1>11 DEF m

\* And the header, when it is there, is looked at once and says what is still to come.
LEMMA ParsedKeepsReading ==
  ASSUME NEW k \in Connection, Reading(k)
  PROVE  /\ Parsed(k) \in Connection /\ Reading(Parsed(k))
         /\ SameMemory(k, Parsed(k)) /\ SameAnswer(k, Parsed(k)) /\ SameWire(k, Parsed(k))
         /\ Parsed(k).request = k.request
         /\ k.headers_complete => /\ Parsed(k).headers_complete
                                  /\ Parsed(k).content_length = k.content_length
<1>1. CASE k.headers_complete \/ k.req_len < k.request.header
  <2>1. Parsed(k) = k
    BY <1>1 DEF Parsed
  <2> QED
    BY <2>1 DEF SameMemory, SameAnswer, SameWire
<1>2. CASE ~(k.headers_complete \/ k.req_len < k.request.header)
  <2> DEFINE over == k.oversized \/ k.request.header + Declared(k) > REQ_BUF_SIZE - 1
             d == Declared(k)
             m == Parsed(k)
  <2>1. over \in BOOLEAN
    OBVIOUS
  <2>2. m = [k EXCEPT !.headers_complete = TRUE, !.content_length = d, !.oversized = over]
    BY <1>2 DEF Parsed
  <2>3. d \in Nat /\ k.request.header \in Nat /\ REQ_BUF_SIZE \in Nat
    BY RequestType, SizesAssumption
  <2>4. ~over => ~k.oversized /\ k.request.header + d <= REQ_BUF_SIZE - 1
    BY <2>3
  <2>5. ~k.headers_complete
    BY <1>2
  <2> HIDE DEF over, d, m
  <2>6. m \in Connection
    <3>1. d \in Int
      BY <2>3
    <3> QED
      BY <2>1, <2>2, <3>1 DEF Connection
  <2>7. SameMemory(k, m) /\ SameAnswer(k, m) /\ SameWire(k, m) /\ m.request = k.request
        /\ m.req_len = k.req_len /\ m.arrived = k.arrived
    BY <2>2 DEF Connection, SameMemory, SameAnswer, SameWire
  <2>8. m.headers_complete = TRUE /\ m.content_length = d /\ m.oversized = over
    BY <2>2 DEF Connection
  <2>9. Declared(m) = d
    BY <2>7 DEF Declared, d
  <2>10. Reading(m)
    BY <2>4, <2>7, <2>8, <2>9 DEF Reading
  <2> QED
    BY <2>5, <2>6, <2>7, <2>10 DEF m
<1> QED
  BY <1>1, <1>2
-------------------------------------------------------------------------------
(* The steps. *)

\* A step on one connection that keeps what holds of it keeps what holds of all.
LEMMA OneConnection ==
  ASSUME HttpInv, NEW c \in Conns, NEW k, ConnectionInv(k), conn' = [conn EXCEPT ![c] = k]
  PROVE  HttpInv'
<1>1. k \in Connection
  BY DEF ConnectionInv
<1>2. conn' \in [Conns -> Connection]
  BY <1>1 DEF HttpInv
<1>3. \A d \in Conns : conn'[d] = IF d = c THEN k ELSE conn[d]
  BY DEF HttpInv
<1>4. \A d \in Conns : ConnectionInv(conn'[d])
  BY <1>3 DEF HttpInv
<1> QED
  BY <1>2, <1>4 DEF HttpInv

\* A connection whose callbacks are set is open.
LEMMA LiveIsOpen ==
  ASSUME HttpInv, NEW c \in Conns, NEW callback, Live(c, callback)
  PROVE  conn[c].pcb = "open" /\ ConnectionInv(conn[c])
<1>1. ConnectionInv(conn[c]) /\ Memory(conn[c])
  BY DEF HttpInv, ConnectionInv
<1> QED
  BY <1>1 DEF Live, Memory

LEMMA UnusedInv == ConnectionInv(Unused)
<1>1. (CHOOSE q \in Requests : TRUE) \in Requests
  BY SizesAssumption
<1>2. Unused \in Connection
  BY <1>1, SizesAssumption DEF Unused, Connection, Callbacks
<1>3. Memory(Unused)
  BY DEF Unused, Memory
<1>4. Reading(Unused) /\ Answering(Unused) /\ ~Unused.oversized
  BY DEF Unused, Reading, Answering
<1>5. Beginning(Unused, 0) = << >>
  BY DEF Beginning
<1>6. Total(Unused) >= 0
  BY <1>2, TotalType
<1>7. Sending(Unused)
  <2>1. /\ Unused.sent_len = 0 /\ Unused.unacked = 0 /\ Unused.wire = << >>
        /\ Unused.ended = "no"
    BY DEF Unused
  <2> QED
    BY <1>5, <1>6, <2>1 DEF Sending
<1> QED
  BY <1>2, <1>3, <1>4, <1>7 DEF ConnectionInv

\* on_accept: the block is there with its callbacks, or the connection is gone at once.
LEMMA AcceptKeepsInv ==
  ASSUME HttpInv, NEW c \in Conns, Accept(c)
  PROVE  HttpInv'
<1>1. conn[c] = Unused /\ conn \in [Conns -> Connection]
  BY DEF Accept, HttpInv, ConnectionInv, Memory
<1>2. Unused \in Connection /\ Sending(Unused)
  BY UnusedInv DEF ConnectionInv
<1>3. CASE conn' = [conn EXCEPT ![c].pcb = "gone"]
  <2> DEFINE m == [Unused EXCEPT !.pcb = "gone"]
  <2>1. conn' = [conn EXCEPT ![c] = m]
    BY <1>1, <1>3
  <2>2. m \in Connection
    BY <1>2 DEF Connection
  <2>3. Memory(m) /\ Reading(m) /\ Answering(m) /\ ~m.oversized
    BY DEF Unused, Memory, Reading, Answering
  <2>4. /\ SameAnswer(Unused, m) /\ SameWire(Unused, m) /\ m.ended = "no"
        /\ m.response = "none"
    BY DEF Unused, SameAnswer, SameWire
  <2> HIDE DEF m
  <2>5. Sending(m)
    <3>1. Beginning(m, m.sent_len) = Beginning(Unused, m.sent_len) /\ Total(m) = Total(Unused)
      BY <2>4, BeginningKept DEF SameAnswer
    <3> QED
      BY <1>2, <2>4, <3>1 DEF Sending, SameAnswer, SameWire
  <2>6. ConnectionInv(m)
    BY <2>2, <2>3, <2>5 DEF ConnectionInv
  <2> QED
    BY <2>1, <2>6, OneConnection
<1>4. ASSUME NEW q \in Requests,
             conn' = [conn EXCEPT ![c] = [@ EXCEPT !.pcb = "open", !.cbs = Callbacks,
                                                   !.mallocs = 1, !.request = q]]
      PROVE  HttpInv'
  <2> DEFINE m == [Unused EXCEPT !.pcb = "open", !.cbs = Callbacks, !.mallocs = 1,
                                 !.request = q]
  <2>1. conn' = [conn EXCEPT ![c] = m]
    BY <1>1, <1>4
  <2>2. m \in Connection
    BY <1>2 DEF Connection
  <2>3. Memory(m) /\ Reading(m) /\ Answering(m) /\ ~m.oversized
    BY DEF Unused, Memory, Reading, Answering
  <2>4. /\ SameAnswer(Unused, m) /\ SameWire(Unused, m) /\ m.ended = "no"
        /\ m.response = "none"
    BY DEF Unused, SameAnswer, SameWire
  <2> HIDE DEF m
  <2>5. Sending(m)
    <3>1. Beginning(m, m.sent_len) = Beginning(Unused, m.sent_len) /\ Total(m) = Total(Unused)
      BY <2>4, BeginningKept DEF SameAnswer
    <3> QED
      BY <1>2, <2>4, <3>1 DEF Sending, SameAnswer, SameWire
  <2>6. ConnectionInv(m)
    BY <2>2, <2>3, <2>5 DEF ConnectionInv
  <2> QED
    BY <2>1, <2>6, OneConnection
<1> QED
  BY <1>3, <1>4 DEF Accept

\* on_recv with data.
LEMMA ReceiveKeepsInv ==
  ASSUME HttpInv, NEW c \in Conns, NEW n \in 1 .. REQ_BUF_SIZE, Receive(c, n)
  PROVE  HttpInv'
<1> DEFINE k == conn[c]
           s == Stored(k, n)
           l == Parsed(s)
           h == [l EXCEPT !.had = BodyBytes(l)]
<1>1. ConnectionInv(k) /\ k.pcb = "open" /\ n \in Nat
  BY LiveIsOpen DEF Receive
<1>2. Live(c, "recv")
  BY DEF Receive
<1>3. PICK m \in (IF Unanswered(l) /\ l.oversized
                  THEN BeginResponse(l, "too_large")
                  ELSE IF Unanswered(l) /\ Complete(l)
                  THEN BeginResponse(h, "handled")
                  ELSE {l}) : conn' = [conn EXCEPT ![c] = m]
  BY DEF Receive, Becomes, BuildAndSend
<1> HIDE DEF k
<1>4. /\ s \in Connection /\ Reading(s) /\ SameMemory(k, s) /\ SameAnswer(k, s)
      /\ SameWire(k, s) /\ s.request = k.request
      /\ s.headers_complete = k.headers_complete /\ s.content_length = k.content_length
  BY <1>1, StoredKeepsReading
<1> HIDE DEF s
<1>5. /\ l \in Connection /\ Reading(l) /\ SameMemory(s, l) /\ SameAnswer(s, l)
      /\ SameWire(s, l) /\ l.request = s.request
      /\ s.headers_complete => l.headers_complete /\ l.content_length = s.content_length
  BY <1>4, ParsedKeepsReading
<1> HIDE DEF l
<1>6. /\ SameMemory(k, l) /\ SameAnswer(k, l) /\ SameWire(k, l) /\ l.request = k.request
      /\ k.headers_complete => l.headers_complete /\ l.content_length = k.content_length
  BY <1>4, <1>5 DEF SameMemory, SameAnswer, SameWire
<1>7. ConnectionInv(m)
  <2>1. CASE Unanswered(l) /\ l.oversized
    <3>1. m \in BeginResponse(l, "too_large")
      BY <1>3, <2>1
    <3>2. k.response = "none" /\ l.response = "none" /\ l.answers = k.answers
          /\ l.wire = k.wire
      BY <1>6, <2>1 DEF Unanswered, SameAnswer, SameWire
    <3> QED
      BY <1>1, <1>5, <1>6, <3>1, <3>2, BeginResponseKeepsInv
  <2>2. CASE Unanswered(l) /\ ~l.oversized /\ Complete(l)
    <3>1. m \in BeginResponse(h, "handled")
      BY <1>3, <2>2
    <3>2. BodyBytes(l) \in Int
      BY <1>5, Fields, RequestType DEF BodyBytes
    <3>3. /\ h \in Connection /\ SameMemory(l, h) /\ SameRequest(l, h) /\ h.response = l.response
          /\ h.answers = l.answers /\ h.wire = l.wire /\ h.had = BodyBytes(l)
      BY <1>5, <3>2 DEF Connection, SameMemory, SameRequest
    <3> HIDE DEF h
    <3>4. Reading(h)
      BY <1>5, <3>3 DEF SameRequest, Reading, Declared
    <3>5. k.response = "none" /\ h.response = "none" /\ h.answers = k.answers
          /\ h.wire = k.wire
      BY <1>6, <2>2, <3>3 DEF Unanswered, SameAnswer, SameWire
    <3>6. /\ h.headers_complete /\ h.had >= h.content_length
          /\ h.request.header + h.content_length <= REQ_BUF_SIZE - 1
      BY <1>5, <2>2, <3>3 DEF Complete, SameRequest, Reading
    <3>7. SameMemory(k, h)
      BY <1>6, <3>3 DEF SameMemory
    <3> QED
      BY <1>1, <3>1, <3>3, <3>4, <3>5, <3>6, <3>7, BeginResponseKeepsInv
  <2>3. CASE /\ ~(Unanswered(l) /\ l.oversized)
             /\ ~(Unanswered(l) /\ Complete(l))
    <3>1. m = l
      BY <1>3, <2>3
    <3>2. Memory(k) /\ Answering(k) /\ Sending(k)
      BY <1>1 DEF ConnectionInv
    <3>3. Memory(l)
      BY <1>1, <1>6, <3>2 DEF SameMemory, Memory
    <3>4. Answering(l)
      BY <1>6, <3>2 DEF SameAnswer, Answering
    <3>5. Sending(l)
      <4>1. Beginning(l, l.sent_len) = Beginning(k, l.sent_len) /\ Total(l) = Total(k)
        BY <1>6, BeginningKept DEF SameAnswer
      <4> QED
        BY <1>6, <3>2, <4>1 DEF Sending, SameMemory, SameAnswer, SameWire
    <3>6. l.oversized => l.response # "none"
      BY <2>3 DEF Unanswered
    <3> QED
      BY <1>5, <3>1, <3>3, <3>4, <3>5, <3>6 DEF ConnectionInv
  <2> QED
    BY <2>1, <2>2, <2>3
<1> QED
  BY <1>3, <1>7, OneConnection

\* on_recv without data, and the timeout of on_poll.
LEMMA ClosingKeepsInv ==
  ASSUME HttpInv, NEW c \in Conns, conn[c].pcb = "open",
         NEW callback \in {"recv", "poll"}, callback = "poll" => conn[c].response = "none",
         Becomes(c, CloseConn(conn[c], callback))
  PROVE  HttpInv'
<1> DEFINE k == conn[c]
<1>1. ConnectionInv(k) /\ k \in Connection /\ Sending(k)
  BY DEF HttpInv, ConnectionInv
<1>2. PICK m \in CloseConn(k, callback) : conn' = [conn EXCEPT ![c] = m]
  BY DEF Becomes
<1>3. k.pcb = "open" /\ (callback = "poll" => k.response = "none")
  OBVIOUS
<1> HIDE DEF k
<1>4. SameMemory(k, k) /\ SameRequest(k, k) /\ SameAnswer(k, k)
  BY DEF SameMemory, SameRequest, SameAnswer
<1>5. (k.response = "none" => k.unacked = 0) /\ callback # "sent"
      /\ callback \in {"recv", "sent", "poll"}
  BY <1>1 DEF Sending
<1>6. ConnectionInv(m)
  BY <1>1, <1>2, <1>3, <1>4, <1>5, CloseConnKeepsInv
<1> QED
  BY <1>2, <1>6, OneConnection

\* on_sent: more is written, or all of the response is acknowledged and the connection closed.
LEMMA AcknowledgeKeepsInv ==
  ASSUME HttpInv, NEW c \in Conns, NEW n \in 1 .. SND_BUF, Acknowledge(c, n)
  PROVE  HttpInv'
<1> DEFINE k == conn[c]
           l == [k EXCEPT !.unacked = @ - n]
<1>1. ConnectionInv(k) /\ k.pcb = "open"
  BY LiveIsOpen DEF Acknowledge
<1>2. n <= k.unacked
  BY DEF Acknowledge
<1>3. PICK m \in (IF AllSent(l) THEN CloseConn(l, "sent") ELSE SendMore(l)) :
        conn' = [conn EXCEPT ![c] = m]
  BY DEF Acknowledge, Becomes
<1> HIDE DEF k
<1>4. /\ k \in Connection /\ Memory(k) /\ Reading(k) /\ Answering(k) /\ Sending(k)
      /\ k.oversized => k.response # "none"
  BY <1>1 DEF ConnectionInv
<1>5. k.unacked \in 0 .. SND_BUF /\ SND_BUF \in Nat /\ k.sent_len \in Nat /\ Total(k) \in Nat
  BY <1>4, Fields, TotalType, SizesAssumption
<1>6. k.unacked - n \in 0 .. SND_BUF /\ k.unacked # 0
  BY <1>2, <1>5
<1>7. k.response # "none"
  BY <1>4, <1>6 DEF Sending
<1>8. l = [k EXCEPT !.unacked = k.unacked - n]
  OBVIOUS
<1> HIDE DEF l
<1>9. l \in Connection
  BY <1>4, <1>6, <1>8 DEF Connection
<1>10. /\ SameMemory(k, l) /\ SameRequest(k, l) /\ SameAnswer(k, l)
       /\ l.sent_len = k.sent_len /\ l.wire = k.wire
  BY <1>4, <1>8 DEF Connection, SameMemory, SameRequest, SameAnswer
<1>11. Beginning(l, l.sent_len) = Beginning(k, l.sent_len) /\ Total(l) = Total(k)
  BY <1>10, BeginningKept DEF SameAnswer
<1>12. l.response # "none" /\ l.pcb = "open"
  BY <1>1, <1>7, <1>10 DEF SameMemory, SameAnswer
<1>13. ConnectionInv(m)
  <2>1. CASE AllSent(l)
    <3>1. m \in CloseConn(l, "sent")
      BY <1>3, <2>1
    <3>2. k.sent_len = Total(k)
      <4>1. k.sent_len >= Total(k) /\ k.sent_len <= Total(k)
        BY <1>4, <1>10, <1>11, <2>1 DEF AllSent, Sending
      <4> QED
        BY <1>5, <4>1
    <3> QED
      BY <1>1, <1>7, <1>9, <1>10, <3>1, <3>2, CloseConnKeepsInv
  <2>2. CASE ~AllSent(l)
    <3>1. m \in SendMore(l)
      BY <1>3, <2>2
    <3>2. Memory(l)
      BY <1>4, <1>12, <1>10 DEF SameMemory, Memory
    <3>3. Reading(l) /\ Answering(l)
      BY <1>4, <1>10 DEF SameRequest, SameAnswer, Reading, Answering, Declared
    <3>4. Sending(l)
      BY <1>4, <1>10, <1>11, <1>12 DEF Sending, SameMemory
    <3>5. ConnectionInv(l)
      BY <1>9, <1>12, <3>2, <3>3, <3>4 DEF ConnectionInv
    <3> QED
      BY <1>12, <3>1, <3>5, SendMoreKeepsInv
  <2> QED
    BY <2>1, <2>2
<1> QED
  BY <1>3, <1>13, OneConnection

\* on_poll: send again, give up on a request that does not come, or nothing.
LEMMA PollKeepsInv ==
  ASSUME HttpInv, NEW c \in Conns, Poll(c)
  PROVE  HttpInv'
<1>1. ConnectionInv(conn[c]) /\ conn[c].pcb = "open"
  BY LiveIsOpen DEF Poll
<1>2. CASE conn[c].response # "none"
  <2>1. PICK m \in SendMore(conn[c]) : conn' = [conn EXCEPT ![c] = m]
    BY <1>2 DEF Poll, Becomes, Resend
  <2>2. ConnectionInv(m)
    BY <1>1, <1>2, <2>1, SendMoreKeepsInv
  <2> QED
    BY <2>1, <2>2, OneConnection
<1>3. CASE conn[c].response = "none" /\ conn[c].late
  <2>1. Becomes(c, CloseConn(conn[c], "poll"))
    BY <1>3 DEF Poll
  <2> QED
    BY <1>1, <1>3, <2>1, ClosingKeepsInv
<1>4. CASE conn[c].response = "none" /\ ~conn[c].late
  <2>1. PICK m \in {conn[c]} : conn' = [conn EXCEPT ![c] = m]
    BY <1>4 DEF Poll, Becomes
  <2> QED
    BY <1>1, <2>1, OneConnection
<1> QED
  BY <1>2, <1>3, <1>4

LEMMA TimePassesKeepsInv ==
  ASSUME HttpInv, NEW c \in Conns, TimePasses(c)
  PROVE  HttpInv'
<1> DEFINE k == conn[c]
           m == [k EXCEPT !.late = TRUE]
<1>1. ConnectionInv(k) /\ conn \in [Conns -> Connection]
  BY DEF HttpInv
<1>2. conn' = [conn EXCEPT ![c] = m] /\ k.pcb = "open"
  BY <1>1 DEF TimePasses
<1> HIDE DEF k
<1>3. /\ k \in Connection /\ Memory(k) /\ Reading(k) /\ Answering(k) /\ Sending(k)
      /\ k.oversized => k.response # "none"
  BY <1>1 DEF ConnectionInv
<1>4. m \in Connection
  BY <1>3 DEF Connection
<1>5. SameMemory(k, m) /\ SameRequest(k, m) /\ SameAnswer(k, m) /\ SameWire(k, m)
  BY <1>3 DEF Connection, SameMemory, SameRequest, SameAnswer, SameWire
<1> HIDE DEF m
<1>6. Beginning(m, m.sent_len) = Beginning(k, m.sent_len) /\ Total(m) = Total(k)
  BY <1>5, BeginningKept DEF SameAnswer
<1>7. Memory(m)
  BY <1>2, <1>3, <1>5 DEF SameMemory, Memory
<1>8. Reading(m) /\ Answering(m) /\ (m.oversized => m.response # "none")
  BY <1>3, <1>5 DEF SameRequest, SameAnswer, Reading, Answering, Declared
<1>9. Sending(m)
  BY <1>3, <1>5, <1>6 DEF Sending, SameMemory, SameAnswer, SameWire
<1>10. ConnectionInv(m)
  BY <1>4, <1>7, <1>8, <1>9 DEF ConnectionInv
<1> QED
  BY <1>2, <1>10, OneConnection

\* on_err frees what the connection had.
LEMMA ErrorKeepsInv ==
  ASSUME HttpInv, NEW c \in Conns, Error(c)
  PROVE  HttpInv'
<1> DEFINE k == conn[c]
           d == [k EXCEPT !.ended = "err"]
           m == Aborted(d)
<1>1. ConnectionInv(k) /\ k.pcb = "open"
  BY LiveIsOpen DEF Error
<1>2. conn' = [conn EXCEPT ![c] = m] /\ "err" \in k.cbs
  BY DEF Error, Becomes, Live
<1> HIDE DEF k
<1>3. /\ k \in Connection /\ Memory(k) /\ Reading(k) /\ Answering(k) /\ Sending(k)
      /\ k.oversized => k.response # "none"
  BY <1>1 DEF ConnectionInv
<1>4. k.frees = 0 /\ k.mallocs = 1
  BY <1>1, <1>3 DEF Memory
<1>5. /\ d \in Connection /\ "err" \in d.cbs /\ d.frees = 0
      /\ d = [k EXCEPT !.ended = "err"]
  BY <1>2, <1>3, <1>4, SMTT(30) DEF Connection
<1> HIDE DEF d
<1>6. m = [d EXCEPT !.pcb = "gone", !.frees = 1, !.cbs = {}]
  BY <1>5 DEF Aborted, Connection
<1> HIDE DEF m
<1>7. m \in Connection
  BY <1>5, <1>6, ZenonT(40) DEF Connection
<1>8. SameRequest(k, d) /\ SameAnswer(k, d) /\ SameWire(k, d) /\ d.mallocs = k.mallocs
      /\ d.ended = "err"
  BY <1>3, <1>5 DEF Connection, SameRequest, SameAnswer, SameWire
<1>9. SameRequest(d, m) /\ SameAnswer(d, m) /\ SameWire(d, m) /\ m.mallocs = d.mallocs
      /\ m.ended = d.ended /\ m.frees = 1 /\ m.pcb = "gone" /\ m.cbs = {}
  BY <1>5, <1>6 DEF Connection, SameRequest, SameAnswer, SameWire
<1>10. SameRequest(k, m) /\ SameAnswer(k, m) /\ SameWire(k, m)
  BY <1>8, <1>9 DEF SameRequest, SameAnswer, SameWire
<1>11. Beginning(m, m.sent_len) = Beginning(k, m.sent_len) /\ Total(m) = Total(k)
  BY <1>10, BeginningKept DEF SameAnswer
<1>12. Memory(m)
  BY <1>4, <1>8, <1>9 DEF Memory
<1>13. Reading(m) /\ Answering(m) /\ (m.oversized => m.response # "none")
  BY <1>3, <1>10 DEF SameRequest, SameAnswer, Reading, Answering, Declared
<1>14. Sending(m)
  BY <1>3, <1>8, <1>9, <1>10, <1>11 DEF Sending, SameAnswer, SameWire
<1>15. ConnectionInv(m)
  BY <1>7, <1>12, <1>13, <1>14 DEF ConnectionInv
<1> QED
  BY <1>2, <1>15, OneConnection

LEMMA PcbFreedKeepsInv ==
  ASSUME HttpInv, NEW c \in Conns, PcbFreed(c)
  PROVE  HttpInv'
<1> DEFINE k == conn[c]
           m == [k EXCEPT !.pcb = "gone"]
<1>1. ConnectionInv(k) /\ conn \in [Conns -> Connection]
  BY DEF HttpInv
<1>2. conn' = [conn EXCEPT ![c] = m] /\ k.pcb = "closing"
  BY <1>1 DEF PcbFreed
<1> HIDE DEF k
<1>3. /\ k \in Connection /\ Memory(k) /\ Reading(k) /\ Answering(k) /\ Sending(k)
      /\ k.oversized => k.response # "none"
  BY <1>1 DEF ConnectionInv
<1>4. m \in Connection
  BY <1>3 DEF Connection
<1>5. /\ SameRequest(k, m) /\ SameAnswer(k, m) /\ SameWire(k, m) /\ m.ended = k.ended
      /\ m.pcb = "gone" /\ m.frees = k.frees /\ m.mallocs = k.mallocs /\ m.cbs = k.cbs
  BY <1>3 DEF Connection, SameRequest, SameAnswer, SameWire
<1> HIDE DEF m
<1>6. Beginning(m, m.sent_len) = Beginning(k, m.sent_len) /\ Total(m) = Total(k)
  BY <1>5, BeginningKept DEF SameAnswer
<1>7. Memory(m)
  BY <1>2, <1>3, <1>5 DEF Memory
<1>8. Reading(m) /\ Answering(m) /\ (m.oversized => m.response # "none")
  BY <1>3, <1>5 DEF SameRequest, SameAnswer, Reading, Answering, Declared
<1>9. Sending(m)
  BY <1>3, <1>5, <1>6 DEF Sending, SameAnswer, SameWire
<1>10. ConnectionInv(m)
  BY <1>4, <1>7, <1>8, <1>9 DEF ConnectionInv
<1> QED
  BY <1>2, <1>10, OneConnection

\* Initially no connection is open, and every step keeps what holds of all of them.
LEMMA HttpInvariant == Spec => []HttpInv
<1>1. Init => HttpInv
  <2> SUFFICES ASSUME Init PROVE HttpInv
    OBVIOUS
  <2>1. \A c \in Conns : conn[c] = Unused
    BY DEF Init
  <2>2. Unused \in Connection
    BY UnusedInv DEF ConnectionInv
  <2> QED
    BY <2>1, <2>2, UnusedInv DEF Init, HttpInv
<1>2. HttpInv /\ [Next]_conn => HttpInv'
  <2> SUFFICES ASSUME HttpInv, [Next]_conn PROVE HttpInv'
    OBVIOUS
  <2>1. CASE UNCHANGED conn
    BY <2>1 DEF HttpInv
  <2>2. ASSUME NEW c \in Conns, Step(c)
        PROVE  HttpInv'
    <3>1. CASE Accept(c)
      BY <3>1, AcceptKeepsInv
    <3>2. CASE PeerCloses(c)
      <4>1. conn[c].pcb = "open" /\ Becomes(c, CloseConn(conn[c], "recv"))
        BY <3>2, LiveIsOpen DEF PeerCloses
      <4> QED
        BY <4>1, ClosingKeepsInv
    <3>3. CASE Poll(c)
      BY <3>3, PollKeepsInv
    <3>4. CASE TimePasses(c)
      BY <3>4, TimePassesKeepsInv
    <3>5. CASE Error(c)
      BY <3>5, ErrorKeepsInv
    <3>6. CASE PcbFreed(c)
      BY <3>6, PcbFreedKeepsInv
    <3>7. CASE \E n \in 1 .. REQ_BUF_SIZE : Receive(c, n)
      BY <3>7, ReceiveKeepsInv
    <3>8. CASE \E n \in 1 .. SND_BUF : Acknowledge(c, n)
      BY <3>8, AcknowledgeKeepsInv
    <3> QED
      BY <2>2, <3>1, <3>2, <3>3, <3>4, <3>5, <3>6, <3>7, <3>8 DEF Step
  <2> QED
    BY <2>1, <2>2 DEF Next
<1> QED
  BY <1>1, <1>2, PTL DEF Spec
-------------------------------------------------------------------------------
\* The memory of a connection is freed exactly once, and no callback has it afterwards,
\* whichever of close_conn and on_err frees it.
THEOREM MemoryIsFreedOnce == Spec => []MemoryFollowsPcb
<1>1. HttpInv => MemoryFollowsPcb
  <2> SUFFICES ASSUME HttpInv, NEW c \in Conns
               PROVE  /\ conn[c].frees \in 0 .. conn[c].mallocs
                      /\ conn[c].cbs # {} => Held(conn[c])
                      /\ Held(conn[c]) => conn[c].cbs = Callbacks /\ conn[c].pcb = "open"
    BY DEF MemoryFollowsPcb
  <2>1. conn[c] \in Connection /\ Memory(conn[c])
    BY DEF HttpInv, ConnectionInv
  <2>2. CASE conn[c].pcb = "none"
    BY <2>1, <2>2 DEF Memory, Unused, Held
  <2>3. CASE conn[c].pcb = "open"
    BY <2>1, <2>3 DEF Memory, Held
  <2>4. CASE conn[c].pcb \in {"closing", "gone"}
    <3>1. conn[c].frees = conn[c].mallocs /\ conn[c].cbs = {} /\ conn[c].mallocs \in {0, 1}
      BY <2>1, <2>4 DEF Memory
    <3> QED
      BY <3>1 DEF Held
  <2> QED
    BY <2>1, <2>2, <2>3, <2>4 DEF Connection
<1> QED
  BY <1>1, HttpInvariant, PTL

\* What send_more puts out is a beginning of the response, and all of it where the server
\* itself ends the connection.
THEOREM ResponseGoesOutWhole == Spec => []WireIsResponse
<1>1. HttpInv => WireIsResponse
  <2> SUFFICES ASSUME HttpInv, NEW c \in Conns
               PROVE  /\ conn[c].wire = Beginning(conn[c], conn[c].sent_len)
                      /\ conn[c].ended = "sent" => conn[c].sent_len = Total(conn[c])
                      /\ conn[c].ended = "poll" => conn[c].wire = << >>
    BY DEF WireIsResponse, Beginning, Byte
  <2>1. Sending(conn[c])
    BY DEF HttpInv, ConnectionInv
  <2>2. Beginning(conn[c], 0) = << >>
    BY DEF Beginning
  <2> QED
    BY <2>1, <2>2 DEF Sending
<1> QED
  BY <1>1, HttpInvariant, PTL

\* No request is answered twice, and none that overflows req is left without an answer.
THEOREM RequestsAreAnsweredOnce == Spec => []AnsweredOnce
<1>1. HttpInv => AnsweredOnce
  <2> SUFFICES ASSUME HttpInv, NEW c \in Conns
               PROVE  /\ conn[c].answers <= 1
                      /\ conn[c].arrived >= REQ_BUF_SIZE => conn[c].answers = 1
    BY DEF AnsweredOnce
  <2> DEFINE k == conn[c]
  <2>1. /\ k \in Connection /\ Reading(k) /\ Answering(k)
        /\ k.oversized => k.response # "none"
    BY DEF HttpInv, ConnectionInv
  <2> HIDE DEF k
  <2>2. k.arrived >= REQ_BUF_SIZE => k.oversized
    BY <2>1, Fields, SizesAssumption DEF Reading
  <2>3. k.answers <= 1 /\ (k.arrived >= REQ_BUF_SIZE => k.answers = 1)
    BY <2>1, <2>2 DEF Answering
  <2> QED
    BY <2>3 DEF k
<1> QED
  BY <1>1, HttpInvariant, PTL

\* api_dispatch has all of the body a request declares, within req.
THEOREM BodyIsWhole == Spec => []HandlerGetsWholeBody
<1>1. HttpInv => TypeOK
  <2> SUFFICES ASSUME HttpInv, NEW c \in Conns, NEW k, k = conn[c]
               PROVE  /\ DOMAIN k = DOMAIN Unused
                      /\ k.pcb \in {"none", "open", "closing", "gone"}
                      /\ k.cbs \subseteq Callbacks
                      /\ k.req_len \in 0 .. REQ_BUF_SIZE - 1
                      /\ k.content_length \in IF k.headers_complete THEN Nat ELSE {-1}
                      /\ k.response \in {"none", "handled", "too_large"}
                      /\ k.sent_len >= 0 /\ k.unacked \in 0 .. SND_BUF
    BY DEF TypeOK
  <2>1. k \in Connection /\ Reading(k)
    BY DEF HttpInv, ConnectionInv
  <2>2. DOMAIN k = DOMAIN Unused
    BY <2>1 DEF Connection, Unused
  <2>3. k.content_length \in IF k.headers_complete THEN Nat ELSE {-1}
    BY <2>1, RequestType DEF Reading
  <2>4. k.sent_len >= 0
    BY <2>1, Fields
  <2> QED
    BY <2>1, <2>2, <2>3, <2>4 DEF Connection
<1>2. HttpInv => HandlerGetsWholeBody
  <2> SUFFICES ASSUME HttpInv, NEW c \in Conns, conn[c].response = "handled"
               PROVE  /\ conn[c].had >= conn[c].request.length
                      /\ conn[c].request.header + conn[c].content_length <= REQ_BUF_SIZE - 1
    BY <1>1 DEF HandlerGetsWholeBody
  <2> DEFINE k == conn[c]
  <2>1. k \in Connection /\ Reading(k) /\ Answering(k) /\ k.response = "handled"
    BY DEF HttpInv, ConnectionInv
  <2> HIDE DEF k
  <2>2. k.had >= k.content_length /\ k.content_length = Declared(k)
        /\ k.request.header + k.content_length <= REQ_BUF_SIZE - 1
    BY <2>1 DEF Reading, Answering
  <2>3. k.had >= k.request.length
    <3>1. k.had \in Int /\ k.content_length \in Int /\ k.request.length \in Int
          /\ Declared(k) >= k.request.length
      BY <2>1, Fields, RequestType
    <3> QED
      BY <2>2, <3>1
  <2> QED
    BY <2>2, <2>3 DEF k
<1> QED
  BY <1>2, HttpInvariant, PTL
===============================================================================
