------------------------------ MODULE HttpServer ------------------------------
(***************************************************************************)
(* src/http_server.c: the life of a connection over lwIP's callbacks.  A   *)
(* callback runs to its end on core0 before the next begins, so each is    *)
(* one action; when lwIP calls which is up to the peer, to the timers and  *)
(* to the memory there is.  Bytes are counted, not spelled out: a request  *)
(* is where its header ends and the Content-Length it declares, a byte of  *)
(* a response is the buffer and the offset it is taken from.               *)
(***************************************************************************)
EXTENDS Integers, Sequences

CONSTANTS Conns,            \* the connections peers open
          REQ_BUF_SIZE,     \* one byte of it is for the '\0'
          Requests,         \* what a peer sends: [header, length, sends]
          HEAD, BODY,       \* bytes of resp_head and of a handler's body
          BODY413,          \* bytes of "request too large"
          SND_BUF,          \* TCP_SND_BUF
          MaxWriteFails     \* bound on tcp_write returning ERR_MEM, for each connection

ASSUME SizesAssumption ==
    /\ REQ_BUF_SIZE \in Nat \ {0} /\ SND_BUF \in Nat \ {0}
    /\ HEAD \in Nat \ {0} /\ BODY \in Nat /\ BODY413 \in Nat
    /\ MaxWriteFails \in Nat
    /\ Requests # {}
    /\ \A q \in Requests : q \in [header : Nat \ {0}, length : Int, sends : Nat]

VARIABLE conn               \* the connection, its lwIP pcb and its http_conn_t

Callbacks == {"recv", "sent", "poll", "err"}

Least(S) == CHOOSE x \in S : \A y \in S : x <= y

\* A connection no peer has opened yet, and the fields of a calloc'd http_conn_t.
Unused ==
    [pcb              |-> "none",   \* "open", "closing" after tcp_close, "gone"
     cbs              |-> {},       \* the callbacks set on the pcb, its arg with them
     mallocs          |-> 0,        \* how often its http_conn_t was allocated
     frees            |-> 0,        \* and freed
     request          |-> CHOOSE q \in Requests : TRUE,
     arrived          |-> 0,        \* what of the request on_recv was given
     req_len          |-> 0,
     headers_complete |-> FALSE,
     content_length   |-> -1,
     oversized        |-> FALSE,
     late             |-> FALSE,    \* more than HEADERS_TIMEOUT_US since created
     response         |-> "none",   \* response_ready, and of which kind
     answers          |-> 0,        \* history: how often a response was begun
     had              |-> -1,       \* history: body bytes in req when the handler ran
     sent_len         |-> 0,
     unacked          |-> 0,
     wire             |-> <<>>,     \* history: what tcp_write took
     fails            |-> 0,
     ended            |-> "no"]     \* history: which callback ended it

TypeOK ==
    \A c \in Conns :
        /\ DOMAIN conn[c] = DOMAIN Unused
        /\ conn[c].pcb \in {"none", "open", "closing", "gone"}
        /\ conn[c].cbs \subseteq Callbacks
        /\ conn[c].req_len \in 0 .. REQ_BUF_SIZE - 1
        /\ conn[c].content_length \in IF conn[c].headers_complete THEN Nat ELSE {-1}
        /\ conn[c].response \in {"none", "handled", "too_large"}
        /\ conn[c].sent_len >= 0 /\ conn[c].unacked \in 0 .. SND_BUF

Init == conn = [c \in Conns |-> Unused]
-------------------------------------------------------------------------------
Held(k) == k.mallocs > k.frees
Live(c, callback) == conn[c].pcb \in {"open", "closing"} /\ callback \in conn[c].cbs
Becomes(c, outcomes) == \E k \in outcomes : conn' = [conn EXCEPT ![c] = k]

\* Mutant: on_err stays set.
DeregisteredButErr(k) == [k EXCEPT !.cbs = {"err"}]

Deregistered(k) == [k EXCEPT !.cbs = {}]

\* tcp_close finds no memory for a FIN: the pcb is aborted, which calls on_err if it is set.
Aborted(k) ==
    [k EXCEPT !.pcb = "gone", !.frees = @ + (IF "err" \in k.cbs THEN 1 ELSE 0), !.cbs = {}]

Freed(k) == [k EXCEPT !.frees = @ + 1]

CloseConn(k, callback) ==
    LET d == [Deregistered(k) EXCEPT !.ended = callback]
    IN  {Freed([d EXCEPT !.pcb = "closing"]), Freed(Aborted(d))}

Total(k) == HEAD + (IF k.response = "handled" THEN BODY ELSE BODY413)

\* Mutant: the first chunk may reach past the header's end.
ChunkFromOneBuffer(k) == Least({Total(k) - k.sent_len, SND_BUF - k.unacked})

Chunk(k) ==
    Least({Total(k) - k.sent_len, SND_BUF - k.unacked}
          \cup (IF k.sent_len < HEAD THEN {HEAD - k.sent_len} ELSE {}))

\* The bytes of one tcp_write, from the buffer that its first byte is in.
Source(k, n) ==
    IF k.sent_len < HEAD
    THEN [i \in 1 .. n |-> <<"head", k.sent_len + i>>]
    ELSE [i \in 1 .. n |-> <<k.response, k.sent_len - HEAD + i>>]

Written(k) ==
    LET n == Chunk(k)
    IN  [k EXCEPT !.wire = @ \o Source(k, n), !.sent_len = @ + n, !.unacked = @ + n]

WriteFailed(k) == IF k.fails < MaxWriteFails THEN {[k EXCEPT !.fails = @ + 1]} ELSE {}

\* The loop writes at most twice: up to the header's end, and what then fits of the body.
SendMore(k) ==
    IF Chunk(k) = 0 THEN {k}
    ELSE WriteFailed(k) \cup
         (IF Chunk(Written(k)) = 0 THEN {Written(k)}
          ELSE WriteFailed(Written(k)) \cup {Written(Written(k))})

BeginResponse(k, kind) ==
    SendMore([k EXCEPT !.response = kind, !.answers = @ + 1, !.sent_len = 0])
-------------------------------------------------------------------------------
\* on_accept; without memory for the block lwIP aborts the connection.
Accept(c) ==
    /\ conn[c].pcb = "none"
    /\ conn' \in {[conn EXCEPT ![c].pcb = "gone"]}
                 \cup {[conn EXCEPT ![c] = [@ EXCEPT !.pcb = "open", !.cbs = Callbacks,
                                                     !.mallocs = 1, !.request = q]] :
                       q \in Requests}

\* The pbuf is appended, as far as there is space.
Stored(k, n) ==
    [k EXCEPT !.arrived = @ + n,
              !.req_len = Least({@ + n, REQ_BUF_SIZE - 1}),
              !.oversized = @ \/ n > REQ_BUF_SIZE - 1 - k.req_len]

Declared(k) == IF k.request.length < 0 THEN 0 ELSE k.request.length

Parsed(k) ==
    IF k.headers_complete \/ k.req_len < k.request.header THEN k
    ELSE [k EXCEPT !.headers_complete = TRUE,
                   !.content_length = Declared(k),
                   !.oversized = @ \/ k.request.header + Declared(k) > REQ_BUF_SIZE - 1]

BodyBytes(k) == k.req_len - k.request.header

\* Mutants: a request is answered whenever it is looked at; as soon as its header is there.
UnansweredOrNot(k) == TRUE
Unanswered(k) == k.response = "none"

CompleteByHeader(k) == k.headers_complete
Complete(k) == k.headers_complete /\ BodyBytes(k) >= k.content_length

\* api_dispatch runs within, on what is there of the body.
BuildAndSend(k) == BeginResponse([k EXCEPT !.had = BodyBytes(k)], "handled")

\* on_recv with a pbuf of n bytes.
Receive(c, n) ==
    /\ Live(c, "recv")
    /\ conn[c].arrived + n <= conn[c].request.sends
    /\ LET k == Parsed(Stored(conn[c], n))
       IN  Becomes(c, IF Unanswered(k) /\ k.oversized
                      THEN BeginResponse(k, "too_large")
                      ELSE IF Unanswered(k) /\ Complete(k)
                      THEN BuildAndSend(k)
                      ELSE {k})

\* on_recv without a pbuf: the peer has closed its direction.
PeerCloses(c) ==
    /\ Live(c, "recv")
    /\ Becomes(c, CloseConn(conn[c], "recv"))

AllSent(k) == k.sent_len >= Total(k)

\* on_sent: the peer acknowledged n bytes.
Acknowledge(c, n) ==
    /\ Live(c, "sent")
    /\ n <= conn[c].unacked
    /\ LET k == [conn[c] EXCEPT !.unacked = @ - n]
       IN  Becomes(c, IF AllSent(k) THEN CloseConn(k, "sent") ELSE SendMore(k))

\* Mutant: on_poll only looks at the time.
ResendNothing(k) == {k}

Resend(k) == SendMore(k)

\* on_poll, every POLL_INTERVAL_S.
Poll(c) ==
    /\ Live(c, "poll")
    /\ Becomes(c, IF conn[c].response # "none" THEN Resend(conn[c])
                  ELSE IF conn[c].late THEN CloseConn(conn[c], "poll")
                  ELSE {conn[c]})

TimePasses(c) ==
    /\ conn[c].pcb = "open"
    /\ ~conn[c].late
    /\ conn' = [conn EXCEPT ![c].late = TRUE]

\* on_err, after lwIP freed the pcb: a reset by the peer, or retransmissions given up.
Error(c) ==
    /\ Live(c, "err")
    /\ Becomes(c, {Aborted([conn[c] EXCEPT !.ended = "err"])})

\* lwIP is done with a closed pcb.
PcbFreed(c) ==
    /\ conn[c].pcb = "closing"
    /\ conn' = [conn EXCEPT ![c].pcb = "gone"]

Step(c) ==
    \/ Accept(c) \/ PeerCloses(c) \/ Poll(c) \/ TimePasses(c) \/ Error(c) \/ PcbFreed(c)
    \/ \E n \in 1 .. REQ_BUF_SIZE : Receive(c, n)
    \/ \E n \in 1 .. SND_BUF : Acknowledge(c, n)

Next == \E c \in Conns : Step(c)

\* lwIP's timer runs, and a peer acknowledges what it was sent; it need not send anything.
Fairness ==
    \A c \in Conns :
        /\ WF_conn(Poll(c)) /\ WF_conn(TimePasses(c))
        /\ WF_conn(\E n \in 1 .. SND_BUF : Acknowledge(c, n))

Spec == Init /\ [][Next]_conn /\ Fairness
-------------------------------------------------------------------------------
\* Whoever ends a connection - the peer, the last acknowledgement, the timeout, an error, an
\* abort from within a callback - its memory is freed exactly once, and from then on no
\* callback has it for its argument (close_conn, on_err).
MemoryFollowsPcb ==
    \A c \in Conns :
        /\ conn[c].frees \in 0 .. conn[c].mallocs
        /\ conn[c].cbs # {} => Held(conn[c])
        /\ Held(conn[c]) => conn[c].cbs = Callbacks /\ conn[c].pcb = "open"

\* However the send buffer cut it and however often tcp_write failed, what lwIP was given is a
\* beginning of the header followed by the body (send_more).  The server does not stop short of
\* the end: when on_sent closes lwIP has all of it (what it has not yet got acknowledged is lost
\* if tcp_close then fails), and the timeout ends none that was begun.
WireIsResponse ==
    \A c \in Conns :
        /\ conn[c].wire =
              [i \in 1 .. conn[c].sent_len |->
                  IF i <= HEAD THEN <<"head", i>> ELSE <<conn[c].response, i - HEAD>>]
        /\ conn[c].ended = "sent" => conn[c].sent_len = Total(conn[c])
        /\ conn[c].ended = "poll" => conn[c].wire = <<>>

\* A request is answered once, whatever follows it: a POST /api/gcode is not queued again when
\* another segment arrives while its response is being sent.  One too large for req is refused
\* rather than left waiting for the timeout.
AnsweredOnce ==
    \A c \in Conns :
        /\ conn[c].answers <= 1
        /\ conn[c].arrived >= REQ_BUF_SIZE => conn[c].answers = 1

\* The handler gets the body it was promised: all of it had arrived ("called once a full
\* request has been received", api_handlers.h:1-2), and lies within req, which never overflows.
HandlerGetsWholeBody ==
    /\ TypeOK
    /\ \A c \in Conns : conn[c].response = "handled" =>
          /\ conn[c].had >= conn[c].request.length
          /\ conn[c].request.header + conn[c].content_length <= REQ_BUF_SIZE - 1

\* A connection ends, whether or not a request comes and whatever tcp_write said meanwhile,
\* as long as the peer acknowledges what it gets.
ConnectionEnds == \A c \in Conns : conn[c].pcb = "open" ~> conn[c].pcb # "open"
===============================================================================
