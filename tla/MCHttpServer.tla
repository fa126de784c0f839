----------------------------- MODULE MCHttpServer -----------------------------
(***************************************************************************)
(* HttpServer on small instances: requests around the size of the buffer.  *)
(***************************************************************************)
EXTENDS HttpServer

Request(h, l, s) == [header |-> h, length |-> l, sends |-> s]

\* With 5 usable bytes: no body; a body that fits exactly; one byte too many; a negative
\* length; a header that never ends; a peer that sends on after its request.
AllSizes ==
    {Request(2, 0, 2), Request(2, 3, 5), Request(2, 4, 6), Request(2, -1, 3),
     Request(9, 0, 7), Request(2, 1, 5)}
===============================================================================
