----------------------------- MODULE HttpServer -----------------------------
(***************************************************************************)
(* The bounded HTTP service (server.py): the thread that accepts, the      *)
(* semaphore of its capacity, and the worker threads, each of which serves *)
(* one connection, request after request, with JSON or as server-sent      *)
(* events.  Clients may stay silent, send half a request, read too slowly  *)
(* for the socket timeout or go away.  A write that times out may or may   *)
(* not have reached the client, and is an exception like any other: where  *)
(* it is caught decides what else is written.  BaseHTTPRequestHandler and  *)
(* socketserver are modelled from how server.py uses them.                 *)
(***************************************************************************)
EXTENDS Integers, Sequences, FiniteSets

CONSTANTS
    Conns,      \* connections clients may open, each as often as they like
    Capacity,   \* max_concurrency
    MaxChunks,  \* bound on the chunks of a stream, standing for max_stream_bytes
    MaxFaults,  \* bound on writes that time out and threads that do not start
    NoConn      \* "the accepting thread is waiting for a connection"

ASSUME CapacityAssumption == Capacity \in Nat \ {0}
ASSUME ChunksAssumption   == MaxChunks \in Nat \ {0}
ASSUME FaultsAssumption   == MaxFaults \in Nat
ASSUME NoConnAssumption   == NoConn \notin Conns

VARIABLES
    permits,    \* what the semaphore has left
    acceptor,   \* the connection the accepting thread is busy with, or NoConn
    pc,         \* [Conns -> Places]
    handler,    \* [Conns -> Handlers]  the state of its FacetRouteHandler
    wire,       \* [Conns -> Seq(Items)]  what was sent since the last request
    gone,       \* [Conns -> BOOLEAN]  has the client closed its end?
    slow,       \* [Conns -> BOOLEAN]  has a write to it timed out?
    faults

vars == <<permits, acceptor, pc, handler, wire, gone, slow, faults>>

(* Places whose exceptions the try statement of do_POST catches, and those *)
(* of which only handle_one_request and the worker thread hear.            *)
Guarded == {"reading", "deciding", "completing", "delivering", "opening",
            "emitting", "pulling", "ending", "failing", "finishing"}
Bare    == {"ready", "answering", "replying", "closing"}
Working == Guarded \cup Bare \cup {"releasing"}
Places  == Working \cup {"away", "queued", "starting", "rejecting"}

Items == {"head", "body", "data", "done", "error", "end"}

(* A POST is unsized when its Content-Length is decimal, but has more      *)
(* digits than int() takes.                                                *)
Requests == {"get", "post", "unsized"}

(* request: the last one.  unread: is there a body of it nobody has read?  *)
(* heads: status lines in _headers_buffer.  raising: is a TimeoutError on  *)
(* its way through the finally clause of _sse_response?                    *)
Handlers == [request : Requests, unread : BOOLEAN, close_connection : BOOLEAN,
             heads : 0 .. 2, chunks : 0 .. MaxChunks, failed : BOOLEAN, raising : BOOLEAN]

NewHandler == [request |-> "get", unread |-> FALSE, close_connection |-> FALSE,
               heads |-> 0, chunks |-> 0, failed |-> FALSE, raising |-> FALSE]

Init ==
    /\ permits = Capacity
    /\ acceptor = NoConn
    /\ pc = [k \in Conns |-> "away"]
    /\ handler = [k \in Conns |-> NewHandler]
    /\ wire = [k \in Conns |-> <<>>]
    /\ gone = [k \in Conns |-> FALSE]
    /\ slow = [k \in Conns |-> FALSE]
    /\ faults = 0

At(k, place)   == pc[k] = place
GoTo(k, place) == pc' = [pc EXCEPT ![k] = place]
Fault          == faults < MaxFaults /\ faults' = faults + 1

serverVars == <<permits, acceptor>>
clientVars == <<gone, slow, faults>>

(* The socket is closed, and the client may connect again.                 *)
Forget(k) ==
    /\ handler' = [handler EXCEPT ![k] = NewHandler]
    /\ wire' = [wire EXCEPT ![k] = <<>>]
    /\ gone' = [gone EXCEPT ![k] = FALSE]
    /\ slow' = [slow EXCEPT ![k] = FALSE]
-----------------------------------------------------------------------------
(* Clients.                                                                *)
Connect(k) ==
    /\ At(k, "away")
    /\ GoTo(k, "queued")
    /\ UNCHANGED <<serverVars, handler, wire, clientVars>>

Disconnect(k) ==
    /\ pc[k] \notin {"away", "releasing"}
    /\ ~gone[k]
    /\ gone' = [gone EXCEPT ![k] = TRUE]
    /\ UNCHANGED <<serverVars, pc, handler, wire, slow, faults>>
-----------------------------------------------------------------------------
(* The accepting thread: process_request and _BusyHandler.                 *)
Accept(k) ==
    /\ acceptor = NoConn
    /\ At(k, "queued")
    /\ permits > 0
    /\ acceptor' = k
    /\ permits' = permits - 1
    /\ GoTo(k, "starting")
    /\ UNCHANGED <<handler, wire, clientVars>>

StartThread(k) ==
    /\ At(k, "starting")
    /\ acceptor' = NoConn
    /\ GoTo(k, "ready")
    /\ UNCHANGED <<permits, handler, wire, clientVars>>

\* Faulty: the permit of a thread that could not be started is kept.
StartFailsKeepingPermit(k) ==
    /\ At(k, "starting")
    /\ Fault
    /\ acceptor' = NoConn
    /\ GoTo(k, "away")
    /\ Forget(k)
    /\ UNCHANGED permits

(* The permit goes back, and socketserver shuts the connection.            *)
StartFails(k) ==
    /\ At(k, "starting")
    /\ Fault
    /\ acceptor' = NoConn
    /\ permits' = permits + 1
    /\ GoTo(k, "away")
    /\ Forget(k)

(* No permit: the accepting thread itself reads the request.               *)
AcceptBusy(k) ==
    /\ acceptor = NoConn
    /\ At(k, "queued")
    /\ permits = 0
    /\ acceptor' = k
    /\ GoTo(k, "rejecting")
    /\ UNCHANGED <<permits, handler, wire, clientVars>>

Rejected(k) ==
    /\ At(k, "rejecting")
    /\ acceptor' = NoConn
    /\ GoTo(k, "away")
    /\ Forget(k)
    /\ UNCHANGED <<permits, faults>>

(* The request came and is answered with 503, as far as the client listens.*)
RejectRequest(k) == ~gone[k] /\ Rejected(k)

\* Faulty: nothing but the client ends the wait for its request.
RejectPatiently(k) == gone[k] /\ Rejected(k)

(* The client went away, or sent nothing for request_timeout_seconds.      *)
RejectSilence(k) == Rejected(k)
-----------------------------------------------------------------------------
(* Requests.                                                               *)
Request(k, kind, place, body, last) ==
    /\ At(k, "ready")
    /\ GoTo(k, place)
    /\ handler' = [handler EXCEPT ![k] =
           [NewHandler EXCEPT !.request = kind, !.unread = body, !.close_connection = last]]
    /\ wire' = [wire EXCEPT ![k] = <<>>]
    /\ UNCHANGED <<serverVars, clientVars>>

(* do_GET: whatever the path, one JSON answer.  A body is not looked for.  *)
Get(k) == \E body, last \in BOOLEAN : Request(k, "get", "answering", body, last)

\* Faulty: a refused POST leaves the connection open.
RefuseKeepingOpen(k) ==
    \E kind \in {"post", "unsized"}, last \in BOOLEAN : Request(k, kind, "answering", TRUE, last)

(* A POST that is refused before its body is read.  For an unknown path,   *)
(* missing authorization and headers _read_payload does not accept, this   *)
(* ends the connection; the ValueError of int() is one like any other.     *)
RefusePost(k) ==
    \/ Request(k, "post", "answering", TRUE, TRUE)
    \/ \E last \in BOOLEAN : Request(k, "unsized", "answering", TRUE, last)

Post(k) == \E last \in BOOLEAN : Request(k, "post", "reading", TRUE, last)

(* The client ends the connection between two requests, or says nothing    *)
(* for request_timeout_seconds.                                            *)
StopWaiting(k) ==
    /\ At(k, "ready")
    /\ GoTo(k, "closing")
    /\ UNCHANGED <<serverVars, handler, wire, clientVars>>

Set(k, field, value) == handler' = [handler EXCEPT ![k][field] = value]

(* The whole body was read, and is a JSON object or is not one.            *)
ReadBody(k) ==
    /\ At(k, "reading")
    /\ Set(k, "unread", FALSE)
    /\ \E place \in {"deciding", "answering"} : GoTo(k, place)
    /\ UNCHANGED <<serverVars, wire, clientVars>>

\* Faulty: the rest of a body is waited for as long as the client is there.
ReadPatiently(k) ==
    /\ At(k, "reading")
    /\ gone[k]
    /\ Set(k, "close_connection", TRUE)
    /\ GoTo(k, "answering")
    /\ UNCHANGED <<serverVars, wire, clientVars>>

(* The body ends early, or its rest does not come in time; a connection    *)
(* that was reset is answered with 500, which nobody will read.            *)
ReadHalf(k) ==
    /\ At(k, "reading")
    /\ \/ Set(k, "close_connection", TRUE)
       \/ gone[k] /\ UNCHANGED handler
    /\ GoTo(k, "answering")
    /\ UNCHANGED <<serverVars, wire, clientVars>>

Answer(k) ==
    /\ At(k, "deciding")
    /\ GoTo(k, "answering")
    /\ UNCHANGED <<serverVars, handler, wire, clientVars>>

(* The object is no request, or the router or the provider fails.          *)
Misfit(k) == Answer(k)

(* The decision of /v1/route is answered with JSON outside the try; a      *)
(* completion inside it; a stream is opened by its first chunk.            *)
Decide(k) ==
    \/ Answer(k)
    \/ /\ At(k, "deciding")
       /\ \/ GoTo(k, "completing") /\ UNCHANGED handler
          \/ GoTo(k, "opening") /\ Set(k, "chunks", 1)
       /\ UNCHANGED <<serverVars, wire, clientVars>>
-----------------------------------------------------------------------------
(* Writing.  What a write sends, and where its handler goes on.            *)
Writes == {"answering", "replying", "completing", "delivering", "opening",
           "emitting", "ending", "failing", "finishing"}
Heads  == {"answering", "completing", "opening"}

(* end_headers sends all status lines that are in the buffer.              *)
HeadItems(k) == [i \in 1 .. handler[k].heads + 1 |-> "head"]

Written(k) ==
    CASE pc[k] \in Heads                       -> HeadItems(k)
      [] pc[k] \in {"replying", "delivering"}  -> <<"body">>
      [] pc[k] = "emitting"                    -> <<"data">>
      [] pc[k] = "ending"                      -> <<"done">>
      [] pc[k] = "failing"                     -> <<"error">>
      [] pc[k] = "finishing"                   -> <<"end">>

(* The handler of this request returns.                                    *)
Return(k, close) == IF close THEN "closing" ELSE "ready"

Closes(k) == handler[k].close_connection \/ handler[k].failed

(* do_POST catches a TimeoutError and answers with 408; outside its try,   *)
(* handle_one_request ends the connection.                                 *)
RaiseTimeout(k) ==
    IF pc[k] \in Guarded
    THEN /\ GoTo(k, "answering")
         /\ handler' = [handler EXCEPT ![k].close_connection = TRUE,
                                       ![k].heads = IF pc[k] \in Heads THEN @ + 1 ELSE @]
    ELSE GoTo(k, "closing") /\ UNCHANGED handler

(* After a write that succeeds.                                            *)
Follow(k) ==
    IF At(k, "finishing") /\ handler[k].raising
    THEN RaiseTimeout(k)
    ELSE /\ GoTo(k, CASE pc[k] = "answering"  -> "replying"
                      [] pc[k] = "completing" -> "delivering"
                      [] pc[k] = "opening"    -> "emitting"
                      [] pc[k] = "emitting"   -> "pulling"
                      [] pc[k] \in {"ending", "failing"} -> "finishing"
                      [] pc[k] \in {"replying", "delivering"} ->
                             Return(k, handler[k].close_connection)
                      [] pc[k] = "finishing"  -> Return(k, Closes(k)))
         /\ handler' = IF pc[k] \in Heads THEN [handler EXCEPT ![k].heads = 0] ELSE handler

Send(k) == wire' = [wire EXCEPT ![k] = @ \o Written(k)]

WriteDone(k) ==
    /\ pc[k] \in Writes
    /\ ~gone[k]
    /\ Send(k)
    /\ Follow(k)
    /\ UNCHANGED <<serverVars, clientVars>>

(* The client does not take it in time.  A chunk or [DONE] becomes an      *)
(* error event; a timeout of that or of the end is raised.                 *)
WriteTimesOut(k) ==
    /\ pc[k] \in Writes
    /\ ~gone[k]
    /\ Fault
    /\ slow' = [slow EXCEPT ![k] = TRUE]
    /\ Send(k) \/ UNCHANGED wire
    /\ CASE pc[k] \in {"emitting", "ending"} -> GoTo(k, "failing") /\ Set(k, "failed", TRUE)
         [] pc[k] = "failing"                -> GoTo(k, "finishing") /\ Set(k, "raising", TRUE)
         [] OTHER                            -> RaiseTimeout(k)
    /\ UNCHANGED <<serverVars, gone>>

(* The client is gone: BrokenPipeError or ConnectionResetError, which      *)
(* _sse_response swallows and do_POST tries to answer with 500.            *)
WriteBreaks(k) ==
    /\ pc[k] \in Writes
    /\ gone[k]
    /\ CASE pc[k] \in {"emitting", "ending"} -> GoTo(k, "finishing") /\ Set(k, "failed", TRUE)
         [] pc[k] \in {"failing", "finishing"} -> Follow(k)
         [] pc[k] \in {"completing", "delivering", "opening"} ->
                GoTo(k, "answering") /\ UNCHANGED handler
         [] pc[k] \in {"answering", "replying"} -> GoTo(k, "closing") /\ UNCHANGED handler
    /\ UNCHANGED <<serverVars, wire, clientVars>>

\* Faulty: a provider error in a stream is left to do_POST.
PullRaising(k) ==
    /\ At(k, "pulling")
    /\ \/ /\ handler[k].chunks < MaxChunks
          /\ GoTo(k, "emitting")
          /\ Set(k, "chunks", handler[k].chunks + 1)
       \/ GoTo(k, "ending") /\ UNCHANGED handler
       \/ GoTo(k, "answering") /\ UNCHANGED handler
    /\ UNCHANGED <<serverVars, wire, clientVars>>

(* The next chunk, the end of the stream, or an error of the provider.     *)
Pull(k) ==
    /\ At(k, "pulling")
    /\ \/ /\ handler[k].chunks < MaxChunks
          /\ GoTo(k, "emitting")
          /\ Set(k, "chunks", handler[k].chunks + 1)
       \/ GoTo(k, "ending") /\ UNCHANGED handler
       \/ GoTo(k, "failing") /\ Set(k, "failed", TRUE)
    /\ UNCHANGED <<serverVars, wire, clientVars>>
-----------------------------------------------------------------------------
(* The worker shuts its connection and, after that, returns its permit.    *)
Shut(k) ==
    /\ At(k, "closing")
    /\ GoTo(k, "releasing")
    /\ Forget(k)
    /\ UNCHANGED <<serverVars, faults>>

Release(k) ==
    /\ At(k, "releasing")
    /\ permits' = permits + 1
    /\ GoTo(k, "away")
    /\ UNCHANGED <<acceptor, handler, wire, clientVars>>

(* What happens without a client doing anything.                           *)
Serve(k) ==
    \/ StartThread(k) \/ StartFails(k)
    \/ RejectSilence(k) \/ StopWaiting(k)
    \/ ReadHalf(k) \/ Misfit(k) \/ Decide(k)
    \/ WriteDone(k) \/ WriteTimesOut(k) \/ WriteBreaks(k) \/ Pull(k)
    \/ Shut(k) \/ Release(k)

Next ==
    \E k \in Conns :
        \/ Connect(k) \/ Disconnect(k)
        \/ Accept(k) \/ AcceptBusy(k) \/ RejectRequest(k)
        \/ Get(k) \/ RefusePost(k) \/ Post(k) \/ ReadBody(k)
        \/ Serve(k)

Spec == Init /\ [][Next]_vars

(* Threads are scheduled, reads and writes end or time out, routers and    *)
(* providers return.  The backlog is a queue, so nobody in it is passed    *)
(* over for ever.  Clients need not send anything.                         *)
Fairness ==
    \A k \in Conns : WF_vars(Serve(k)) /\ SF_vars(Accept(k) \/ AcceptBusy(k))

FairSpec == Spec /\ Fairness
-----------------------------------------------------------------------------
(* Every variable has its shape.                                           *)
TypeOK ==
    /\ permits \in 0 .. Capacity
    /\ acceptor \in Conns \cup {NoConn}
    /\ pc \in [Conns -> Places]
    /\ handler \in [Conns -> Handlers]
    /\ wire \in [Conns -> Seq(Items)]
    /\ gone \in [Conns -> BOOLEAN]
    /\ slow \in [Conns -> BOOLEAN]
    /\ faults \in 0 .. MaxFaults

(* No permit is lost or returned twice, whichever thread fails where: the  *)
(* semaphore and the connections being served add up to the capacity.      *)
CapacityConserved ==
    permits + Cardinality({k \in Conns : pc[k] \in Working \cup {"starting"}}) = Capacity

Count(k, item) == Cardinality({i \in DOMAIN wire[k] : wire[k][i] = item})

Complete(s) ==
    \/ s = <<>>
    \/ s = <<"head", "body">>
    \/ \E n \in 1 .. MaxChunks :
          s = <<"head">> \o [i \in 1 .. n |-> "data"] \o <<"done", "end">>

(* A connection is used for another request only when the answer to the    *)
(* last one was sent in full, to the last byte, or nobody is left to take  *)
(* it; and, after a POST whose length the server could read, only when its *)
(* body was read, be it refused, half sent or cut off by a time limit: the *)
(* rest would be taken for the beginning of a request.                     *)
ReusedClean ==
    \A k \in Conns :
        At(k, "ready") =>
            /\ handler[k].request = "post" => ~handler[k].unread
            /\ gone[k] \/ Complete(wire[k])

(* server.py:331: reusing a connection whose body was not consumed "would  *)
(* interpret those bytes as a new request".  That no connection is reused  *)
(* with a body on it does not hold: see Get and RefusePost.                *)
NothingLeftUnread == \A k \in Conns : At(k, "ready") => ~handler[k].unread

(* docs/http-api.md: an answer has one status line; a stream that fails    *)
(* sends one error object, no [DONE], and nothing after it but the end of  *)
(* the chunked body.  That is so unless a write has timed out.             *)
Framed(s) ==
    \/ \E t \in {<<>>, <<"body">>} : s = <<"head">> \o t
    \/ \E n \in 1 .. MaxChunks, t \in {<<>>, <<"done">>, <<"done", "end">>,
                                        <<"error">>, <<"error", "end">>} :
          s = <<"head">> \o [i \in 1 .. n |-> "data"] \o t

WellFramed == \A k \in Conns : ~slow[k] /\ wire[k] # <<>> => Framed(wire[k])

(* docs/http-api.md: what fails in the middle of a stream is told inside   *)
(* it, because status and headers have already been sent: no answer gets   *)
(* a second status line.                                                   *)
OneStatusLine == \A k \in Conns : Count(k, "head") <= 1

(* The accepting thread always comes back, though it talks to the clients  *)
(* it has no capacity for: whoever connects is served or turned away.      *)
NobodyWaitsForever == \A k \in Conns : At(k, "queued") ~> ~At(k, "queued")

(* Every request that was taken is answered, or its connection closed.     *)
RequestsEnd ==
    \A k \in Conns : pc[k] \in Guarded \cup {"answering"} ~> pc[k] \in {"ready", "releasing", "away"}
=============================================================================
