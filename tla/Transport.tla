------------------------------ MODULE Transport ------------------------------
(***************************************************************************)
(* One exchange with an OpenAI-compatible upstream: the synchronous        *)
(* OpenAICompatibleProvider (providers.py) and the asynchronous            *)
(* AsyncOpenAICompatibleProvider (async_http.py), completions and event    *)
(* streams, from the configured binding to the last byte.                  *)
(*                                                                         *)
(* Bytes are counted, not spelled out: an answer is a sequence of lines,   *)
(* each with a kind and the number of bytes up to its end, its newline     *)
(* included; the upstream lets any number of bytes through at a time.  The synchronous transport   *)
(* reads line by line with a timeout for each wait; the asynchronous one   *)
(* is fed arbitrary segments and has one deadline for everything.          *)
(***************************************************************************)
EXTENDS Integers, FiniteSets, Sequences, SequencesExt

CONSTANTS
    RawBindings,  \* provider configurations offered to load_provider_registry
    Wires,        \* answers: sequences of lines [kind, ends, piece]
    Statuses,     \* HTTP statuses of the upstream
    Requests,     \* subset of {"good", "oversize", "invalid"}
    MaxBindings,  \* _MAX_PROVIDER_BINDINGS
    MaxResponse, MaxStream, MaxEvent,   \* byte limits
    Timeout,      \* timeout_seconds, in ticks
    None

ASSUME TransportAssumption == {MaxBindings, MaxResponse, MaxStream, MaxEvent, Timeout} \subseteq Nat \ {0}

\* No line is empty: each has its newline.
WiresAssumption ==
    \A wire \in Wires : /\ wire \in Seq([kind : STRING, ends : Nat \ {0}, piece : STRING \cup {None}])
                        /\ \A i, j \in DOMAIN wire : i < j => wire[i].ends < wire[j].ends
ASSUME AnswerAssumption == WiresAssumption

VARIABLES
    call,       \* what is asked of whom, and what the upstream will answer
    net,        \* the connection: its state, whether request bytes left, bytes arrived, the end
    dec,        \* the decoder: bytes fed, lines taken, data_lines, bytes of the current event
    time,       \* left of the timeout in force, and spent since the exchange began
    pc,
    delivered,  \* chunks the consumer received
    result      \* how the call ended, or None

vars == <<call, net, dec, time, pc, delivered, result>>

Async == call.transport = "async"
Streaming == call.mode = "stream"

-----------------------------------------------------------------------------
(* Configuration *)

\* _validate_base_url
LegalUrl(url, insecure) ==
    /\ url.scheme \in {"http", "https"}
    /\ ~url.extras
    /\ url.port \in 1..65535 \cup {None}
    /\ url.path = "v1"
    /\ url.scheme = "http" => insecure \/ url.loopback

\* load_provider_registry and the constructors it calls; a named key must be in the environment.
LegalRegistry(bindings, insecure, environment) ==
    /\ bindings # <<>> /\ Len(bindings) <= MaxBindings
    /\ \A i \in DOMAIN bindings : /\ LegalUrl(bindings[i].url, insecure)
                                  /\ bindings[i].key \in environment \cup {None}
    /\ \A i, j \in DOMAIN bindings : bindings[i].model = bindings[j].model => i = j

Configured(model) == \E i \in DOMAIN call.bindings : call.bindings[i].model = model

Init ==
    /\ \E b \in RawBindings, insecure \in BOOLEAN, t \in {"sync", "async"}, m \in {"complete", "stream"},
          q \in Requests, s \in Statuses, w \in Wires, ct \in BOOLEAN, model \in {"a", "b"} :
          /\ LegalRegistry(b, insecure, {"KEY"})
          /\ call = [bindings |-> b, transport |-> t, mode |-> m, model |-> model, request |-> q,
                     status |-> s, typeFits |-> ct, wire |-> w]
    /\ net = [conn |-> "none", sent |-> FALSE, arrived |-> 0, end |-> "open"]
    /\ dec = [fed |-> 0, lines |-> 0, data |-> <<>>, bytes |-> 0]
    /\ time = [left |-> Timeout, spent |-> 0]
    /\ pc = "start" /\ delivered = <<>> /\ result = None

-----------------------------------------------------------------------------
(* The end of a call: the finally clauses close the connection. *)

Ends(outcome, safe) ==
    /\ pc' = "done"
    /\ result' = [outcome |-> outcome, safe |-> safe]
    /\ net' = [net EXCEPT !.conn = IF @ = "none" THEN @ ELSE "closed"]

Fails(failure) == Ends(failure, FALSE) /\ UNCHANGED <<call, dec, time, delivered>>

\* Of the synchronous transport every wait starts the timeout anew.
Waiting == time' = IF Async THEN time ELSE [time EXCEPT !.left = Timeout]

-----------------------------------------------------------------------------
(* The request *)

BadRequest == call.request = "invalid" \/ (Async /\ call.request = "oversize")

Dial ==
    IF BadRequest
    THEN Fails("ConfigurationError")
    ELSE /\ pc' = "connect"
         /\ net' = [net EXCEPT !.conn = "connecting"]
         /\ time' = [left |-> Timeout, spent |-> 0]
         /\ UNCHANGED <<call, dec, delivered, result>>

\* The asynchronous stream is a generator: nothing happens before the first pull.
Begin ==
    /\ pc = "start"
    /\ \/ ~Configured(call.model) /\ Fails("NOT_CONFIGURED")
       \/ Configured(call.model) /\ ~(Async /\ Streaming) /\ Dial
       \/ /\ Configured(call.model) /\ Async /\ Streaming
          /\ pc' = "idle"
          /\ UNCHANGED <<call, net, dec, time, delivered, result>>

Connected ==
    /\ pc = "connect"
    /\ pc' = "exchange"
    /\ net' = [net EXCEPT !.conn = "open", !.sent = TRUE]
    /\ Waiting
    /\ UNCHANGED <<call, dec, delivered, result>>

\* Refused or timed out before the request was handed over.
ConnectFails ==
    /\ pc = "connect"
    /\ \/ Ends("UNAVAILABLE", TRUE)
       \/ time.left = 0 /\ Ends("TIMEOUT", TRUE)
       \* asyncio.timeout_at covers connecting too, and certifies nothing.
       \/ Async /\ time.left = 0 /\ Ends("TIMEOUT", FALSE)
    /\ UNCHANGED <<call, dec, time, delivered>>

\* Faulty: whatever happens before the response may be retried.
ExchangeFailsSafely ==
    /\ pc = "exchange"
    /\ \/ Ends("UNAVAILABLE", TRUE)
       \/ time.left = 0 /\ Ends("TIMEOUT", TRUE)
    /\ UNCHANGED <<call, dec, time, delivered>>
ExchangeFails ==
    /\ pc = "exchange"
    /\ \/ Ends("UNAVAILABLE", FALSE)
       \/ Async /\ Ends("FAILED", FALSE)
       \/ time.left = 0 /\ Ends("TIMEOUT", FALSE)
    /\ UNCHANGED <<call, dec, time, delivered>>

StatusFailure(status) ==
    CASE status = 429 -> "RATE_LIMITED"
      [] status \in {408, 504} -> "TIMEOUT"
      [] status >= 500 /\ status # 504 -> "UNAVAILABLE"
      [] OTHER -> "REJECTED"

ResponseHead ==
    /\ pc = "exchange"
    /\ Async => time.left > 0
    /\ \/ call.status # 200 /\ Fails(StatusFailure(call.status))
       \/ call.status = 200 /\ ~call.typeFits /\ Fails("MALFORMED")
       \/ /\ call.status = 200 /\ call.typeFits
          \* stream() of the synchronous transport returns a generator now.
          /\ pc' = IF Streaming /\ ~Async THEN "idle" ELSE "read"
          /\ Waiting
          /\ UNCHANGED <<call, net, dec, delivered, result>>

-----------------------------------------------------------------------------
(* The upstream's bytes *)

EndOf(i) == IF i = 0 THEN 0 ELSE call.wire[i].ends
WireSize == EndOf(Len(call.wire))
Taken == EndOf(dec.lines)

Arrive ==
    /\ net.conn = "open" /\ pc # "exchange" /\ net.end = "open"
    /\ \E n \in (net.arrived + 1)..WireSize : net' = [net EXCEPT !.arrived = n]
    /\ UNCHANGED <<call, dec, time, pc, delivered, result>>

\* The answer is over, early or not, or the connection breaks.
Stop ==
    /\ net.conn = "open" /\ pc # "exchange" /\ net.end = "open"
    /\ \E end \in {"closed", "reset"} : net' = [net EXCEPT !.end = end]
    /\ UNCHANGED <<call, dec, time, pc, delivered, result>>

\* Faulty: reading has no timeout.
ReadFailsUntimed ==
    /\ pc = "read"
    /\ \/ net.end = "reset" /\ Fails("FAILED")
       \/ net.end = "reset" /\ Async /\ Fails("UNAVAILABLE")
\* A wait that outlasts the timeout, or meets a broken connection.
ReadFails ==
    /\ pc = "read"
    /\ \/ time.left = 0 /\ Fails("TIMEOUT")
       \/ net.end = "reset" /\ Fails("FAILED")
       \/ net.end = "reset" /\ Async /\ Fails("UNAVAILABLE")

-----------------------------------------------------------------------------
(* A completion: the whole body, at most one byte beyond the limit *)

ValidCompletion == Len(call.wire) = 1 /\ call.wire[1].kind = "completion" /\ net.arrived = WireSize

Body ==
    /\ pc = "read" /\ ~Streaming
    /\ \/ net.arrived > MaxResponse /\ Fails("MALFORMED")
       \/ net.arrived <= MaxResponse /\ net.end = "closed" /\ ~ValidCompletion /\ Fails("MALFORMED")
       \/ /\ net.arrived <= MaxResponse /\ net.end = "closed" /\ ValidCompletion
          /\ Async => time.left > 0
          /\ delivered' = <<call.wire[1].piece>>
          /\ Ends("ok", FALSE)
          /\ UNCHANGED <<call, dec, time>>

-----------------------------------------------------------------------------
(* Events: what both decoders do with a line of so many bytes *)

Parsed(data) ==
    CASE data = <<"[DONE]">> -> "done"
      [] data \in {<<"c1">>, <<"c2">>, <<"c", "3">>} -> "chunk"
      [] OTHER -> "malformed"

TooLong(size) == size > MaxEvent \/ dec.bytes + size > MaxEvent

Meaning(line, size) ==
    CASE TooLong(size) -> "malformed"
      [] ~TooLong(size) /\ line.kind \in {"comment", "data"} -> "continue"
      [] ~TooLong(size) /\ line.kind = "blank" -> IF dec.data = <<>> THEN "continue" ELSE Parsed(dec.data)
      [] OTHER -> "malformed"

\* Faulty: the data lines of an event are kept for the next one.
AfterKeepingData(line, size) ==
    [dec EXCEPT !.lines = @ + 1,
                !.data = IF line.kind = "data" THEN Append(@, line.piece) ELSE @,
                !.bytes = IF line.kind = "blank" THEN 0 ELSE @ + size]
After(line, size) ==
    [dec EXCEPT !.lines = @ + 1,
                !.data = CASE line.kind = "data" -> Append(@, line.piece)
                           [] line.kind = "blank" -> <<>>
                           [] OTHER -> @,
                !.bytes = IF line.kind = "blank" THEN 0 ELSE @ + size]

\* Takes one line: raises, ends the stream, yields a chunk, or goes on at next.
Take(line, size, next) ==
    CASE Meaning(line, size) = "malformed" -> Fails("MALFORMED")
      [] Meaning(line, size) = "done" ->
            Ends("ok", FALSE) /\ dec' = After(line, size) /\ UNCHANGED <<call, time, delivered>>
      [] Meaning(line, size) = "chunk" ->
            /\ delivered' = Append(delivered, dec.data)
            /\ dec' = After(line, size)
            /\ pc' = "paused"
            /\ UNCHANGED <<call, net, time, result>>
      [] OTHER -> /\ dec' = After(line, size) /\ pc' = next /\ Waiting
                  /\ UNCHANGED <<call, net, delivered, result>>

NextLine == call.wire[dec.lines + 1]
NextSize == NextLine.ends - Taken
HasLine(bytes) == dec.lines < Len(call.wire) /\ bytes >= NextLine.ends
Pending(bytes) == bytes - Taken

\* response.readline(max_event_bytes + 1) returns: a line, too much of one, or what came before the end.
ReadLine ==
    LET got == Pending(net.arrived)
    IN /\ pc = "read" /\ Streaming /\ ~Async
       /\ \/ /\ HasLine(net.arrived) /\ NextSize <= MaxEvent
             /\ IF NextLine.ends > MaxStream
                THEN Fails("MALFORMED")
                ELSE Take(NextLine, NextSize, "read")
          \/ got > MaxEvent /\ ~(HasLine(net.arrived) /\ NextSize <= MaxEvent) /\ Fails("MALFORMED")
          \* An unfinished line ends the same way, unless it is the \r of a \r\n.
          \/ /\ net.end = "closed" /\ ~HasLine(net.arrived) /\ got <= MaxEvent
             /\ IF got = 1 /\ NextLine.kind = "blank" /\ Taken + 1 <= MaxStream
                THEN Take(NextLine, 1, "read")
                ELSE Fails("MALFORMED")

\* anext(raw_chunks) returns any segment of what arrived; feed counts it.
Feed ==
    /\ pc = "read" /\ Streaming /\ Async /\ time.left > 0
    /\ \/ \E n \in (dec.fed + 1)..net.arrived :
             IF n > MaxStream
             THEN Fails("MALFORMED")
             ELSE /\ dec' = [dec EXCEPT !.fed = n]
                  /\ pc' = "decode"
                  /\ UNCHANGED <<call, net, time, delivered, result>>
       \/ net.end = "closed" /\ dec.fed = net.arrived /\ Fails("MALFORMED")

\* feed's loop.  The deadline is checked before a chunk is yielded and before the end.
Decode ==
    /\ pc = "decode"
    /\ \/ /\ HasLine(dec.fed)
          /\ IF Meaning(NextLine, NextSize) \in {"chunk", "done"} /\ time.left = 0
             THEN Fails("TIMEOUT")
             ELSE Take(NextLine, NextSize, "decode")
       \/ ~HasLine(dec.fed) /\ TooLong(Pending(dec.fed)) /\ Fails("MALFORMED")
       \/ /\ ~HasLine(dec.fed) /\ ~TooLong(Pending(dec.fed))
          /\ pc' = "read"
          /\ UNCHANGED <<call, net, dec, time, delivered, result>>

-----------------------------------------------------------------------------
(* The consumer, and time *)

\* Faulty: each pull of the asynchronous stream has the whole timeout.
PullAnew ==
    \/ pc = "idle" /\ Async /\ Dial
    \/ /\ pc = "paused" \/ (pc = "idle" /\ ~Async)
       /\ pc' = IF Async THEN "decode" ELSE "read"
       /\ time' = [time EXCEPT !.left = Timeout]
       /\ UNCHANGED <<call, net, dec, delivered, result>>
Pull ==
    \/ pc = "idle" /\ Async /\ Dial
    \/ /\ pc = "paused" \/ (pc = "idle" /\ ~Async)
       /\ pc' = IF Async THEN "decode" ELSE "read"
       /\ Waiting
       /\ UNCHANGED <<call, net, dec, delivered, result>>

\* The consumer closes the generator.  One that never started runs no finally clause.
Close ==
    /\ pc \in {"idle", "paused"}
    /\ pc' = "done"
    /\ result' = [outcome |-> "closed", safe |-> FALSE]
    /\ net' = IF pc = "paused" THEN [net EXCEPT !.conn = "closed"] ELSE net
    /\ UNCHANGED <<call, dec, time, delivered>>

Cancel == Async /\ pc \in {"connect", "exchange", "read"} /\ Fails("cancelled")

Tick ==
    /\ pc \in {"connect", "exchange", "read", "paused", "idle"}
    /\ time.left > 0 \/ time.spent < Timeout
    /\ time' = [left |-> IF time.left > 0 THEN time.left - 1 ELSE 0,
                spent |-> IF time.spent < Timeout THEN time.spent + 1 ELSE Timeout]
    /\ UNCHANGED <<call, net, dec, pc, delivered, result>>

Own == \/ Begin \/ Connected \/ ConnectFails \/ ExchangeFails \/ ResponseHead
       \/ ReadFails \/ Body \/ ReadLine \/ Feed \/ Decode

Next == Own \/ Arrive \/ Stop \/ Pull \/ Close \/ Cancel \/ Tick

\* What the transport can do by itself: it never waits for an upstream past its timeout.
Ready == Own /\ (pc \in {"connect", "exchange"} => time.left = 0)

\* The transport and time go on; the upstream and the consumer owe nothing.
Spec == Init /\ [][Next]_vars /\ WF_vars(Ready) /\ WF_vars(Tick)

-----------------------------------------------------------------------------
(* Properties *)

\* The members of a finite set of numbers, by size: the k-th has k members up to itself.
InOrder(S) == [k \in 1..Cardinality(S) |->
                 CHOOSE x \in {y \in S : Cardinality({z \in S : z <= y}) = k} : TRUE]

\* The events of an answer, by their blank lines rather than by a decoder's memory.
Blanks == {i \in DOMAIN call.wire : call.wire[i].kind = "blank"}
Opens(i) == Max({0} \cup {j \in Blanks : j < i})
DataOf(i) == {j \in DOMAIN call.wire : call.wire[j].kind = "data" /\ Opens(i) < j /\ j < i}
Event(i) == LET line == InOrder(DataOf(i)) IN [k \in DOMAIN line |-> call.wire[line[k]].piece]
\* The synchronous reader takes a line that ends in \r for whole, when nothing follows.
Counted(i) == IF i \in Blanks /\ ~Async THEN EndOf(i - 1) + 1 ELSE EndOf(i)
Breaks(i) ==
    \/ call.wire[i].kind \notin {"data", "comment", "blank"}
    \/ Counted(i) - EndOf(Opens(i)) > MaxEvent
    \/ Counted(i) > MaxStream
    \/ i \in Blanks /\ LET event == Event(i) IN event # <<>> /\ Parsed(event) = "malformed"
Finishes(i) == i \in Blanks /\ Event(i) = <<"[DONE]">>
LastLine == Min({Len(call.wire) + 1} \cup {i \in DOMAIN call.wire : Breaks(i) \/ Finishes(i)})
Chunks == LET last == LastLine IN {i \in Blanks : i < last /\ Event(i) # <<>>}
StreamOf == LET blank == InOrder(Chunks) IN [k \in DOMAIN blank |-> Event(blank[k])]

\* However the bytes are cut and delayed, a consumer receives the events of the answer in
\* order, and a stream ends well only with all of them, at [DONE] and within every limit
\* (providers.py 324-366, async_http.py 45-82).
DeliveredIsTheStream ==
    Streaming => /\ IsPrefix(delivered, StreamOf)
                 /\ result # None /\ result.outcome = "ok" =>
                       delivered = StreamOf /\ LastLine <= Len(call.wire) /\ Finishes(LastLine)

\* An error is certified as safe to retry only if no byte of the request was handed over
\* (providers.py 408-410, async_http.py 208-220).
RetrySafeIsUnsent == result # None /\ result.safe => ~net.sent

\* The timeout of an asynchronous call is one deadline for all of it, the consumer's pauses
\* included: nothing is delivered after it (async_http.py 261-290).
NothingAfterDeadline ==
    [][Async /\ delivered' # delivered => time.spent < Timeout]_vars

\* A silent upstream keeps nobody waiting: whoever waits gets a chunk, an end or a timeout.
WaitsEnd == pc \in {"connect", "exchange", "read", "decode"} ~> pc \in {"idle", "paused", "done"}
=============================================================================
