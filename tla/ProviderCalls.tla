---------------------------- MODULE ProviderCalls ----------------------------
(***************************************************************************)
(* The callers of the circuit breaker: complete and stream of              *)
(* ResilientProviderRegistry (resilience.py, worker threads) and of        *)
(* AsyncProviderRegistry (async_client.py, tasks), with the transport      *)
(* underneath reduced to what it can report.  A call enters the breaker,   *)
(* connects, sends its request, waits, settles its admission, and, when    *)
(* the transport certified that nothing was sent, may back off and retry.  *)
(* Another thread or task may run between any two of these steps.          *)
(***************************************************************************)
EXTENDS CircuitBreaker

CONSTANTS
    Flavour,            \* "sync" or "async": which of the two registries
    MaxAttempts,        \* policy.max_attempts
    InitialBackoff,     \* policy.initial_backoff_seconds
    MaxBackoff,         \* policy.max_backoff_seconds
    Timeout,            \* the timeout every call is made with
    ExchangeFailures,   \* how an attempt may fail once its request is sent
    MaxChunks           \* bound on a stream, standing for max_stream_bytes

ASSUME FlavourAssumption  == Flavour \in {"sync", "async"}
(* An exception that the handlers of complete do not expect takes a thread *)
(* past finish; the asynchronous complete has a handler for each.          *)
ASSUME UnwindAssumption   == MayDrop = (Flavour = "sync")
ASSUME ModelsAssumption   == Models # {}
ASSUME AttemptsAssumption == MaxAttempts \in 1 .. 5
ASSUME BackoffAssumption  == InitialBackoff \in Nat /\ MaxBackoff \in Nat
ASSUME TimeoutAssumption  == Timeout \in Nat \ {0}
ASSUME FailuresAssumption == ExchangeFailures \subseteq CountedFailures \cup {"rejected"}
ASSUME ChunksAssumption   == MaxChunks \in Nat

VARIABLES
    pc,         \* [Calls -> Places]
    frame,      \* [Calls -> Frames]  the locals of the call
    sends       \* [Calls -> Nat]  times the call's request left for the provider

callVars == <<pc, frame, sends>>
vars     == <<now, failures, openUntil, probeInFlight, epoch, held, pc, frame, sends>>

Inside == {"connecting", "waiting", "paused", "closing", "settling"}
Places == Inside \cup {"idle", "entering", "deciding", "sleeping"}
Kinds  == {"complete", "stream"}

Frames == [kind : Kinds, model : Models, attempt : Nat \ {0}, deadline : Nat, wakeAt : Nat,
           failure : Outcomes, safe : BOOLEAN, opened : BOOLEAN, chunks : Nat]

RetryFailures == {"timeout", "unavailable", "failed"}

NewFrame(k, m, d) ==
    [kind |-> k, model |-> m, attempt |-> 1, deadline |-> d, wakeAt |-> 0,
     failure |-> "ok", safe |-> FALSE, opened |-> FALSE, chunks |-> 0]

NoFrame == NewFrame("complete", CHOOSE m \in Models : TRUE, 0)

(* 2 ** (attempt - 1), for an attempt that is not the fifth.               *)
Doubling == <<1, 2, 4, 8>>

Delay(c) ==
    LET exponential == InitialBackoff * Doubling[frame[c].attempt]
    IN  IF exponential <= MaxBackoff THEN exponential ELSE MaxBackoff

Init ==
    /\ BreakerInit
    /\ pc = [c \in Calls |-> "idle"]
    /\ frame = [c \in Calls |-> NoFrame]
    /\ sends = [c \in Calls |-> 0]

At(c, place) == pc[c] = place
GoTo(c, place) == pc' = [pc EXCEPT ![c] = place]

(* The call returns or raises, and its locals go with it.                  *)
Leave(c) ==
    /\ GoTo(c, "idle")
    /\ frame' = [frame EXCEPT ![c] = NoFrame]
    /\ sends' = [sends EXCEPT ![c] = 0]
-----------------------------------------------------------------------------
(* A caller arrives; the deadline counts from here, also for a stream that *)
(* is not consumed yet.  Calls that would outlast MaxTime are left out.    *)
Start(c, k, m) ==
    /\ At(c, "idle")
    /\ now + Timeout <= MaxTime
    /\ GoTo(c, "entering")
    /\ frame' = [frame EXCEPT ![c] = NewFrame(k, m, now + Timeout)]
    /\ UNCHANGED <<sends, breakerVars>>

EnterBreaker(c) ==
    /\ At(c, "entering")
    /\ Enter(c, frame[c].model)
    /\ GoTo(c, "connecting")
    /\ UNCHANGED <<frame, sends>>

RefusedEntry(c) ==
    /\ At(c, "entering")
    /\ Refused(frame[c].model)
    /\ Leave(c)
    /\ UNCHANGED breakerVars

Fail(c, failure, safe) ==
    /\ GoTo(c, "settling")
    /\ frame' = [frame EXCEPT ![c].failure = failure, ![c].safe = safe]
    /\ UNCHANGED <<sends, breakerVars>>

(* Only a connection failure is certified as happening before any byte of  *)
(* the request was sent.                                                   *)
ConnectFails(c) ==
    /\ At(c, "connecting")
    /\ \E failure \in {"timeout", "unavailable"} : Fail(c, failure, TRUE)

(* The payload cannot be encoded, or the transport object raises.          *)
PreSendFault(c) ==
    /\ At(c, "connecting")
    /\ Fail(c, "failed", FALSE)

SendRequest(c) ==
    /\ At(c, "connecting")
    /\ GoTo(c, "waiting")
    /\ sends' = [sends EXCEPT ![c] = @ + 1]
    /\ UNCHANGED <<frame, breakerVars>>

(* From the first byte sent, whatever goes wrong is ambiguous.             *)
ExchangeFails(c) ==
    /\ At(c, "waiting")
    /\ \E failure \in ExchangeFailures : Fail(c, failure, FALSE)

Respond(c) ==
    /\ At(c, "waiting")
    /\ frame[c].kind = "complete"
    /\ Fail(c, "ok", FALSE)

(* A chunk is yielded to the consumer, and the generator stands there.     *)
YieldChunk(c) ==
    /\ At(c, "waiting")
    /\ frame[c].kind = "stream"
    /\ frame[c].chunks < MaxChunks
    /\ GoTo(c, "paused")
    /\ frame' = [frame EXCEPT ![c].chunks = @ + 1]
    /\ UNCHANGED <<sends, breakerVars>>

PullChunk(c) ==
    /\ At(c, "paused")
    /\ GoTo(c, "waiting")
    /\ UNCHANGED <<frame, sends, breakerVars>>

StreamEnds(c) ==
    /\ At(c, "waiting")
    /\ frame[c].kind = "stream"
    /\ Fail(c, IF frame[c].chunks = 0 THEN "malformed" ELSE "ok", FALSE)

(* The consumer closes or drops the stream: GeneratorExit, then finally,   *)
(* which first closes the source while others run.                         *)
CloseStream(c) ==
    /\ At(c, "paused")
    /\ GoTo(c, "closing")
    /\ UNCHANGED <<frame, sends, breakerVars>>

\* Faulty: a clean-up that is itself cut short tells the breaker nothing.
CleanUpSilently(c) ==
    /\ At(c, "closing")
    /\ UNCHANGED breakerVars
    /\ Leave(c)

\* Faulty: the admission is let go of without being abandoned.
CleanUpForgetting(c) ==
    /\ At(c, "closing")
    /\ held' = [held EXCEPT ![c] = NoAdmission]
    /\ UNCHANGED <<now, failures, openUntil, probeInFlight, epoch>>
    /\ Leave(c)

(* The source is closed, or its close raised or was cancelled: all the     *)
(* same, the inner finally abandons.                                       *)
CleanUp(c) ==
    /\ At(c, "closing")
    /\ Abandon(c)
    /\ Leave(c)

\* Faulty: complete has no handler for the cancellation.
CancelForgetting(c) ==
    /\ Flavour = "async"
    /\ pc[c] \in {"connecting", "waiting"}
    /\ held' = [held EXCEPT ![c] = NoAdmission]
    /\ UNCHANGED <<now, failures, openUntil, probeInFlight, epoch>>
    /\ Leave(c)

(* An attempt is cut short: stream goes to its finally.                    *)
ToCleanUp(c) ==
    /\ frame[c].kind = "stream"
    /\ GoTo(c, "closing")
    /\ UNCHANGED <<frame, sends, breakerVars>>

(* The task is cancelled; complete abandons in its except clause.  During  *)
(* the backoff there is no admission to give up.                           *)
Cancel(c) ==
    /\ Flavour = "async"
    /\ \/ pc[c] \in {"connecting", "waiting"} /\ ToCleanUp(c)
       \/ pc[c] \in {"connecting", "waiting"} /\ frame[c].kind = "complete" /\ Abandon(c) /\ Leave(c)
       \/ At(c, "sleeping") /\ UNCHANGED breakerVars /\ Leave(c)

(* An exception other than ProviderError unwinds a thread: stream has its  *)
(* finally, complete has none, and what it was admitted for stays so.      *)
Unwind(c) ==
    /\ Flavour = "sync"
    /\ pc[c] \in {"connecting", "waiting"}
    /\ \/ ToCleanUp(c)
       \/ frame[c].kind = "complete" /\ Drop(c) /\ Leave(c)

(* finish, with its verdict kept for the retry decision.                   *)
Settle(c) ==
    /\ At(c, "settling")
    /\ Finish(c, frame[c].failure)
    /\ IF frame[c].failure = "ok"
       THEN Leave(c)
       ELSE /\ GoTo(c, "deciding")
            /\ frame' = [frame EXCEPT ![c].opened = FinishOpened(c, frame[c].failure)]
            /\ UNCHANGED sends

\* Faulty: an attempt that may have been received is retried as well.
RetryAnything(c) ==
    /\ ~frame[c].opened
    /\ frame[c].attempt < MaxAttempts
    /\ frame[c].failure \in RetryFailures
    /\ frame[c].chunks = 0
    /\ frame[c].deadline - now > Delay(c)

\* Faulty: the backoff is not compared with the deadline.
RetryTooLate(c) ==
    /\ ~frame[c].opened
    /\ frame[c].attempt < MaxAttempts
    /\ frame[c].safe
    /\ frame[c].failure \in RetryFailures
    /\ frame[c].chunks = 0

(* The conditions of _next_timeout before it sleeps, and of stream before  *)
(* it asks.                                                                *)
CanRetry(c) ==
    /\ ~frame[c].opened
    /\ frame[c].attempt < MaxAttempts
    /\ frame[c].safe
    /\ frame[c].failure \in RetryFailures
    /\ frame[c].chunks = 0
    /\ frame[c].deadline - now > Delay(c)

GiveUp(c) ==
    /\ At(c, "deciding")
    /\ ~CanRetry(c)
    /\ Leave(c)
    /\ UNCHANGED breakerVars

(* wakeAt is the earliest end of the sleep by the clock as it was read for *)
(* the decision; the sleep may start, and end, later: Wake allows for it.  *)
BackOff(c) ==
    /\ At(c, "deciding")
    /\ CanRetry(c)
    /\ GoTo(c, "sleeping")
    /\ frame' = [frame EXCEPT ![c].wakeAt = now + Delay(c)]
    /\ UNCHANGED <<sends, breakerVars>>

\* Faulty: a sleeper past its deadline is forgotten.
WakeInTime(c) ==
    /\ At(c, "sleeping")
    /\ now >= frame[c].wakeAt
    /\ now < frame[c].deadline
    /\ GoTo(c, "entering")
    /\ frame' = [frame EXCEPT ![c] =
           [NewFrame(@.kind, @.model, @.deadline) EXCEPT !.attempt = frame[c].attempt + 1]]
    /\ UNCHANGED <<sends, breakerVars>>

(* The sleep is over, perhaps late: retry if the deadline allows it.       *)
Wake(c) ==
    /\ At(c, "sleeping")
    /\ now >= frame[c].wakeAt
    /\ IF now < frame[c].deadline
       THEN /\ GoTo(c, "entering")
            /\ frame' = [frame EXCEPT ![c] =
                   [NewFrame(@.kind, @.model, @.deadline) EXCEPT !.attempt = frame[c].attempt + 1]]
            /\ UNCHANGED sends
       ELSE Leave(c)
    /\ UNCHANGED breakerVars

Time == Tick /\ UNCHANGED callVars

(* What a call does without anyone asking it to.                           *)
Progress(c) ==
    \/ EnterBreaker(c) \/ RefusedEntry(c)
    \/ ConnectFails(c) \/ PreSendFault(c) \/ SendRequest(c)
    \/ ExchangeFails(c) \/ Respond(c) \/ YieldChunk(c) \/ StreamEnds(c)
    \/ CleanUp(c) \/ Settle(c) \/ GiveUp(c) \/ BackOff(c) \/ Wake(c)

Consume(c) == PullChunk(c) \/ CloseStream(c)

Next ==
    \/ \E c \in Calls :
          \/ \E k \in Kinds, m \in Models : Start(c, k, m)
          \/ Progress(c)
          \/ Consume(c)
          \/ Cancel(c)
          \/ Unwind(c)
    \/ Time

Spec == Init /\ [][Next]_vars

(* Threads and tasks are scheduled, transports time out, consumers come    *)
(* back for the next chunk or close the stream, and time passes.           *)
Fairness ==
    /\ \A c \in Calls : WF_vars(Progress(c)) /\ WF_vars(Consume(c))
    /\ WF_vars(Time)

FairSpec == Spec /\ Fairness
-----------------------------------------------------------------------------
(* Calls are always somewhere in the code, with locals of the right shape. *)
TypeOK ==
    /\ BreakerTypeOK
    /\ pc \in [Calls -> Places]
    /\ frame \in [Calls -> Frames]
    /\ sends \in [Calls -> Nat]

(* A call holds its admission exactly from enter to finish or abandon: it  *)
(* never leaves, sleeps or re-enters with one in hand, and never works     *)
(* without one.                                                            *)
HeldWhileInside ==
    \A c \in Calls : /\ Holds(c) <=> pc[c] \in Inside
                     /\ Holds(c) => held[c].model = frame[c].model

(* No ambiguous duplicate generations: the request of one call leaves for  *)
(* the provider at most once, whatever fails and however it is retried.    *)
NoDuplicateGeneration == \A c \in Calls : sends[c] <= 1

(* A backoff is never meant to outlive the deadline its call started with, *)
(* and a sleeping call has sent and emitted nothing.                       *)
SleepsWithinDeadline ==
    \A c \in Calls : At(c, "sleeping") =>
        frame[c].wakeAt < frame[c].deadline /\ sends[c] = 0 /\ frame[c].chunks = 0

(* docs/provider-resilience.md: a failed or abandoned probe reopens the    *)
(* circuit.  However a task, or a thread that streams, comes to the end of *)
(* its probe, and whatever its clean-up does, and whenever complete        *)
(* reports, the circuit is closed or a whole new recovery period has       *)
(* begun, although others acted on the circuit meanwhile.  Left out is     *)
(* only a complete whose thread is unwound by an exception that is no      *)
(* ProviderError (resilience.py 221): see ProbeEndSettles.                 *)
ReportedProbesSettle ==
    [][\A c \in Calls : LET m == frame[c].model IN
          /\ HoldsProbe(c, m) /\ held'[c] = NoAdmission
          /\ Flavour = "async" \/ frame[c].kind = "stream" \/ At(c, "settling")
          => ~probeInFlight'[m] /\ openUntil'[m] \in {0, now + RecoverySeconds}]_vars

(* Every call returns or raises.                                           *)
CallsFinish == \A c \in Calls : ~At(c, "idle") ~> At(c, "idle")
=============================================================================
