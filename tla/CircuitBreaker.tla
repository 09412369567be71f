--------------------------- MODULE CircuitBreaker ---------------------------
(***************************************************************************)
(* The per-model circuit breaker of resilience.py (_CircuitBreaker) and    *)
(* the admissions it hands out.  Every operation of the class runs under   *)
(* one lock, so each is one action.  What callers do with an admission is  *)
(* left open: it may be finished with any outcome, abandoned, or, where    *)
(* MayDrop says so, forgotten by a caller that an exception unwound.       *)
(* ProviderCalls adds the callers.                                         *)
(***************************************************************************)
EXTENDS Integers

CONSTANTS
    Models,             \* catalog models with a provider binding
    Calls,              \* slots for concurrent calls (worker threads or tasks)
    FailureThreshold,   \* consecutive counted failures that open a circuit
    RecoverySeconds,    \* time a circuit stays open before a probe
    MaxTime,            \* bound on the clock: the model's horizon
    MayDrop,            \* can an exception unwind a caller past finish?
    NoAdmission         \* "this call holds no admission"

ASSUME ThresholdAssumption == FailureThreshold \in Nat \ {0}
ASSUME RecoveryAssumption  == RecoverySeconds \in Nat \ {0}
ASSUME TimeAssumption      == MaxTime \in Nat
ASSUME DropAssumption      == MayDrop \in BOOLEAN

Admissions == [model : Models, probe : BOOLEAN, epoch : Nat]

ASSUME NoAdmissionAssumption == NoAdmission \notin Admissions

(* Outcomes of an attempt: "ok" stands for failure = None.                 *)
CountedFailures == {"timeout", "rate_limited", "unavailable", "malformed", "failed"}
Outcomes        == CountedFailures \cup {"ok", "rejected", "not_configured"}

VARIABLES
    now,            \* the monotonic clock, positive
    failures,       \* [Models -> Nat]      _CircuitState.failures
    openUntil,      \* [Models -> Nat]      _CircuitState.open_until, 0 when closed
    probeInFlight,  \* [Models -> BOOLEAN]  _CircuitState.probe_in_flight
    epoch,          \* [Models -> Nat]      _CircuitState.epoch
    held            \* [Calls -> Admissions or NoAdmission]

circuit     == <<failures, openUntil, probeInFlight, epoch>>
breakerVars == <<now, failures, openUntil, probeInFlight, epoch, held>>

(* Every cell of the breaker and every admission has its shape, and a     *)
(* failure count never passes the threshold (_CircuitState, _Admission).   *)
BreakerTypeOK ==
    /\ now \in Nat \ {0}
    /\ failures \in [Models -> 0 .. FailureThreshold]
    /\ openUntil \in [Models -> Nat]
    /\ probeInFlight \in [Models -> BOOLEAN]
    /\ epoch \in [Models -> Nat]
    /\ held \in [Calls -> Admissions \cup {NoAdmission}]

Holds(c)        == held[c] # NoAdmission
HoldsFor(c, m)  == Holds(c) /\ held[c].model = m
Current(c)      == Holds(c) /\ held[c].epoch = epoch[held[c].model]
HoldsProbe(c,m) == HoldsFor(c, m) /\ held[c].probe

IsOpen(m)    == openUntil[m] # 0
\* Faulty: a second probe is admitted while one is in flight.
RefusedForgetsProbe(m) == IsOpen(m) /\ now < openUntil[m]

Refused(m)   == IsOpen(m) /\ (now < openUntil[m] \/ probeInFlight[m])

BreakerInit ==
    /\ now = 1
    /\ failures = [m \in Models |-> 0]
    /\ openUntil = [m \in Models |-> 0]
    /\ probeInFlight = [m \in Models |-> FALSE]
    /\ epoch = [m \in Models |-> 0]
    /\ held = [c \in Calls |-> NoAdmission]
-----------------------------------------------------------------------------
(* enter: admit the call, as the half-open probe if the circuit is open    *)
(* and its recovery time has passed.                                       *)
Enter(c, m) ==
    /\ ~Holds(c)
    /\ ~Refused(m)
    /\ held' = [held EXCEPT ![c] =
                   [model |-> m, probe |-> IsOpen(m), epoch |-> epoch[m]]]
    /\ probeInFlight' = [probeInFlight EXCEPT ![m] = @ \/ IsOpen(m)]
    /\ UNCHANGED <<now, failures, openUntil, epoch>>

\* Faulty: reopening counts one more failure.
OpenCounts(m) ==
    /\ failures' = [failures EXCEPT ![m] = @ + 1]
    /\ openUntil' = [openUntil EXCEPT ![m] = now + RecoverySeconds]
    /\ probeInFlight' = [probeInFlight EXCEPT ![m] = FALSE]
    /\ epoch' = [epoch EXCEPT ![m] = @ + 1]

(* _open                                                                   *)
Open(m) ==
    /\ failures' = [failures EXCEPT ![m] = FailureThreshold]
    /\ openUntil' = [openUntil EXCEPT ![m] = now + RecoverySeconds]
    /\ probeInFlight' = [probeInFlight EXCEPT ![m] = FALSE]
    /\ epoch' = [epoch EXCEPT ![m] = @ + 1]

(* The healthy completion of a probe closes its circuit.                   *)
Close(m) ==
    /\ failures' = [failures EXCEPT ![m] = 0]
    /\ openUntil' = [openUntil EXCEPT ![m] = 0]
    /\ probeInFlight' = [probeInFlight EXCEPT ![m] = FALSE]
    /\ UNCHANGED epoch

Counts(outcome) == outcome \in CountedFailures

Trips(m, outcome) == Counts(outcome) /\ failures[m] + 1 >= FailureThreshold

(* A completion counted while the circuit is closed.                       *)
Count(m, outcome) ==
    /\ failures' = [failures EXCEPT ![m] = IF outcome = "ok" THEN 0
                                           ELSE IF Counts(outcome) THEN @ + 1 ELSE @]
    /\ UNCHANGED <<openUntil, probeInFlight, epoch>>

\* Faulty: a completion is believed whatever period admitted it.
SettledIgnoringEpoch(c, outcome) ==
    LET m == held[c].model IN
    IF held[c].probe \/ IsOpen(m)
    THEN IF Counts(outcome) THEN Open(m) ELSE Close(m)
    ELSE IF Trips(m, outcome) THEN Open(m) ELSE Count(m, outcome)

(* What finish does to the circuit of the admission's model.               *)
Settled(c, outcome) ==
    LET m == held[c].model IN
    IF ~Current(c) THEN UNCHANGED circuit
    ELSE IF held[c].probe
         THEN IF Counts(outcome) THEN Open(m) ELSE Close(m)
         ELSE IF IsOpen(m) THEN UNCHANGED circuit
         ELSE IF Trips(m, outcome) THEN Open(m) ELSE Count(m, outcome)

(* What finish returns: did this completion find or leave the circuit open? *)
FinishOpened(c, outcome) ==
    LET m == held[c].model IN
    \/ ~Current(c) /\ IsOpen(m)
    \/ Current(c) /\ held[c].probe /\ Counts(outcome)
    \/ Current(c) /\ ~held[c].probe /\ (IsOpen(m) \/ Trips(m, outcome))

(* finish: release the admission and settle its circuit.                   *)
Finish(c, outcome) ==
    /\ Holds(c)
    /\ held' = [held EXCEPT ![c] = NoAdmission]
    /\ Settled(c, outcome)
    /\ UNCHANGED now

(* abandon: neutral, except for an unproven half-open probe.               *)
Abandon(c) ==
    /\ Holds(c)
    /\ held' = [held EXCEPT ![c] = NoAdmission]
    /\ IF Current(c) /\ held[c].probe THEN Open(held[c].model)
                                      ELSE UNCHANGED circuit
    /\ UNCHANGED now

(* The caller is gone and its admission with it; the circuit never learns. *)
Drop(c) ==
    /\ MayDrop
    /\ Holds(c)
    /\ held' = [held EXCEPT ![c] = NoAdmission]
    /\ UNCHANGED <<now, failures, openUntil, probeInFlight, epoch>>

(* Time passes; the clock stands still at the horizon MaxTime.             *)
Tick ==
    /\ now' = IF now < MaxTime THEN now + 1 ELSE now
    /\ UNCHANGED <<failures, openUntil, probeInFlight, epoch, held>>

BreakerNext ==
    \/ \E c \in Calls :
          \/ \E m \in Models : Enter(c, m)
          \/ \E outcome \in Outcomes : Finish(c, outcome)
          \/ Abandon(c)
          \/ Drop(c)
    \/ Tick

BreakerSpec == BreakerInit /\ [][BreakerNext]_breakerVars
-----------------------------------------------------------------------------
(* Whatever the number of concurrent callers, at most one of them holds a  *)
(* half-open probe of a model (resilience.py, enter).                      *)
OneProbe ==
    \A m \in Models : \A c, d \in Calls :
        HoldsProbe(c, m) /\ HoldsProbe(d, m) => c = d

(* A probe is never stale: its circuit is open and marked as being probed  *)
(* until that very call reports.                                           *)
ProbeIsLive ==
    \A m \in Models : \A c \in Calls :
        HoldsProbe(c, m) => Current(c) /\ IsOpen(m) /\ probeInFlight[m]

(* An ordinary admission of the present epoch exists only while its        *)
(* circuit is closed, so the branch of finish for "a concurrent request    *)
(* entered while the circuit was closed" never sees a current admission.   *)
TrustedMeansClosed ==
    \A c \in Calls : Current(c) /\ ~held[c].probe => ~IsOpen(held[c].model)

(* A closed circuit has seen fewer counted failures in a row than the      *)
(* threshold, and a circuit is probed only while open.                     *)
ClosedMeansHealthy ==
    \A m \in Models :
        ~IsOpen(m) => failures[m] < FailureThreshold /\ ~probeInFlight[m]

(* A circuit marked as being probed has a caller that will report on the   *)
(* probe; otherwise every later call of the model is refused for ever.     *)
(* It holds of the tasks of async_client.py, however they are cancelled.   *)
ProbeHasOwner ==
    \A m \in Models : probeInFlight[m] => \E c \in Calls : HoldsProbe(c, m)

(* An open circuit closes, or starts a new recovery period, only by the    *)
(* hand of the call that probes it: no late completion of an earlier       *)
(* period closes it or keeps it open longer.                               *)
OnlyProbeMovesOpenCircuit ==
    [][\A m \in Models :
          IsOpen(m) /\ openUntil'[m] # openUntil[m] =>
              /\ now >= openUntil[m]
              /\ \E c \in Calls : HoldsProbe(c, m) /\ held'[c] = NoAdmission
      ]_breakerVars

(* docs/provider-resilience.md: a failed or abandoned probe reopens the    *)
(* circuit.  When a probe ends, however it ends, its circuit is closed or  *)
(* a whole new recovery period has begun.  It holds of callers that never  *)
(* lose an admission, and not of resilience.py 221, which can.             *)
ProbeEndSettles ==
    [][\A m \in Models : \A c \in Calls :
          HoldsProbe(c, m) /\ held'[c] = NoAdmission =>
              /\ ~probeInFlight'[m]
              /\ openUntil'[m] \in {0, now + RecoverySeconds}
      ]_breakerVars

(* The breaker keeps the promise of HalfOpen, in which a model trusts the  *)
(* calls of its present period and nothing is said of epochs.              *)
Abstract == INSTANCE HalfOpen WITH
    Threshold <- FailureThreshold,
    Recovery  <- RecoverySeconds,
    MayForget <- MayDrop,
    clock     <- now,
    streak    <- failures,
    reopens   <- openUntil,
    trusted   <- [m \in Models |->
                    {c \in Calls : HoldsFor(c, m) /\ Current(c) /\ ~held[c].probe}],
    probers   <- [m \in Models |-> {c \in Calls : HoldsProbe(c, m) /\ Current(c)}]

AbstractSpec == Abstract!Spec
=============================================================================
