------------------------------ MODULE HalfOpen ------------------------------
(***************************************************************************)
(* What the circuit breaker of resilience.py promises, without its epochs  *)
(* and its in-flight flag.  Each model trusts the calls it admitted in the *)
(* present closed period and, while open, may be probed by at most one     *)
(* call.  The completion of a call that is neither trusted nor the prober  *)
(* changes nothing: it belongs to a period that is over.                   *)
(***************************************************************************)
EXTENDS Integers

CONSTANTS
    Models,
    Calls,
    Threshold,          \* counted failures in a row that open a circuit
    Recovery,           \* time before an open circuit may be probed
    MayForget           \* can a call vanish without reporting?

VARIABLES
    clock,
    streak,     \* [Models -> Nat]  counted failures in a row
    reopens,    \* [Models -> Nat]  0 while closed, else when it may be probed
    trusted,    \* [Models -> SUBSET Calls]  admitted in this closed period
    probers     \* [Models -> SUBSET Calls]  the half-open probe, if any

abstractVars == <<clock, streak, reopens, trusted, probers>>

Closed(m) == reopens[m] = 0

Init ==
    /\ clock = 1
    /\ streak = [m \in Models |-> 0]
    /\ reopens = [m \in Models |-> 0]
    /\ trusted = [m \in Models |-> {}]
    /\ probers = [m \in Models |-> {}]

Trust(c, m) ==
    /\ Closed(m)
    /\ trusted' = [trusted EXCEPT ![m] = @ \cup {c}]
    /\ UNCHANGED <<clock, streak, reopens, probers>>

Probe(c, m) ==
    /\ ~Closed(m)
    /\ clock >= reopens[m]
    /\ probers[m] = {}
    /\ probers' = [probers EXCEPT ![m] = {c}]
    /\ UNCHANGED <<clock, streak, reopens, trusted>>

(* The circuit opens, and with it every standing admission of m lapses.    *)
Trip(m) ==
    /\ streak' = [streak EXCEPT ![m] = Threshold]
    /\ reopens' = [reopens EXCEPT ![m] = clock + Recovery]
    /\ trusted' = [trusted EXCEPT ![m] = {}]
    /\ probers' = [probers EXCEPT ![m] = {}]
    /\ UNCHANGED clock

TrustedReport(c, m) ==
    /\ c \in trusted[m]
    /\ \/ /\ streak[m] + 1 >= Threshold
          /\ Trip(m)
       \/ /\ \E n \in {0, streak[m], streak[m] + 1} :
                /\ n < Threshold
                /\ streak' = [streak EXCEPT ![m] = n]
          /\ trusted' = [trusted EXCEPT ![m] = @ \ {c}]
          /\ UNCHANGED <<clock, reopens, probers>>

ProberReport(c, m) ==
    /\ c \in probers[m]
    /\ \/ Trip(m)
       \/ /\ streak' = [streak EXCEPT ![m] = 0]
          /\ reopens' = [reopens EXCEPT ![m] = 0]
          /\ probers' = [probers EXCEPT ![m] = {}]
          /\ UNCHANGED <<clock, trusted>>

(* A trusted call may leave without a verdict; a prober may not, unless    *)
(* calls can vanish.                                                       *)
Withdraw(c, m) ==
    /\ \/ /\ c \in trusted[m]
          /\ trusted' = [trusted EXCEPT ![m] = @ \ {c}]
          /\ UNCHANGED probers
       \/ /\ MayForget
          /\ c \in probers[m]
          /\ probers' = [probers EXCEPT ![m] = {}]
          /\ UNCHANGED trusted
    /\ UNCHANGED <<clock, streak, reopens>>

Advance ==
    /\ clock' = clock + 1
    /\ UNCHANGED <<streak, reopens, trusted, probers>>

Next ==
    \/ \E c \in Calls, m \in Models :
          \/ Trust(c, m)
          \/ Probe(c, m)
          \/ TrustedReport(c, m)
          \/ ProberReport(c, m)
          \/ Withdraw(c, m)
    \/ Advance

Spec == Init /\ [][Next]_abstractVars
=============================================================================
