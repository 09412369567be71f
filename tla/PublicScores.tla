---------------------------- MODULE PublicScores ----------------------------
(***************************************************************************)
(* run_public_scores (public_scores.py): paid provider calls, one after    *)
(* the other, each announced in a checkpoint file before its request is    *)
(* sent and recorded there with its answer.  Several processes may be      *)
(* started on one checkpoint; a lock lets one of them in (CheckpointLock   *)
(* has its details).  A process may crash at any step, a write may fail    *)
(* before or after the file is replaced, and the machine may lose power,   *)
(* after which the directory shows any replacement that was not synced, or *)
(* none of them.                                                           *)
(***************************************************************************)
EXTENDS Integers, FiniteSets

CONSTANTS
    Procs,          \* processes that may be started on the checkpoint
    N,              \* calls the run consists of: two per benchmark example
    Manifests,      \* descriptions of runs: dataset, models, limits
    Permissions,    \* values allow_ambiguous_retry is given
    Quotas,         \* values max_calls is given
    MaxFaults,      \* bound on failed writes, lost answers, crashes, power losses
    Nobody,         \* "no process holds the lock"
    Absent          \* "there is no checkpoint file"

Tasks == 1 .. N

(* A checkpoint: the answers of tasks 1 .. results are in it, and pending  *)
(* is the task whose request may be on its way, 0 if there is none.        *)
Checkpoints == [manifest : Manifests, results : 0 .. N, pending : 0 .. N]

ASSUME NAssumption        == N \in Nat \ {0}
ASSUME OptionsAssumption  == Permissions \subseteq BOOLEAN /\ Quotas \subseteq Nat
ASSUME ManifestsAssumption == Manifests # {}
ASSUME BoundsAssumption   == MaxFaults \in Nat
ASSUME NobodyAssumption   == Nobody \notin Procs
ASSUME AbsentAssumption   == Absent \notin Checkpoints

VARIABLES
    disk,       \* the checkpoint file, as any process reads it
    survivors,  \* the contents a power loss may leave of it
    holder,     \* the process inside _locked, or Nobody
    pc,         \* [Procs -> Places]
    args,       \* [Procs -> Arguments]  the arguments of the invocation
    calls,      \* [Procs -> Nat]  new calls of the invocation
    state,      \* [Procs -> Checkpoints or Absent]  the local of that name
    buffer,     \* [Procs -> Checkpoints or Absent]  the state being written
    after,      \* [Procs -> Places]  where to go once it is written
    reached,    \* [Tasks -> Nat]  times the request may have reached the provider
    granted,    \* [Tasks -> Nat]  times a resend was explicitly permitted
    faults      \* failed writes, lost answers, crashes and power losses so far

fileVars  == <<disk, survivors>>
ghostVars == <<reached, granted, faults>>
vars      == <<disk, survivors, holder, pc, args, calls, state, buffer, after,
               reached, granted, faults>>

Arguments == [manifest : Manifests, permission : BOOLEAN, quota : Nat]
Places    == {"idle", "locking", "loading", "checking", "choosing", "replacing",
              "syncing", "sending", "waiting", "raising"}

NoArguments == [manifest |-> CHOOSE m \in Manifests : TRUE, permission |-> FALSE, quota |-> 0]

Fresh(m) == [manifest |-> m, results |-> 0, pending |-> 0]

Init ==
    /\ disk = Absent
    /\ survivors = {Absent}
    /\ holder = Nobody
    /\ pc = [p \in Procs |-> "idle"]
    /\ args = [p \in Procs |-> NoArguments]
    /\ calls = [p \in Procs |-> 0]
    /\ state = [p \in Procs |-> Absent]
    /\ buffer = [p \in Procs |-> Absent]
    /\ after = [p \in Procs |-> "idle"]
    /\ reached = [t \in Tasks |-> 0]
    /\ granted = [t \in Tasks |-> 0]
    /\ faults = 0

At(p, place)   == pc[p] = place
GoTo(p, place) == pc' = [pc EXCEPT ![p] = place]

(* The invocation is over: its locals are gone and the lock, if it was     *)
(* this process that held it, is free.                                     *)
Leave(p) ==
    /\ GoTo(p, "idle")
    /\ args' = [args EXCEPT ![p] = NoArguments]
    /\ calls' = [calls EXCEPT ![p] = 0]
    /\ state' = [state EXCEPT ![p] = Absent]
    /\ buffer' = [buffer EXCEPT ![p] = Absent]
    /\ after' = [after EXCEPT ![p] = "idle"]
    /\ holder' = IF holder = p THEN Nobody ELSE holder

(* Hand content to _write and go on at place when it is safely there.      *)
Write(p, content, place) ==
    /\ GoTo(p, "replacing")
    /\ buffer' = [buffer EXCEPT ![p] = content]
    /\ after' = [after EXCEPT ![p] = place]

Fault == faults < MaxFaults /\ faults' = faults + 1
-----------------------------------------------------------------------------
Start(p, a) ==
    /\ At(p, "idle")
    /\ GoTo(p, "locking")
    /\ args' = [args EXCEPT ![p] = a]
    /\ UNCHANGED <<fileVars, holder, calls, state, buffer, after, ghostVars>>

Acquire(p) ==
    /\ At(p, "locking")
    /\ holder = Nobody
    /\ holder' = p
    /\ GoTo(p, "loading")
    /\ UNCHANGED <<fileVars, args, calls, state, buffer, after, ghostVars>>

(* The lock does not block: the invocation fails.                          *)
Busy(p) ==
    /\ At(p, "locking")
    /\ holder # Nobody
    /\ Leave(p)
    /\ UNCHANGED <<fileVars, ghostVars>>

Load(p) ==
    /\ At(p, "loading")
    /\ IF disk = Absent
       THEN /\ state' = [state EXCEPT ![p] = Fresh(args[p].manifest)]
            /\ Write(p, Fresh(args[p].manifest), "checking")
       ELSE /\ state' = [state EXCEPT ![p] = disk]
            /\ GoTo(p, "checking")
            /\ UNCHANGED <<buffer, after>>
    /\ UNCHANGED <<fileVars, holder, args, calls, ghostVars>>

(* _validated_state, where the responses, digests and scores are sound.    *)
Valid(content, m) ==
    /\ content.manifest = m
    /\ content.pending # 0 => content.results < N /\ content.pending = content.results + 1

MayProceed(p) ==
    /\ Valid(state[p], args[p].manifest)
    /\ state[p].pending = 0 \/ args[p].permission

Check(p) ==
    /\ At(p, "checking")
    /\ IF MayProceed(p)
       THEN GoTo(p, "choosing") /\ UNCHANGED <<holder, args, calls, state, buffer, after>>
       ELSE Leave(p)
    /\ UNCHANGED <<fileVars, ghostVars>>

NextTask(p) == state[p].results + 1

HasWork(p)  == state[p].results < N /\ calls[p] < args[p].quota

\* Faulty: the answer of an earlier attempt is dropped when marking.
MarkFromScratch(p) ==
    /\ At(p, "choosing")
    /\ HasWork(p)
    /\ Write(p, [Fresh(state[p].manifest) EXCEPT !.pending = 1], "sending")
    /\ granted' = IF state[p].pending = 0 THEN granted
                  ELSE [granted EXCEPT ![NextTask(p)] = @ + 1]
    /\ UNCHANGED <<fileVars, holder, args, calls, state, reached, faults>>

(* Announce the next call.  Going on from a pending call is the permitted  *)
(* resend of it.                                                           *)
Mark(p) ==
    /\ At(p, "choosing")
    /\ HasWork(p)
    /\ Write(p, [state[p] EXCEPT !.pending = NextTask(p)], "sending")
    /\ granted' = IF state[p].pending = 0 THEN granted
                  ELSE [granted EXCEPT ![NextTask(p)] = @ + 1]
    /\ UNCHANGED <<fileVars, holder, args, calls, state, reached, faults>>

(* All calls are done, or as many as were asked for: progress is returned. *)
Report(p) ==
    /\ At(p, "choosing")
    /\ ~HasWork(p)
    /\ Leave(p)
    /\ UNCHANGED <<fileVars, ghostVars>>

(* os.replace of the synced temporary file: the new content is visible at  *)
(* once, and durable only with the directory.                              *)
Replace(p) ==
    /\ At(p, "replacing")
    /\ disk' = buffer[p]
    /\ survivors' = survivors \cup {buffer[p]}
    /\ GoTo(p, "syncing")
    /\ UNCHANGED <<holder, args, calls, state, buffer, after, ghostVars>>

\* Faulty: the directory is not synced.
SkipSync(p) ==
    /\ At(p, "syncing")
    /\ state' = [state EXCEPT ![p] = buffer[p]]
    /\ GoTo(p, after[p])
    /\ UNCHANGED <<fileVars, holder, args, calls, buffer, after, ghostVars>>

(* os.fsync of the directory, and the assignment to state after _write.    *)
SyncDirectory(p) ==
    /\ At(p, "syncing")
    /\ survivors' = {disk}
    /\ state' = [state EXCEPT ![p] = buffer[p]]
    /\ GoTo(p, after[p])
    /\ UNCHANGED <<disk, holder, args, calls, buffer, after, ghostVars>>

(* An OSError before the replacement leaves the old file, one after it the *)
(* new file, not yet durable; either way the invocation fails.             *)
WriteFails(p) ==
    /\ pc[p] \in {"replacing", "syncing"}
    /\ Fault
    /\ Leave(p)
    /\ UNCHANGED <<fileVars, reached, granted>>

(* The provider certifies that nothing was sent: the marker is cleared.    *)
ConnectFails(p) ==
    /\ At(p, "sending")
    /\ Write(p, [state[p] EXCEPT !.pending = 0], "raising")
    /\ UNCHANGED <<fileVars, holder, args, calls, state, ghostVars>>

(* A timeout or another failure that certifies nothing, though nothing was *)
(* sent.                                                                   *)
FailUnsent(p) ==
    /\ At(p, "sending")
    /\ Fault
    /\ Leave(p)
    /\ UNCHANGED <<fileVars, reached, granted>>

Send(p) ==
    /\ At(p, "sending")
    /\ reached' = [reached EXCEPT ![NextTask(p)] = @ + 1]
    /\ GoTo(p, "waiting")
    /\ UNCHANGED <<fileVars, holder, args, calls, state, buffer, after, granted, faults>>

\* Faulty: the answer is recorded, and its marker stays.
AnswerKeepsMarker(p) ==
    /\ At(p, "waiting")
    /\ Write(p, [state[p] EXCEPT !.results = @ + 1], "choosing")
    /\ calls' = [calls EXCEPT ![p] = @ + 1]
    /\ UNCHANGED <<fileVars, holder, args, state, ghostVars>>

(* The answer is scored and recorded, and its marker goes.                 *)
Answer(p) ==
    /\ At(p, "waiting")
    /\ Write(p, [state[p] EXCEPT !.results = @ + 1, !.pending = 0], "choosing")
    /\ calls' = [calls EXCEPT ![p] = @ + 1]
    /\ UNCHANGED <<fileVars, holder, args, state, ghostVars>>

\* Faulty: the marker is cleared whatever became of the request.
ClearWhenLost(p) ==
    /\ At(p, "waiting")
    /\ Write(p, [state[p] EXCEPT !.pending = 0], "raising")
    /\ UNCHANGED <<fileVars, holder, args, calls, state, ghostVars>>

(* Timeout, cancellation, a provider error or an unusable answer: the      *)
(* marker stays.                                                           *)
LoseAnswer(p) ==
    /\ At(p, "waiting")
    /\ Fault
    /\ Leave(p)
    /\ UNCHANGED <<fileVars, reached, granted>>

(* The error of a call whose marker was cleared.                           *)
Raise(p) ==
    /\ At(p, "raising")
    /\ Leave(p)
    /\ UNCHANGED <<fileVars, ghostVars>>

Crash(p) ==
    /\ ~At(p, "idle")
    /\ Fault
    /\ Leave(p)
    /\ UNCHANGED <<fileVars, reached, granted>>

(* Every process is gone, and the directory is one of those it may be.     *)
PowerLoss ==
    /\ Fault
    /\ disk' \in survivors
    /\ survivors' = {disk'}
    /\ holder' = Nobody
    /\ pc' = [p \in Procs |-> "idle"]
    /\ args' = [p \in Procs |-> NoArguments]
    /\ calls' = [p \in Procs |-> 0]
    /\ state' = [p \in Procs |-> Absent]
    /\ buffer' = [p \in Procs |-> Absent]
    /\ after' = [p \in Procs |-> "idle"]
    /\ UNCHANGED <<reached, granted>>

(* The steps of an invocation that nothing disturbs from outside.          *)
Work(p) ==
    \/ Acquire(p) \/ Busy(p) \/ Load(p) \/ Check(p) \/ Mark(p) \/ Report(p)
    \/ Replace(p) \/ SyncDirectory(p) \/ Raise(p)

Exchange(p) ==
    \/ ConnectFails(p) \/ FailUnsent(p) \/ Send(p) \/ Answer(p) \/ LoseAnswer(p)

Invocations == [manifest : Manifests, permission : Permissions, quota : Quotas]

Next ==
    \/ \E p \in Procs :
          \/ \E a \in Invocations : Start(p, a)
          \/ Work(p)
          \/ Exchange(p)
          \/ WriteFails(p)
          \/ Crash(p)
    \/ PowerLoss

Spec == Init /\ [][Next]_vars

(* An unpermitted or partial invocation may be started at any time.  Every *)
(* started one is scheduled; of each run somebody comes back, with         *)
(* permission to resend and calls to spend, when nobody is at work, and    *)
(* not always second; and a provider asked again and again answers.        *)
Persistent(m) == [manifest |-> m, permission |-> TRUE, quota |-> N]

FairSpec ==
    /\ Spec
    /\ \A p \in Procs : WF_vars(Work(p) \/ Exchange(p))
    /\ \A m \in Manifests :
          /\ SF_vars(holder = Nobody /\ \E p \in Procs : Start(p, Persistent(m)))
          /\ SF_vars(\E p \in Procs : args[p] = Persistent(m) /\ Acquire(p))
    /\ SF_vars(\E p \in Procs : Send(p))
    /\ SF_vars(\E p \in Procs : Answer(p))
-----------------------------------------------------------------------------
(* Every variable has its shape, and the file its own schema.              *)
TypeOK ==
    /\ disk \in Checkpoints \cup {Absent}
    /\ survivors \subseteq Checkpoints \cup {Absent}
    /\ holder \in Procs \cup {Nobody}
    /\ pc \in [Procs -> Places]
    /\ args \in [Procs -> Arguments]
    /\ calls \in [Procs -> Nat]
    /\ state \in [Procs -> Checkpoints \cup {Absent}]
    /\ buffer \in [Procs -> Checkpoints \cup {Absent}]
    /\ after \in [Procs -> Places]
    /\ reached \in [Tasks -> Nat]
    /\ granted \in [Tasks -> Nat]
    /\ faults \in 0 .. MaxFaults

(* A request is sent once, and once more for each permission to resend it, *)
(* whatever fails, crashes or is lost in between.                          *)
DuplicatesBounded == \A t \in Tasks : reached[t] <= 1 + granted[t]

(* When a request leaves for the provider, the one content the file can    *)
(* have, now and after a power loss, announces it.                         *)
SendIsAnnounced ==
    [][\A t \in Tasks : reached'[t] # reached[t] =>
          \A content \in survivors : content # Absent /\ content.pending = t
      ]_vars

Done(content) == IF content = Absent THEN 0 ELSE content.results

(* No answer that is on disk for good is ever lost or asked for again: the *)
(* number of answers every possible file holds never falls.                *)
AnswersStay ==
    [][\A new \in survivors' : \E old \in survivors : Done(new) >= Done(old)]_vars

(* A resend of a pending request is permitted in the invocation that makes *)
(* it (docstring of run_public_scores).                                    *)
NoUnauthorisedResend ==
    [][\A t \in Tasks :
          reached'[t] # reached[t] /\ reached[t] # 0 =>
              holder # Nobody /\ args[holder].permission
      ]_vars

(* The lock is used as a mutex: what CheckpointLock is shown to implement. *)
Lock == INSTANCE Mutex WITH inside <- IF holder = Nobody THEN {} ELSE {holder}

LockSpec == Lock!Spec

(* A run that is restarted with permission gets all its answers.           *)
EventuallyComplete == <>[](disk # Absent /\ disk.results = N)
=============================================================================
