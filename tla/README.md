# FacetRoute: TLA+ models, model checking and proofs

FacetRoute is a Python package that chooses a language model for a request and,
if asked to, sends the request to that model's provider; it learns from feedback, and
brings tools that benchmark, calibrate and audit the choice. The parts that are hard to
get right keep state while several threads, tasks or processes use it, while requests
that cost money are in flight, and while files that must survive a crash are rewritten.
This directory models those parts and the decisions they serve, checks the models with
TLC, and proves what matters most with TLAPS: about the circuit breaker and its callers,
the checkpoint lock, score runs, learned state, bundles of files, the server's capacity and
framing, the transport and the stream it delivers, and experiments on shared files.

Source paths are relative to `src/src/facetroute/` unless they say otherwise.

## 1. The system

### 1.1 Components

| Component | Source | State it keeps | Operations | Modelled in |
|---|---|---|---|---|
| Circuit breaker | `resilience.py` 44-151 | per model: failure count, open-until time, probe flag, epoch; the admissions it handed out | enter, finish, abandon | `CircuitBreaker`, `HalfOpen` |
| Resilient registries | `resilience.py` 153-284, `async_client.py` | locals of every running call: attempt, deadline, admission, chunks emitted | complete, stream, close of a stream, cancellation | `ProviderCalls` |
| Provider transport | `providers.py`, `async_http.py` | a connection per call, an event decoder per stream | configure, request, read a response or events, certify that nothing was sent | `Transport`; its outcomes in `ProviderCalls` |
| Public score runs | `public_scores.py` 381-618 | the checkpoint file: manifest, results, pending call | run, read, validate, write, report | `PublicScores` |
| Checkpoint lock | `public_scores.py` 296-379 | lock file, inodes, descriptors, flock | acquire, release, initialise, undo | `CheckpointLock`, `Mutex` |
| Atomic bundles | `persistence.py` | destinations, staged files, backups | bundle write with rollback, JSON save | `AtomicBundle` |
| HTTP server | `server.py` | semaphore, one handler per connection, what is on the wire | accept, reject, GET, POST, chat completion, SSE, close | `HttpServer` |
| Routing policies | `constraints.py`, `scoring.py`, `pareto.py`, `rules.py`, `routers.py`, `types.py` | the catalog and profiles of a router | validate, eligibility, score, front, decide, route a batch | `Routing` |
| Feature extraction | `features.py` | none | counts and keywords to task, difficulty, capabilities | partly, in `Routing`: from the counts on |
| Learning routers | `bandit.py`, `feedback.py`, `profiles.py` | arm statistics, feedback log, preference store | route, update, save, load, append | `Routing` (decision), `LearnedState` (life of the files) |
| Similarity, factorization | `similarity.py`, `factorization.py` | fitted weights in a model file | fit, select, evaluate, route | partly: `Experiments`, `Routing` |
| Command line | `cli.py` | none of its own | read, compute, append and write, in the order of each command | `LearnedState`, `ExperimentFiles` |
| Offline simulation, benchmarks | `simulator.py`, `benchmark.py`, `reporting.py` | arm statistics during a run | simulate, compare, render | simulator in `LearnedState`; the rest adds up and lays out |
| Benchmark sweeps | `benchmark_sweep.py` | cache of results in a directory | run one cell, reuse one | `Experiments`, `ExperimentFiles` |
| Traces, splitting, calibration | `traces.py`, `splitting.py`, `calibration.py` | partitions and a manifest | load, group-disjoint split, choose a threshold | `Experiments`, `ExperimentFiles` |
| Contamination audit | `contamination*.py` | exclusion file | find overlap, derive exclusions | `Experiments`, `ExperimentFiles` |
| Public score audit | `public_score_audit*.py` | none | paired comparison over a checkpoint | `Experiments`, `ExperimentFiles` |
| Dataset preparation | `benchmark_formats.py`, `gsm8k_*`, `mmlu_*` | none | convert one file format into another | not modelled: conversion of records |
| Live profiles | `live_profile.py` | none | measure a running provider | not modelled: measurement |
| Strict JSON, configuration, errors | `_json.py`, `config.py`, `errors.py`, `__init__.py` | none | parse, validate | not modelled: assumed by the readers of files |

### 1.2 How they interact

* A worker thread of the HTTP server routes a request and then calls `complete` or
  `stream` of a registry. The registry asks the circuit breaker for an admission, lets
  the transport make one attempt, and gives the admission back with the outcome. The
  breaker is shared by all threads under one lock; nothing else is.
* A streamed answer is a generator: between two chunks the consumer is in control. It
  may ask for the next chunk, close the generator or drop it, and holds the admission
  meanwhile. The HTTP server is such a consumer, and pulls while its own client reads.
* The asynchronous registry uses the same breaker from tasks of one event loop; a task
  may be cancelled at each of its awaits.
* A public score run calls the asynchronous client once per example and model. Before
  each call it announces the call in the checkpoint file, and records the answer in it
  afterwards. Any number of processes may be started on one checkpoint, a lock file
  lets one of them in.
* Every saved file of the package (router state, model files, reports) goes through one
  function that replaces a bundle of files and rolls back when it fails.
* A command of the CLI is a process of its own. It loads router state, works on what it has
  in memory, appends to the feedback log and saves, each in its own order; nothing but
  the file system stands between two commands on the same files. The experiment commands
  likewise share trace files, partitions, their manifest and the sweep cache.

### 1.3 What is hard about it, and what makes each part correct

* **Breaker.** Admissions outlive the state they were issued in: a call may report when
  its circuit was opened, probed, closed and opened again. It is correct if only one
  call probes, only that call moves an open circuit, and a late report changes nothing.
* **Callers.** There are many ways out of an attempt (return, provider error, other
  exception, close, cancellation, deadline). They are correct if each way gives the
  admission back exactly once, a request that may have been received is not sent again,
  and every call comes to an end.
* **Score runs.** Crashes, failed writes, lost answers and power losses at any step. They
  are correct if no request is paid for twice without permission, no recorded answer is
  lost, and every file that may be found afterwards can be resumed.
* **Lock.** Directory entries, inodes and descriptors change independently. It is
  correct if all contenders meet at one inode and at most one is inside.
* **Bundles.** Any system call may raise, with or without effect, also during the
  rollback. They are correct if a bundle is replaced as a whole or not at all.
* **Server.** Clients are silent, slow or gone at any point of an exchange. It is correct
  if its capacity is conserved, a connection is reused only when nothing is left over on
  it, answers are well framed, and nobody waits for ever.
* **Routing.** A decision is made from figures of several models at once. It is correct if
  models that may not be chosen do not influence it, every model of the catalog is
  accounted for, and a batch accounts for every request whatever one of them raises.
* **Learned state.** Log, state file and memory advance separately. They are correct if a
  state never knows an observation the log does not have, no observation is logged twice, a failed
  write costs at most one success that was reported, and learning is lost only where commands overlap.
* **Transport.** The upstream cuts, delays, garbles and breaks off as it likes. It is
  correct if the chunks delivered are a prefix of those in the stream, a failure is
  certified as unsent only if nothing left, and a call ends in its time.
* **Experiments.** Inputs change between two reads, outputs are several files, cached
  results outlive their inputs. They are correct if partitions are disjoint by group,
  the evaluation is of unseen data, and a report is what its inputs say.

`PROJECT.json` lists these hazards one by one, each at the line where it bites.

## 2. The modules

Every module names its places, locals and operations after the code. A process, thread,
task or connection has a `pc` that says where in the code it stands; a step is what
happens between two points where another actor can interfere or an exception can be
raised.

### CircuitBreaker (`resilience.py` 44-151) and HalfOpen

Each method of `_CircuitBreaker` runs under its lock, so each is one action: `Enter`,
`Finish`, `Abandon`; `Tick` is the clock. The variables are the fields of
`_CircuitState`, plus `held`, the admissions that callers hold. `Settled` is what
`finish` does to a circuit and `FinishOpened` what it returns. `Drop` is a caller that an
exception unwinds past `finish`; the constant `MayDrop` says if that can happen: it can in the
synchronous registry, and cannot in the asynchronous one.
A call slot may hold one admission and is used again and again.

`HalfOpen` is the promise: no epochs and no flag, each model has a set of calls it
trusts and at most one prober, and opening a circuit makes all of them lapse. The
breaker implements it with `trusted` and `probers` being the holders of current
admissions (`Abstract` in `CircuitBreaker`).

### ProviderCalls (`resilience.py` 153-284, `async_client.py` 100-253, `providers.py` 370-445)

Extends `CircuitBreaker` by its callers. A call goes through `entering`, `connecting`,
`waiting`, `paused` (a generator between two chunks), `closing` (its clean-up, which may raise or
be cancelled itself before the admission goes back in `CleanUp`), `settling`, `deciding` (the retry
decision, taken after the breaker's lock was released) and `sleeping`. Its `frame` holds
the locals. The transport appears as its outcomes: a connection failure is the one kind
that is certified as unsent (`safe`); after `SendRequest` every failure is ambiguous.
`Flavour` selects the registry: `Cancel` exists for tasks, `Unwind` for threads. A thread that
completes and is unwound by an exception that is no `ProviderError` drops its admission, as the
code does (`resilience.py` 220-231). The remaining time is read where the sleep begins.
`sends` counts how often the call's request left for the provider; it is a history
variable and no action reads it.

### PublicScores (`public_scores.py` 381-618)

`run_public_scores` and `_write` by several processes on one checkpoint. `disk` is the
file as every process sees it, and `survivors` the contents a power loss may leave:
`Replace` makes new content visible and `SyncDirectory` makes it last. A checkpoint is
its manifest, the number of answers and the pending task: answers are recorded in task
order, so their number says which there are. Answers are taken to fit into
`max_checkpoint_bytes`; one that does not is lost after it was paid for. The lock is one variable here and a module
of its own below. `Mutex` is what the two have in common: `CheckpointLock` implements it
(`MutexSpec`), and the variable here is one by construction (`LockSpec`). `reached` and `granted` are
history variables: how often a request may have reached the provider, and how often
somebody permitted to resend it.

### CheckpointLock (`public_scores.py` 296-379) and Mutex

`_locked` for POSIX, one system call per action. A path leads to an inode; a process has
an inode open; a lock belongs to an inode; an inode number is free for reuse when no path
and no descriptor leads to it. `Remove` is an operator who deletes a leftover lock file
while nobody has it or is about to have it locked, though processes may be looking at it.
Deleting it while it is held defeats any lock file, and is excluded.

### AtomicBundle (`persistence.py` 58-197)

`_atomic_write_bytes_bundle`, one system call per action in the order of the code: stage
all, back up and move away what exists, install all, drop the backups; on an exception
restore in reverse and clean up. `MoveRaises`, `InstallRaises`, `RestoreRaises` and
`CleanRaises` are calls that raise before or after their effect, `Suspect` is the guess
of lines 134-138 about which it was. `AtomicJsonStore.save` is the bundle of one file.
Contents are the writer they come from, or what was there before.

### HttpServer (`server.py`)

The accepting thread (`acceptor`), the semaphore (`permits`) and one worker per served
connection. A worker's place tells where an exception of its next read or write is
caught: places in `Guarded` are inside the try statement of `do_POST`, those in `Bare` are
not. `wire` is what the client of a connection was sent since its last request, as a
sequence of status lines (`head`), bodies, events and chunked terminators; `heads` counts
status lines that are still in the header buffer of the handler, which a failed flush
leaves there. The router and the provider are one step each (`Decide`, `Pull`).
Header and payload validation is reduced to the one thing the connection's fate depends
on: was the request refused before (`RefusePost`) or after (`Misfit`) its body was read.
A refusal ends the connection, with two exceptions that are in the model as they are in the code: a
GET may come with a body nobody looks for (`Get`), and a POST may have a length with more digits
than `int()` takes (`"unsized"`), whose `ValueError` is answered like any other.
The three writes of a chunk (`server.py` 312-316) are one item on the wire.

### Transport (`providers.py`, `async_http.py`)

One exchange, from the configuration of the binding to the last byte. Bytes are counted
and not spelled: what the upstream will send is a sequence of lines, each with a kind
and the number of bytes up to its end (`ends`), none of them empty, and it lets any number of
bytes through at a time. The synchronous
transport reads line by line, with a timeout for every wait; the asynchronous one
decodes segments cut anywhere, under one deadline for all of it (`docs/provider-resilience.md`
74-75). The consumer pulls, closes or cancels. `net.sent` says if request bytes have left,
`time` what is left of the timeout in force and what was spent in all.
What a payload means is a field of its line: a chunk, `[DONE]`, a foreign object, nonsense.
`StreamOf` says what an answer means without a decoder: the events between blank lines,
up to the first line that finishes or breaks the stream. Where the two transports
differ, so does it: the synchronous one takes a final `\r` for a blank line, so a blank counts as
soon as its first byte is there (`Counted`).

### Routing

Operators for what the code computes (validation of catalogs, profiles and rules,
eligibility with its reasons, normalised scores, the Pareto front, rule bonuses, the choice
by five policies) and a small machine on top: a router is configured, then `route_many`
takes a batch request by request and stops at the first error if `fail_fast` is set.
A quotient of the code is a product with the denominators of the others, so that
comparisons are exact; the rounding of floats is not modelled. A learned model is the scores
it gives; which models are trained matters and is part of it. `Orders` has the sorts and sums
that `Routing` and `Experiments` use: the element at a place of a sorted list is the one with
as many others ahead of it as there are places before.

### LearnedState (`cli.py`, `bandit.py`, `feedback.py`, `profiles.py`, `simulator.py`)

Processes that run `route`, `feedback`, `simulate --learn`, `report` or a profile upsert,
with `--state`, `--feedback-log` and `--learn` given. A state is the set of observations
it has learned from, which is all that can be told of it without the linear algebra; the
log is a sequence of lines. Of a line nothing, a part, all but the newline (`unended`), or all
may be written when the disk is full or the process dies; what the next writer appends to a
line without its newline becomes one unreadable line with it. A save is `AtomicBundle` for one file,
reduced to the steps another process can see or disturb: look, move away, install.
`overtaken`, `orphaned` and `told` are history variables.

### Experiments and ExperimentFiles

`Experiments` has no variables: loading of traces, group-disjoint splits, threshold
calibration, fit and evaluation of the similarity router, what the factorization is fitted to,
sweeps with their oracle, contamination hits and exclusions, the paired score audit.
`ExperimentFiles` runs the commands on shared files: each reads its inputs one at a
time while their owner edits them and other commands write theirs; a split writes four
files one after the other; a sweep looks for its result in the cache and leaves it
there; exclusions are created only where no file is. `MaxUpsets` bounds edits, crashes, torn
writes and spoiled cache entries. `ManifestDescribes` says that the partitions a manifest
names are the split of the source it names, and that they are in the files as long as
no other split has written since (`current`).

## 3. Checking

### 3.1 Runs

| Run | Question | Properties | Distinct states |
|---|---|---|---|
| `calls_sync` | Do threads return their admissions, also when they are unwound, and does everything end? | type, `HeldWhileInside`, `ReportedProbesSettle`, `CallsFinish` | 462,277 |
| `calls_async` | Are retries safe and in time, also when tasks are cancelled, and does the breaker under them keep its promise? | `OneProbe`, `ProbeHasOwner`, `NoDuplicateGeneration`, `SleepsWithinDeadline`, refinement of `HalfOpen` | 176,655 |
| `scores` | What survives crashes, power losses and concurrent starts, and does a run somebody comes back to get to its end? | `DuplicatesBounded`, `SendIsAnnounced`, `AnswersStay`, `EventuallyComplete` | 116,945 |
| `scores_resend` | Is a resend always permitted in its own invocation? | `NoUnauthorisedResend`, violated | |
| `lock` | Is at most one process inside? | `OneLockFile`, refinement of `Mutex` | 155,604 |
| `bundle` | All or nothing? | `AllOrNothing`, `NothingLost` | 1,474 |
| `server` | Is capacity conserved, framing sound, everybody served? | `CapacityConserved`, `ReusedClean`, `WellFramed`, `NobodyWaitsForever`, `RequestsEnd` | 94,086 |
| `routing` | Do only admissible models influence a decision, and is everything accounted for? | `OnlyTheListedMatter`, `EveryModelAccountedFor`, `BatchAccounts` | 2,422 |
| `learned` | Do state, log and reports of success agree, and what forgets? | `LearnedIsLogged`, `ToldIsLogged`, `OnlyOverlapForgets` | 1,167,741 |
| `learned_emptied` | Is a file left whole when saves overlap? | `NeverLeftEmpty`, violated | |
| `transport` | Is what is delivered the stream, is a certificate true, is everything in time? | `DeliveredIsTheStream`, `RetrySafeIsUnsent`, `NothingAfterDeadline`, `WaitsEnd` | 172,840 |
| `experiments` | Do results belong to their inputs, whatever happens to the files? | `SplitAlwaysFits`, `ManifestDescribes`, `HeldOutIsUnseen`, `ReportsAreOfTheirInputs`, `SweepOraclesAreOptimal`, `AuditOraclesAreOptimal`, `SimilarityCountsAreExact`, `ExclusionsOfOneSnapshot` | 157,242 |

Every property of a passing run comes with a mutant: an operator of the module that
replaces a definition by the way it would look with a plausible bug ("Faulty:" in its
comment), under which TLC finds the property violated. No specification uses them.

The type invariant of the registries and the breaker under them is part of a run; those of score runs,
the lock, the learned state, the server and the experiments are theorems (section 4).

`bundle`, `routing`, `transport` and `experiments` end by design (one bundle, one batch, one
exchange, a number of commands), so they do not check for deadlock; the others do.

### 3.2 Bounds, and why they are enough

* `calls_sync`: one model, two threads, two attempts, a threshold of two, a recovery of one,
  timeout two, time up to four, one chunk. A circuit can be opened by one call, probed by
  another, and reopen. Threads may be unwound at every step, past `finish` too; a circuit whose
  probe was lost refuses every later call, and those end as well.
* `calls_async`: three attempts, backoff one then two, deadline four, time up to five. The
  second backoff is capped, and the deadline falls before, at and after the end of a backoff.
* `ExchangeFailures` is one counted and one neutral failure: the code treats all counted
  failures alike, except for the retry test, which an attempt that was sent fails before.
* `scores`: two processes, two calls, two manifests, three faults. With three faults an
  answer is lost, a resend crashes, and power fails. `scores_resend` needs one process, two
  faults and an invocation that may make one call only.
* `lock`: three processes and three inode numbers: one inside, one in the middle of its
  inspections, one replacing the file; a number can return while it is remembered.
* `bundle`: one writer (what two do to each other is the subject of `learned`), three files, each there or not, and two faults: first, middle and last of
  every loop, a fault and another one in its rollback.
* `server`: three connections and a capacity of one: one served, one being turned away
  and one waiting behind it. Two faults: a chunk times out and so does the error event.
* `routing`: catalogs of up to four models with a tie, a dominated model with a bonus, a
  local one, one with an unknown quality, and catalogs the constructor must refuse; four
  sets of preferences, three of rules, three batches of up to four requests and one with a request
  whose constructor raises, all five
  policies, learned scores with ties and untrained models.
* `learned`: two processes, two observations, one profile, a simulation of up to two
  requests, one fault. Two observations tell a lost update from a late one; two processes
  overlap at any step, and each starts commands again and again. `learned_emptied` needs
  no fault at all.
* `transport`: answers with good events, events over the limit (one by a single byte, where the
  final `\r` makes the difference), events after the end, broken lines, foreign events and a
  long stream, completions within and over the limit, five
  statuses, a timeout of two ticks; the upstream breaks off or falls silent after any byte.
* `experiments`: two processes, two commands, one upset, up to six records. `MCStudies` varies
  the size of groups, gains, scores with ties, and embeddings near and far; with data
  from there one command is run alone, as nothing is to be interleaved. The commands that
  interleave work on one source, its edited successor and partitions of an earlier split.

All counters are bounded in guards (`MaxTime`, `MaxFaults`, `MaxUpsets`, `MaxChunks`,
`MaxCommands`, `MaxRuns`, `MaxAttempts` of the policy). In `CircuitBreaker` the clock stands
still at `MaxTime` and epochs need no bound, because a circuit that opens at the horizon is
not probed again. `learned` and `experiments` use symmetry in processes (and `learned` in
observations), over which all their properties quantify; the runs that check liveness or
refinement use none.

### 3.3 Fairness

* `ProviderCalls`: weak fairness for each call's own steps and for time: threads and tasks
  are scheduled, and each transport operation ends, as the code gives it a timeout. Weak
  fairness for consumers: a generator that is paused is continued, closed, or dropped
  and then closed by the interpreter. A consumer that holds on to a paused stream for
  ever keeps its admission for ever; that is a hazard the code leaves to its callers.
* `Transport`: weak fairness for `Ready`, what the transport can do by itself, and for time.
  The upstream and the consumer owe nothing: `WaitsEnd` holds against silence. A response that
  is ready to be read within the timeout need not be; the timeout ends the wait.
* `PublicScores`: every started process is scheduled. For each run, strong fairness that
  somebody starts it with permission to resend and calls to spend while nobody is inside, and
  that this invocation is not always second at the lock. Strong fairness that requests are
  sent and answered: a provider that is asked again and again answers. Faults are bounded
  by `MaxFaults`: nothing gets done under endless crashes.
* `HttpServer`: weak fairness for what workers do without their clients, timeouts among
  it. Clients are under no obligation. Strong fairness that a connection in the backlog is
  accepted when the accepting thread is free again and again: the backlog is a queue.

## 4. Proofs

| Module | Theorem | States |
|---|---|---|
| `Requests_proofs` | `RoutingInvariant`, `BatchesAccount` | `RoutingSpec => []RoutingInv`, and `BatchAccounts` from it |
| | `ModelsAccountedFor` | `EveryModelAccountedFor` |
| | `ListedModelsDecide` | `OnlyTheListedMatter` |
| | `TypeCorrect` | `BreakerSpec => []BreakerTypeOK` |
| | `Invariant`, `AtMostOneProbe`, `LateBranchIsDead` | the inductive invariant, and `OneProbe` and `TrustedMeansClosed` from it |
| | `ProbeOwned` | `ProbeHasOwner`, if no caller loses an admission |
| | `OnlyProbeMoves` | `OnlyProbeMovesOpenCircuit` |
| | `ProbeEnds` | `ProbeEndSettles`, if no caller loses an admission: what the breaker itself guarantees |
| | `Implements` | `BreakerSpec => AbstractSpec`: the breaker implements `HalfOpen` |
| | `CallsTypeCorrect` | `Spec => []TypeOK` of the registries |
| | `NeverSentTwice` | `NoDuplicateGeneration` |
| | `AdmissionsReturned` | `HeldWhileInside` |
| | `CallersSettleProbes` | `ReportedProbesSettle`, for both registries, threads that are unwound included |
| | `TasksOwnTheirProbes` | `ProbeHasOwner` for the asynchronous registry, cancellation included |
| `CheckpointLock_proofs` | `LockTypeCorrect` | `Spec => []TypeOK` |
| | `AllMeetAtOneFile` | `OneLockFile`: contenders lock the inode the path leads to |
| | `OneAtATime` | at most one process is past `_locked` |
| | `ImplementsMutex` | `MutexSpec`: the protocol implements `Mutex` |
| `PublicScores_proofs` | `ScoresTypeCorrect` | `Spec => []TypeOK` |
| | `PaidOncePerPermission` | `DuplicatesBounded` |
| | `AnnouncedBeforeSent` | `SendIsAnnounced` |
| | `AnswersNeverLost` | `AnswersStay` |
| `LearnedState_proofs` | `StateTypeCorrect` | `Spec => []StateTypeOK` |
| | `SavedIsLogged` | `LearnedIsLogged` |
| | `ReportedIsLogged` | `ToldIsLogged`, for logs that can be read and those that cannot |
| | `SaveKeepsWhatItLoaded` | `OnlyOverlapForgets` |
| `HttpServer_proofs` | `CapacityInvariant`, `NoPermitIsLost` | the inductive invariant, and `CapacityConserved` from it |
| | `ServerTypeCorrect`, `FramingInvariant` | the shape of the state, and what is on a wire at each place of its handler |
| | `ConnectionsReusedClean` | `ReusedClean` |
| | `AnswersWellFramed` | `WellFramed`, and a connection on which a write was too late is never used again |
| `Transport_proofs` | `RetryIsSafe` | `RetrySafeIsUnsent` |
| | `DeadlineHolds` | `NothingAfterDeadline` |
| | `StreamIsDelivered` | `DeliveredIsTheStream` |
| `AtomicBundle_proofs` | `BundleInvariant` | what each place of the writer says of each file, for a single writer |
| | `BundlesAllOrNothing` | `AllOrNothing`, for a single writer |
| | `NothingIsLost` | `NothingLost`, for a single writer |
| `ExperimentFiles_proofs` | `ShapeInvariant`, `ExperimentsTypeCorrect` | the shape of files and commands, and `ExperimentsTypeOK` |
| | `ResultsInvariant`, `HeldOutStaysUnseen` | what a result says of what was read, and `HeldOutIsUnseen` |
| | `ExclusionsFromOneSnapshot` | `ExclusionsOfOneSnapshot` |
| | `CacheInvariant`, `ReportsOfTheirInputs` | what may be in the cache, and `ReportsAreOfTheirInputs` |
| | `ManifestInvariant`, `ManifestsDescribe` | what a manifest says of the files, and `ManifestDescribes` |
| | `SplitInvariant`, `SplitsFit` | what a split has in hand, and `SplitAlwaysFits` |
| | `ListInvariant` | trace files and examples are lists, on disk and in every hand |
| | `SweepsAreSound`, `SweepOraclesOptimal` | a finished sweep has a report, and `SweepOraclesAreOptimal` |
| | `AuditOraclesOptimal` | `AuditOraclesAreOptimal` |
| | `SimilarityCountsExact` | `SimilarityCountsAreExact` |

They hold for every set of models, calls, processes, inodes, connections, observations and
manifests, every threshold, recovery time, number of attempts, capacity, timeout and number
of faults, every size of a bundle, every answer of an upstream and every content of traces,
catalogs and scores, and runs of any length. They rest on the assumptions that the modules state
next to their constants (a threshold and a recovery time of at least one, at most five
attempts, as the constructor of the policy enforces, special values that differ from
ordinary ones), which TLC evaluates in each run. Those about data are what readers of it
establish before anything else happens. `WiresAssumption` (no line of an answer is empty) holds
because a line has at least its line end. In `ExperimentFiles`, `VectorsAssumption` says that an
embedding set that loads has a vector and identifiers of which none is twice, as `_embedding_set` of
`contamination.py` insists, and that similarities are fractions of `Unit`;
in `Routing`, `InputsAssumption` says that catalogs, rules and batches are lists, quality tables
finite mappings, identifiers ordered and learned scores numbers;
`FilesAssumption` says which files have an owner who edits them, and that none of the data
sets a run starts from has a manifest in it, which only a split writes; `SourcesAssumption` says that a
source is a sequence of lines, whose groups all have a digest if it loads, and that the error of a
split is no split itself; `ListsAssumption` says that what the owner or an earlier split left in a
trace file, and the examples, are finite lists, as a file that parses is; `FractionsAssumption`, `CutoffAssumption` and `BoundsAssumption`
say that fractions, thresholds and bounds are numbers.

**Routing.** `RoutingInv` says that the configuration of the router is one its constructor
accepts, and that each request passed has an error, or a decision at its rank among those that have
none; `BatchAccounts` is counting (`Ranks`). The other two properties are about a single
decision. The front covers the eligible models (`FrontCovers`): among the models that dominate
one off the front, one with the fewest above itself has none, as `Dominates` is transitive.
That the decision lists every ranked model once (`AnswerLists`) needs its totals to be
numbers, hence the lemmas on costs, utilities and bonuses (`TotalsTyped`).
For `OnlyTheListedMatter` the router is run again on the models its decision rests on, and
everything it computes on the way is a function of the set of models it is computed from:
the front of the front is the front, the trained models of the eligible are the same in
any order, and so are minima, maxima, bonuses and the ranking (`RelistedRoutesAlike`).

**The breaker.** `OneProbe` alone is not inductive: nothing in it says that a probe in
flight is flagged, or that it belongs to the present epoch. `BreakerInv` adds
`ProbeIsLive` (a held probe is current, its circuit open and flagged), `TrustedMeansClosed`,
`ClosedMeansHealthy` and `EpochsGrow` (no admission is ahead of its circuit). The last is
what makes an opening, which raises the epoch by one, end all admissions of its model
at once. The proof of a step goes by what becomes of the admission: released without
effect, opening, closing or counting, or newly issued; each is one lemma.
`OnlyProbeMoves` needs one more invariant: a probe is only held once the recovery time
has passed.

**The refinement.** The mapping sends a model to the sets of calls with current
ordinary and probing admissions. The lemmas show what a release and an opening do to
these sets; every step of the breaker is then a step of `HalfOpen` or leaves it alone,
the late report of a call being the case where it stutters.

**The callers.** Each step of `ProviderCalls` performs at most one operation of the breaker
on its own call's admission (`StepOfBreaker`), so what was proved of the breaker holds under
the registries too (`CallsUseBreaker`, a lemma: it is how the module is written). What it does
not give is that admissions come back. `CallersSettleProbes` follows every way out of an attempt: a
probe ends at `Settle` or `CleanUp`, which the breaker turns into a closed circuit or a new recovery
period, or in the unwinding of a thread that completes, which the property leaves out.
`TasksOwnTheirProbes` says that the asynchronous registry has no such gap: a cancelled task passes
through `closing` or `settling`, so that a circuit being probed has a task that will report. `NoDuplicateGeneration` needs `NothingSentYet`: a call before its
attempt, and a failed attempt that is certified as safe, has sent nothing. It is the
certificate of the transport, carried from one attempt to the next; that the transport's
certificate is true is `RetryIsSafe`.

**The lock.** `OneLockFile` is not inductive: a maker that fails unlinks whatever the path
leads to, and nothing in it says that nobody else has accepted that file. `LockInv` adds
`MakerAlone` (a file being made or undone is empty, has one maker, and is the one the path
leads to), so the inspections of everybody else refuse it, and `InsideLocked` (whoever is
inside has the flock of the file it has open). Mutual exclusion follows: two processes
inside would own the flock of the same inode. The refinement maps `Lock` to `Enter`,
`Unlock` and the death of a process inside to `Leave`, and all else to a stutter. The
assumption that matters is the guard of `Remove` (section 2).

**Score runs.** `DuplicatesBounded` counts requests, which no step looks at. The invariant
ties the counts to what the file may say: everything it may hold after a power loss is
sound (a request whose answer is recorded, or that is announced there, is accounted for;
one that is neither has not left), only the process inside the lock is past
locking, and what it has in hand at each place agrees with the file, or is one step ahead of
it while a write is under way. `SendIsAnnounced` and `AnswersStay` are then read off the
places from which requests leave and files are replaced.

**Learned state.** Four invariants. `LoggedInv`: what a process has in
memory is logged, except the observation of a feedback command that has learned but not
yet appended. `OnceInv`: no two processes have the same observation in hand, one
that is about to be written is not in the log, and what was reported is, as long as the log can be read.
`LossInv`: whatever the log has lost is covered by a finite set of observations, one for each fault so far,
less one while a line waits without its newline; that line was reported by nobody. It is the part of
`ToldIsLogged` that says something of an unreadable log. `OverlapInv`: as
long as nobody else saved since it loaded, a process has all of the file in memory, and finds
nothing where it installs. Each is preserved by steps that change one process and possibly
the file; the lemmas state what such a step must satisfy.

**The server.** `CapacityConserved` relates the semaphore to the places of all connections.
`CapacityInv` adds that the set of served connections is finite, so that one more of
them is one permit less; it does not need the set of connections to be finite. The work is
in showing that no step within an answer leads out of `Working`.
`ReusedClean` and `WellFramed` say something of a wire and nothing of how it came about. For
them, `FramingInv` says for each place of a handler what is on its wire (`WireFits`: nothing
where a request is read and decided on, its first parts while it is being answered, a complete answer
where the next request is awaited) and how the handler's fields go with the place
(`HandlerFits`: a POST whose body is left unread, or an exception behind it, ends in a connection that
closes; of a GET, or a POST without a readable length, nothing is claimed, as nothing could be).
Once a write has been too late, only the second is claimed, and it leads to the closing of the
connection. A step is about one connection (`LegalStep`), so that each is one case of what
its place allows.

**Bundles.** `AllOrNothing` speaks of calls that have ended. `BundleInv` says of every place of
the writer, and of every file, what the loop there has done to it if it is done with it, and
what it will find otherwise. The rollback can restore a file that was moved if its backup has the
old content, and one that was not moved if it is in place (`CanRestore`); one of the two
holds wherever a call may raise, the guess of `Suspect` included. A rollback
that meets an error itself says so in `errors`, and both properties make an exception of it. The
theorems have the hypothesis `SoleWriter`, that there is at most one writer, as in the run: with two
there is no such invariant, as `learned_emptied` shows. The loops go by the first or the last
file that is left, whose existence is `LeastNatural`.

**Experiments.** Six invariants, each of which uses those before it. `Shape`: a process has
read as many files as it has come to, and nothing unreadable. `ResultsInv`: a result is
what its command computes of what it read. From it `HeldOutIsUnseen` follows by a lemma for each
command: whatever is computed of parts that share a record or a group is an error,
whoever wrote the parts. `CacheInv`: an entry is damaged or is the report of its key, and so is what
a sweep holds between looking an entry up and replacing it; therefore a hit is as good as a fresh
computation. `ManifestInv`: what a split has written so far is what is in the files, unless
another split wrote beside it (`disturbed`), so that the manifest it writes last describes them.
`SplitInv`: what a split has read was given as a source, it holds nothing before it has computed
or after it has failed, and one that nobody wrote beside was refused only because what it read
cannot be split, as all its checks of files find what it wrote. `ListInv`: whatever was split, cut
short or edited, trace files and examples are finite lists, so that there is something to add up.

**Splits.** What remains of `SplitAlwaysFits` is about `split_traces` alone (`SplitFits`). That
the sort lists every group once is a matter of ranks: of a strict total order, elements have
different numbers of others ahead of them, and all numbers occur (`OrderedLists`). Groups are then assigned
one after the other, by a recursive function; that each step follows from the one before
(`AssignFollows`), and that after each there are no more empty partitions than groups left
(`PlaceKeepsRoom`), are proved by the least step at which they would fail. With no group left none is empty (`AssignIsOnto`).
Nothing of this depends on the squared errors but that they are integers, so that there is
a least one (`PreferredIsOpen`).

**Sums and counts.** The three properties about numbers compare an algorithm with what it is an
algorithm for: a greedy oracle with the best of all choices (`BestOf`), and running counts with
counts made for each threshold afresh. `SumOf` is a recursive function; that it has the partial sums
one expects is its equation (`SumRuns`), and all else, that sums add up, grow with their
terms and only see the places that are not 0, is induction along two or three of them at once
(`SumAdds`, `SumGrows`, `SumOverLevel`). The largest so many gains are those at the first places of a list by
rank (`LargestPlaces`), and there is a level such that all gains taken are at or above it, and
all others at or below: another choice of as many places has no larger sum
(`LargestSumIsLargest`). A sweep may take fewer calls and clips losses at 0, so its oracle is the best of
at most as many (`BestOfAtMost`); an audit takes exactly as many, losses included (`BestOfExactly`).

Running counts are recursive functions over the thresholds, too. For each there is an
explicit candidate, the counts of each threshold by itself; it satisfies the equation of the recursion
(`NextPointIs`, `TakeUpIs`), and there is one solution only, by induction (`CountUp`). That it
satisfies the equation is where ties would bite: the scores that occur, listed downwards, leave nothing between
neighbours (`ReachedMore`), and the groups of the similarity router taken so far are a first part of the
list (`PrefixOfPlaces`), whatever the thresholds that are no similarity themselves, 0 and `Unit`,
so that each record is counted at the threshold that first reaches its group, and once (`CountsOfNew`).

**The transport.** The invariant says that request bytes have left only past connecting, that
a result carries the certificate only if they have not, and that in an asynchronous
exchange what is left of the timeout and what was spent add up to it, which is what makes
the deadline one for all waits.

**The stream.** `DeliveredIsTheStream` compares a decoder that remembers a few lines and counts
with the meaning of a whole answer. `StreamInv` says that it remembers the right ones: its data
lines are those since the last blank line, its count of bytes is those taken less those up to that
line (`Remembers`); of the lines so far none has broken or finished the stream (`Clean`), or the
last one has and no other (`Closing`); and what was delivered are the chunks among them. Each
step takes lines one by one, and `MeaningIs` says that what the code makes of a line is what the line
is in the answer. For the asynchronous decoder it does not matter where segments are cut, as
the lines it takes never pass the bytes it was fed. Events are numbered by their rank among the
lines (`InOrder`), not gathered by a fold, so that what the proof needs of them
(`SequenceOf`, `Appended`, `Prefix`) are counts of finite sets. That an answer as the code
understands it depends on the transport in one point, the final `\r`, came out of this proof:
with one meaning for both it fails for an event that is too long by just that byte.

**Not proved.** Liveness (`CallsFinish`, `EventuallyComplete`, `NobodyWaitsForever`,
`RequestsEnd`, `WaitsEnd`) is beyond the prover's means and only model-checked. So is
`SleepsWithinDeadline`, which is close to the guard of one action. Every other
property of a passing run is stated by a theorem. The prover cannot instantiate a theorem about an
operator that is a parameter, so folds over data are out of its reach. Induction can be had
where the fact to be shown is first-order, from the least counterexample (`LeastNatural`, `CountUp`);
`Transport`, `Routing` and `Experiments` are written with ranks and recursive functions in place of
folds for that reason. What is a definition and not a theorem: the order of the alternatives of a
decision (`Ranked`), and the threshold that a calibration selects (`Best`, `Preference`), as
these are the least by keys that a property could only repeat.

## 5. Disagreements met

Two are violations that a run shows; `PROJECT.json` quotes the texts they contradict.

1. `scores_resend`: a resend that could not connect clears the pending marker, although
   the marker stood for an earlier, ambiguous request (`public_scores.py` 591). The
   next invocation sends the request again without permission. How often a request
   is sent is still bounded by the permissions that were given (`DuplicatesBounded`).
2. `learned_emptied`: of two overlapping saves of one file, the second, finding the destination
   moved away by the first, takes the move for its own and the empty placeholder for a
   backup (`persistence.py` 136), and moves that over what the first has installed. The
   file is left empty, and every later command fails to load it.

Others can be seen in the models without a run of their own.

3. `complete` of the synchronous registry settles its admission only on a normal return
   and on `ProviderError` (`resilience.py` 221). Any other exception, such as a
   `KeyboardInterrupt` or one raised by the validation that `providers.py` 149 calls outside
   its try statement, leaves the probe flag set and the model refused for good, where
   `docs/provider-resilience.md` 27 says that an abandoned probe reopens the circuit. In `ProviderCalls`:
   `Unwind` takes `Drop`, as `MayDrop` is TRUE, and `ProbeEndSettles` does not hold.
4. `do_GET` neither reads a body nor closes the connection (`server.py` 132-160),
   and a `Content-Length` that `int()` refuses (389) is answered with 422 (186) and the connection
   kept. Either way the body is still there when the next request is read, what the comment at
   331-332 says is avoided for a POST that is refused. In `HttpServer`: `NothingLeftUnread` does not hold.
5. If the rollback of a bundle cannot move a backup back, the clean-up that follows removes
   it (`persistence.py` 159), and with it the only copy of the old content: `Recoverable`
   in `AtomicBundle` does not hold.
6. A write that times out after the status line raises `TimeoutError` through
   `_sse_response` or `_json_response` into `do_POST`, which answers with 408 inside the
   answer that has begun (`server.py` 189): `OneStatusLine` in `HttpServer` does not hold.
7. A process that dies between creating the lock file and writing its byte leaves an
   empty file, which every later process rejects (`public_scores.py` 310), though the
   docstring at 302 calls a leftover lock file harmless. In `CheckpointLock`: `Crash` at
   `initializing`, then `Inspect`.
8. Between moving the old file away and moving the new one in there is no file at all
   (`persistence.py` 133), also after a crash. A command that loads then starts from scratch
   (`cli.py` 149), and its save makes that last. In `LearnedState`: `orphaned`.

What follows are no disagreements but consequences of the code a reader of the models
should know.

* The first attempt of a stream gets the whole timeout when the consumer first pulls, which
  may be later than the deadline that its creation set (`resilience.py` 244).
* A synchronous stream makes its request before the first pull, and a generator that is
  dropped without a pull leaves its connection to the garbage collector. The
  synchronous reader treats a final `\r` without `\n` as a blank line, the asynchronous decoder
  does not; the latter counts a whole segment against `max_stream_bytes`, with what
  follows `[DONE]` in it.
* `needs_tools` admits a model that has the flag but not the capability "tools", which the
  same request with that capability spelled out would refuse. Task weights whose sum is
  zero pass the validation of a profile, and every route for that user then raises. A learned
  router leaves eligible models it was not trained on out of the alternatives.
* Overlapping commands lose updates, and `route` is one of them, as it saves what it loaded
  (`cli.py` 200). A torn line makes every later append and report fail; a command that had checked
  the log before it was torn writes behind it, and reports a success that is lost. A feedback command
  that is repeated after a crash is a new event with a new identifier. Rolling back a failed
  installation removes a file that somebody else has installed meanwhile (`persistence.py` 154).
* A split that dies leaves partitions the manifest does not describe, and one that is torn at
  the end of a line loads as a shorter one; no consumer of partitions reads the manifest. A
  cache entry that cannot be read fails the sweep until it is refreshed, and the key of an
  entry has no version of the program in it.

## 6. Not modelled, and what comes next

Numerical learning (ridge regression, Thompson sampling, matrix factorization, TF-IDF) is
floating point: what could be said of integers would not be said of the code. It appears
by what it is given and what is made of its scores. So does `features.py`: from the
counts of words on, and not the lists that say what is counted. Dataset preparation
converts one file format into another in one pass, and its content is wording; live
profiles measure a running provider; `benchmark.py` and `reporting.py` add up and lay out;
JSON, configuration and errors are what the other modules assume of their inputs. Sums per domain
and latencies are left out of reports, as they are accumulated like what is modelled. On
Windows the lock has another branch, which is not modelled.

Some steps are coarser than the code. A removal that raises during the clean-up of a bundle
has had no effect (`CleanRaises`). The certificate that nothing was sent is read off the place at
which an exchange failed (`ExchangeFails`), where `async_http.py` keeps a flag (231). Embedding sets of
different models or dimensions, and a comparison of too many pairs, are refused by the code before
they are compared (`contamination.py` 172-180) and do not occur (`Planned`). The clock is read where
a backoff begins (`BackOff`), and a chunk is on the wire as a whole or not at all (`Written`).

Next:

1. A composition of `Transport` with `ProviderCalls`, so that the outcomes the registries see
   are those of an exchange, where now each is checked for itself.
