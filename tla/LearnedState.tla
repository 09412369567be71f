----------------------------- MODULE LearnedState -----------------------------
(***************************************************************************)
(* The life of what routers learn: processes that run the commands route,  *)
(* feedback, simulate --learn and report of cli.py on one bandit state and *)
(* one feedback log, and processes that upsert a profile (profiles.py).    *)
(* Nothing but the file system synchronises them: the locks of FeedbackLog *)
(* and AtomicJsonStore belong to one object of one process.                *)
(*                                                                         *)
(* A state is the set of observations it has learned from; what the linear *)
(* algebra makes of them is not modelled.  A save is AtomicBundle for one  *)
(* file, reduced to the steps that others can see or disturb: the old file *)
(* is looked for and moved away, the new one moved in.                     *)
(***************************************************************************)
EXTENDS Naturals, FiniteSets, Sequences, SequencesExt

CONSTANTS
    Procs,      \* processes
    Events,     \* observations; each command makes fresh ones, as event ids are random
    Profiles,   \* users whose profile is upserted
    MaxFaults,  \* bound on crashes and on failing writes
    MaxRuns,    \* bound on the requests of one simulation
    Absent,     \* no such file
    Empty,      \* a file without content, which cannot be loaded
    Torn,       \* a line of the log that cannot be parsed
    Nothing     \* no value

Commands == {"route", "feedback", "simulate", "report", "upsert"}

ASSUME StateAssumption ==
    /\ MaxFaults \in Nat /\ MaxRuns \in Nat
    /\ \A content \in SUBSET (Events \cup Profiles) : content \notin {Absent, Empty}
    /\ Torn \notin Events /\ Nothing \notin Events \cup Profiles \cup Commands

Files == {"state", "profiles"}
File(command) == IF command = "upsert" THEN "profiles" ELSE "state"

VARIABLES
    disk,       \* the content of each file, or Absent or Empty
    log,        \* the lines of the feedback log
    unended,    \* does the last of them lack its newline?
    proc,       \* per process: its command, where it is, and its locals
    faults,     \* faults so far
    overtaken,  \* history: processes that loaded before somebody else's latest save
    orphaned,   \* history: files a crash left moved away
    told        \* history: observations whose command reported success

vars == <<disk, log, unended, proc, faults, overtaken, orphaned, told>>

Idle == [command |-> Nothing, pc |-> "idle", memory |-> {}, event |-> Nothing, backup |-> Absent,
         left |-> 0]

Init ==
    /\ disk \in [Files -> {Absent, {}}]
    /\ log = <<>> /\ unended = FALSE
    /\ proc = [p \in Procs |-> Idle]
    /\ faults = 0 /\ overtaken = {} /\ orphaned = {} /\ told = {}

At(p, pc) == proc[p].pc = pc
Go(p, pc) == proc' = [proc EXCEPT ![p].pc = pc]
Exit(p) == proc' = [proc EXCEPT ![p] = Idle]

\* Observations that were not made yet.
Fresh == Events \ ((UNION {{proc[p].event} \cup proc[p].memory : p \in Procs})
                   \cup ToSet(log) \cup told \cup (UNION ({disk[f] : f \in Files} \ {Absent, Empty})))

\* FeedbackLog.iter_events raises on a line it cannot parse and on a second line with an id.
Readable == Torn \notin ToSet(log) /\ IsInjective(log)

-----------------------------------------------------------------------------
(* Loading *)

Subjects(c) == CASE c = "feedback" -> Fresh [] c = "upsert" -> Profiles [] OTHER -> {Nothing}

Start(p) ==
    /\ At(p, "idle")
    /\ \E c \in Commands : \E e \in Subjects(c), n \in IF c = "simulate" THEN 1..MaxRuns ELSE {0} :
          proc' = [proc EXCEPT ![p] = [Idle EXCEPT !.command = c, !.pc = "loading", !.event = e, !.left = n]]
    /\ UNCHANGED <<disk, log, unended, faults, overtaken, orphaned, told>>

\* _build_router starts a fresh policy when there is no state, upsert an empty store;
\* feedback insists on one; a file without content is refused by all.  The command then goes
\* on with what it has in memory.
Load(p) ==
    LET f == File(proc[p].command)
        content == IF disk[f] = Absent THEN {} ELSE disk[f]
    IN /\ At(p, "loading") /\ proc[p].command # "report"
       /\ IF disk[f] = Empty \/ (proc[p].command = "feedback" /\ disk[f] = Absent)
          THEN Exit(p)
          ELSE proc' = [proc EXCEPT ![p].memory = content,
                            ![p].pc = CASE proc[p].command = "feedback" -> "learning"
                                        [] proc[p].command = "upsert" -> "changing"
                                        [] OTHER -> "routing"]
       /\ overtaken' = overtaken \ {p}
       /\ UNCHANGED <<disk, log, unended, faults, orphaned, told>>

\* The state vanishes between exists() and load(): the command fails.
LoadVanishes(p) ==
    /\ At(p, "loading") /\ proc[p].command \in {"route", "simulate"}
    /\ disk["state"] = Absent
    /\ \E q \in Procs : q # p /\ At(q, "installing") /\ File(proc[q].command) = "state"
    /\ Exit(p)
    /\ UNCHANGED <<disk, log, unended, faults, overtaken, orphaned, told>>

-----------------------------------------------------------------------------
(* The commands *)

\* router.route, or NoEligibleModelError: route gives up, a simulation notes the failure.
Routed(p) ==
    /\ At(p, "routing")
    /\ IF proc[p].command = "route"
       THEN Go(p, "saving")
       ELSE \E e \in Fresh : proc' = [proc EXCEPT ![p].pc = "appending", ![p].event = e,
                                          ![p].left = @ - 1]
    /\ UNCHANGED <<disk, log, unended, faults, overtaken, orphaned, told>>

NotRouted(p) ==
    /\ At(p, "routing")
    /\ IF proc[p].command = "route"
       THEN Exit(p)
       ELSE proc' = [proc EXCEPT ![p].pc = "next", ![p].left = @ - 1]
    /\ UNCHANGED <<disk, log, unended, faults, overtaken, orphaned, told>>

\* Faulty: the state is saved before the event is logged.
LearnAndSave(p) ==
    /\ At(p, "learning")
    /\ proc' = [proc EXCEPT ![p].memory = @ \cup {proc[p].event}, ![p].pc = "saving"]
    /\ UNCHANGED <<disk, log, unended, faults, overtaken, orphaned, told>>

\* feedback updates the policy in memory before it appends to the log.
Learn(p) ==
    /\ At(p, "learning")
    /\ proc' = [proc EXCEPT ![p].memory = @ \cup {proc[p].event}, ![p].pc = "appending"]
    /\ UNCHANGED <<disk, log, unended, faults, overtaken, orphaned, told>>

Change(p) ==
    /\ At(p, "changing")
    /\ proc' = [proc EXCEPT ![p].memory = @ \cup {proc[p].event}, ![p].pc = "saving"]
    /\ UNCHANGED <<disk, log, unended, faults, overtaken, orphaned, told>>

\* An exception ends a feedback; a simulation catches it and goes on to its next request.
AppendRaises(p) ==
    IF proc[p].command = "feedback"
    THEN Exit(p)
    ELSE proc' = [proc EXCEPT ![p].pc = "next", ![p].event = Nothing]

\* FeedbackLog.append first reads the whole log, and refuses what it cannot read.
CheckLog(p) ==
    /\ At(p, "appending")
    /\ IF Readable /\ proc[p].event \notin ToSet(log) THEN Go(p, "writing") ELSE AppendRaises(p)
    /\ UNCHANGED <<disk, log, unended, faults, overtaken, orphaned, told>>

\* Faulty: the log is opened anew.
LineAlone(lines, e) == <<e>>
\* What is written behind a line without its newline becomes part of that line, and nobody can
\* read the two.
LineAfter(lines, e) ==
    IF unended THEN [lines EXCEPT ![Len(lines)] = Torn] ELSE Append(lines, e)

AppendLine(p) ==
    /\ At(p, "writing")
    /\ log' = LineAfter(log, proc[p].event)
    /\ unended' = FALSE
    /\ IF proc[p].command = "feedback"
       THEN Go(p, "saving")
       ELSE proc' = [proc EXCEPT ![p].pc = "next", ![p].memory = @ \cup {proc[p].event},
                         ![p].event = Nothing]
    /\ UNCHANGED <<disk, faults, overtaken, orphaned, told>>

Fault == faults < MaxFaults /\ faults' = faults + 1

\* Of a line nothing may be written, or some of it, or all but the newline, or all.
TearLine(e) ==
    \/ UNCHANGED <<log, unended>>
    \/ log' = LineAfter(log, Torn) /\ unended' = TRUE
    \/ log' = LineAfter(log, e) /\ unended' \in BOOLEAN

\* The disk is full, and the write or the close of the log raises.
AppendTears(p) ==
    /\ At(p, "writing") /\ Fault
    /\ TearLine(proc[p].event)
    /\ AppendRaises(p)
    /\ UNCHANGED <<disk, overtaken, orphaned, told>>

\* The loop of OfflineSimulator.run
NextRequest(p) ==
    /\ At(p, "next")
    /\ Go(p, IF proc[p].left > 0 THEN "routing" ELSE "saving")
    /\ UNCHANGED <<disk, log, unended, faults, overtaken, orphaned, told>>

\* FeedbackLog.summarize
Report(p) ==
    /\ At(p, "loading") /\ proc[p].command = "report"
    /\ Exit(p)
    /\ UNCHANGED <<disk, log, unended, faults, overtaken, orphaned, told>>

-----------------------------------------------------------------------------
(* Saving *)

\* Whether there is an old file: originally_present.
LookForOld(p) ==
    /\ At(p, "saving")
    /\ IF disk[File(proc[p].command)] # Absent
       THEN Go(p, "moving")
       ELSE proc' = [proc EXCEPT ![p].backup = Absent, ![p].pc = "installing"]
    /\ UNCHANGED <<disk, log, unended, faults, overtaken, orphaned, told>>

MoveAway(p) ==
    LET f == File(proc[p].command)
    IN /\ At(p, "moving") /\ disk[f] # Absent
       /\ proc' = [proc EXCEPT ![p].backup = disk[f], ![p].pc = "installing"]
       /\ disk' = [disk EXCEPT ![f] = Absent]
       /\ UNCHANGED <<log, unended, faults, overtaken, orphaned, told>>

\* Somebody else has moved the old file away: os.replace raises.
MoveVanishes(p) ==
    /\ At(p, "moving") /\ disk[File(proc[p].command)] = Absent
    /\ Go(p, "guessing")
    /\ UNCHANGED <<disk, log, unended, faults, overtaken, orphaned, told>>

\* As there is no file, and the empty placeholder of its backup exists, the move is taken to
\* have happened before it raised.
GuessMoved(p) ==
    /\ At(p, "guessing")
    /\ IF disk[File(proc[p].command)] = Absent THEN Go(p, "restoring") ELSE Exit(p)
    /\ UNCHANGED <<disk, log, unended, faults, overtaken, orphaned, told>>

\* The rollback moves the placeholder to where the file was.
RestorePlaceholder(p) ==
    /\ At(p, "restoring")
    /\ disk' = [disk EXCEPT ![File(proc[p].command)] = Empty]
    /\ Exit(p)
    /\ UNCHANGED <<log, unended, faults, overtaken, orphaned, told>>

\* Everybody of this file who has loaded it and not yet saved is overtaken.
Overtakes(p) ==
    {q \in Procs \ {p} : /\ proc[q].pc \notin {"idle", "loading"}
                         /\ File(proc[q].command) = File(proc[p].command)}

Install(p) ==
    LET f == File(proc[p].command)
    IN /\ At(p, "installing")
       /\ disk' = [disk EXCEPT ![f] = proc[p].memory]
       /\ overtaken' = overtaken \cup Overtakes(p)
       /\ orphaned' = orphaned \ {f}
       /\ told' = IF proc[p].command = "feedback" THEN told \cup {proc[p].event} ELSE told
       /\ Exit(p)
       /\ UNCHANGED <<log, unended, faults>>

\* Faulty: what had been moved away is forgotten.
InstallFailsForgetting(p) ==
    /\ At(p, "installing") /\ Fault
    /\ Exit(p)
    /\ UNCHANGED <<disk, log, unended, overtaken, orphaned, told>>

\* os.replace raises: the rollback puts back what was moved away, over anything else, and
\* removes whatever there is if there was nothing.
InstallFails(p) ==
    LET f == File(proc[p].command)
    IN /\ At(p, "installing") /\ Fault
       /\ disk' = [disk EXCEPT ![f] = proc[p].backup]
       /\ overtaken' = overtaken \cup Overtakes(p)
       /\ Exit(p)
       /\ UNCHANGED <<log, unended, orphaned, told>>

\* A process dies; a file it had moved away is found by nobody.
Crash(p) ==
    /\ ~At(p, "idle") /\ Fault
    /\ orphaned' = IF At(p, "installing") THEN orphaned \cup {File(proc[p].command)} ELSE orphaned
    /\ IF At(p, "writing") THEN TearLine(proc[p].event) ELSE UNCHANGED <<log, unended>>
    /\ Exit(p)
    /\ UNCHANGED <<disk, overtaken, told>>

Step(p) ==
    \/ Start(p) \/ Load(p) \/ LoadVanishes(p) \/ Routed(p) \/ NotRouted(p)
    \/ Learn(p) \/ Change(p) \/ CheckLog(p) \/ AppendLine(p) \/ AppendTears(p)
    \/ NextRequest(p) \/ Report(p) \/ LookForOld(p) \/ MoveAway(p) \/ MoveVanishes(p)
    \/ GuessMoved(p) \/ RestorePlaceholder(p) \/ Install(p) \/ InstallFails(p) \/ Crash(p)

Next == \E p \in Procs : Step(p)

Spec == Init /\ [][Next]_vars

\* Processes are alike, and so are observations.
Symmetry == Permutations(Procs) \cup Permutations(Events)

-----------------------------------------------------------------------------
(* Properties *)

Observed(content) == IF content \in {Absent, Empty} THEN {} ELSE content
Content(f) == Observed(disk[f])

\* Whatever processes, failed writes and crashes do to each other, a saved state has learned
\* nothing that the log, as long as it can be read, does not show (cli.py 259-263, simulator.py 95-98).
LearnedIsLogged == Readable => Content("state") \subseteq ToSet(log)

\* The log shows no observation twice.  As long as it can be read it shows every observation whose
\* command reported success; a command that had checked the log before another one failed in the
\* middle of a line, or after only the newline was lost, writes behind that line and reports a
\* success that is lost with it, but only one command for each such failure, and from then on
\* the log cannot be read (feedback.py 137-148).
ToldIsLogged ==
    /\ \A e \in Events : Cardinality({i \in DOMAIN log : log[i] = e}) <= 1
    /\ Readable => told \subseteq ToSet(log)
    /\ Cardinality(told \ ToSet(log)) <= faults

\* A command that ends at its save, or in the middle of it, takes nothing from a file or from
\* what it moved away, unless another process saved since it loaded, or it crashed in between
\* (cli.py 149, 200 and 263, persistence.py 129-158).
OnlyOverlapForgets ==
    [][\A p \in Procs, f \in Files :
          /\ proc[p].pc \in {"installing", "restoring"} /\ File(proc[p].command) = f
          /\ ~(Content(f) \cup Observed(proc[p].backup) \subseteq Observed(disk'[f]))
          /\ proc'[p].pc = "idle"
          => p \in overtaken \/ f \in orphaned']_vars

\* A save that fails puts back what was there: when all processes have ended, no file is left
\* without content, on which every later command would fail (persistence.py 92-95 and 136).
NeverLeftEmpty == (\A p \in Procs : At(p, "idle")) => \A f \in Files : disk[f] # Empty
=============================================================================
