------------------------ MODULE LearnedState_proofs ------------------------
(***************************************************************************)
(* Proofs about LearnedState, for every number of processes, observations, *)
(* profiles and faults.  They rest on what each process has in memory: no  *)
(* observation that is not in the log, but for the one a feedback is about *)
(* to log, and all that is in the file, unless it was overtaken.           *)
(***************************************************************************)
EXTENDS LearnedState, FiniteSetTheorems, TLAPS

Places == {"idle", "loading", "routing", "learning", "changing", "appending", "writing", "next",
           "saving", "moving", "guessing", "restoring", "installing"}
Subject == Events \cup Profiles
Contents == {Absent, Empty} \cup SUBSET Subject

Locals == [command : Commands \cup {Nothing}, pc : Places, memory : SUBSET Subject,
           event : Subject \cup {Nothing}, backup : Contents, left : Int]

Logging == {"appending", "writing"}
Saving == {"saving", "moving", "guessing", "restoring", "installing"}

\* Which commands come to which places, and what they bring.
OnCourse(r) ==
    /\ r.pc = "loading" => r.command \in Commands
    /\ r.pc \in {"routing", "next"} => r.command \in {"route", "simulate"}
    /\ r.pc = "learning" => r.command = "feedback"
    /\ r.pc = "changing" => r.command = "upsert"
    /\ r.pc \in Logging => r.command \in {"feedback", "simulate"} /\ r.event \in Events
    /\ r.command = "feedback" => r.event \in Events
    /\ r.command = "upsert" => r.event \in Profiles

LogTypeOK == log \in Seq(Events \cup {Torn}) /\ unended \in BOOLEAN /\ (unended => log # <<>>)

StateTypeOK ==
    /\ disk \in [Files -> Contents]
    /\ log \in Seq(Events \cup {Torn}) /\ unended \in BOOLEAN /\ (unended => log # <<>>)
    /\ proc \in [Procs -> Locals]
    /\ \A p \in Procs : OnCourse(proc[p])
    /\ overtaken \subseteq Procs /\ orphaned \subseteq Files /\ told \subseteq Events

LEMMA IdleType ==
    /\ Idle \in Locals /\ OnCourse(Idle)
    /\ Idle.pc = "idle" /\ Idle.command = Nothing /\ Idle.memory = {} /\ Idle.backup = Absent
    /\ Idle.event = Nothing
BY StateAssumption DEF Idle, Locals, Places, Contents, OnCourse, Logging, Commands

LEMMA FileType == \A c : File(c) \in Files
BY DEF File, Files

LEMMA LogKept == ASSUME LogTypeOK, UNCHANGED <<log, unended>> PROVE LogTypeOK'
BY DEF LogTypeOK

\* Writing a line, or part of one.
LEMMA LineAfterType ==
    ASSUME LogTypeOK, NEW e \in Events \cup {Torn}, log' = LineAfter(log, e), unended' \in BOOLEAN
    PROVE  LogTypeOK'
<1>1. CASE unended
  <2>1. Len(log) \in 1..Len(log) /\ log' = [log EXCEPT ![Len(log)] = Torn]
    BY <1>1 DEF LogTypeOK, LineAfter
  <2>2. log' \in Seq(Events \cup {Torn}) /\ Len(log') = Len(log)
    BY <2>1 DEF LogTypeOK
  <2> QED BY <2>1, <2>2 DEF LogTypeOK
<1>2. CASE ~unended
  BY <1>2 DEF LogTypeOK, LineAfter
<1> QED BY <1>1, <1>2 DEF LogTypeOK

LEMMA TearType == ASSUME LogTypeOK, NEW e \in Events, TearLine(e) PROVE LogTypeOK'
BY LogKept, LineAfterType DEF TearLine

\* What each step makes of the locals of its process.
Becomes(p, r) == proc' = [proc EXCEPT ![p] = r]

LEMMA LocalStep ==
    ASSUME StateTypeOK, NEW p \in Procs, NEW r \in Locals, OnCourse(r), Becomes(p, r),
           disk' \in [Files -> Contents], LogTypeOK',
           overtaken' \subseteq Procs, orphaned' \subseteq Files, told' \subseteq Events
    PROVE  StateTypeOK'
BY DEF LogTypeOK, StateTypeOK, Becomes

\* A step that only moves its process on.
LEMMA GoType ==
    ASSUME StateTypeOK, NEW p \in Procs, NEW place \in Places, Go(p, place),
           OnCourse([proc[p] EXCEPT !.pc = place]), UNCHANGED <<disk, log, unended, overtaken, orphaned, told>>
    PROVE  StateTypeOK'
<1> DEFINE r == [proc[p] EXCEPT !.pc = place]
<1>1. r \in Locals
  BY DEF StateTypeOK, Locals
<1>2. Becomes(p, r)
  BY DEF Go, Becomes
<1> QED BY <1>1, <1>2, LocalStep DEF LogTypeOK, StateTypeOK

LEMMA ExitType ==
    ASSUME StateTypeOK, NEW p \in Procs, Exit(p),
           disk' \in [Files -> Contents], LogTypeOK',
           overtaken' \subseteq Procs, orphaned' \subseteq Files, told' \subseteq Events
    PROVE  StateTypeOK'
BY IdleType, LocalStep DEF Exit, Becomes

LEMMA StartType == ASSUME StateTypeOK, NEW p \in Procs, Start(p) PROVE StateTypeOK'
<1>1. \A c \in Commands : /\ Subjects(c) \subseteq Subject \cup {Nothing}
                          /\ c = "feedback" => Subjects(c) \subseteq Events
                          /\ c = "upsert" => Subjects(c) \subseteq Profiles
  BY DEF Subjects, Subject, Fresh, Commands
<1>2. PICK c \in Commands : \E e \in Subjects(c), n \in IF c = "simulate" THEN 1..MaxRuns ELSE {0} :
          Becomes(p, [Idle EXCEPT !.command = c, !.pc = "loading", !.event = e, !.left = n])
  BY DEF Start, Becomes
<1>3. PICK e \in Subjects(c), n \in Int :
          Becomes(p, [Idle EXCEPT !.command = c, !.pc = "loading", !.event = e, !.left = n])
  <2>1. \A n : n \in (IF c = "simulate" THEN 1..MaxRuns ELSE {0}) => n \in Int
    BY StateAssumption
  <2> QED BY <1>2, <2>1, Zenon
<1> DEFINE r == [Idle EXCEPT !.command = c, !.pc = "loading", !.event = e, !.left = n]
<1>4. r \in Locals /\ OnCourse(r)
  BY <1>1 DEF Idle, Locals, Places, Contents, OnCourse, Logging, Commands
<1> QED BY <1>3, <1>4, LocalStep DEF LogTypeOK, StateTypeOK, Start

LEMMA LoadType == ASSUME StateTypeOK, NEW p \in Procs, Load(p) PROVE StateTypeOK'
<1>1. CASE Exit(p)
  BY <1>1, ExitType DEF LogTypeOK, Load, StateTypeOK
<1>2. CASE ~Exit(p)
  <2> DEFINE f == File(proc[p].command)
             place == CASE proc[p].command = "feedback" -> "learning"
                        [] proc[p].command = "upsert" -> "changing"
                        [] OTHER -> "routing"
  <2>1. PICK content \in SUBSET Subject : Becomes(p, [proc[p] EXCEPT !.memory = content, !.pc = place])
    BY <1>2, FileType DEF Load, StateTypeOK, Contents, Becomes
  <2>2. [proc[p] EXCEPT !.memory = content, !.pc = place] \in Locals
    BY <2>1 DEF StateTypeOK, Locals, Places
  <2>3. proc[p].pc = "loading" /\ proc[p].command \in Commands \ {"report"} /\ OnCourse(proc[p])
    BY DEF Load, At, StateTypeOK, OnCourse
  <2>4. OnCourse([proc[p] EXCEPT !.memory = content, !.pc = place])
    BY <2>1, <2>3 DEF OnCourse, Logging, Commands, StateTypeOK, Locals
  <2> QED BY <2>1, <2>2, <2>4, LocalStep DEF LogTypeOK, Load, StateTypeOK
<1> QED BY <1>1, <1>2

LEMMA RoutedType == ASSUME StateTypeOK, NEW p \in Procs, Routed(p) \/ NotRouted(p) PROVE StateTypeOK'
<1>1. proc[p].pc = "routing" /\ OnCourse(proc[p]) /\ proc[p] \in Locals
  BY DEF Routed, NotRouted, At, StateTypeOK
<1>2. PICK n \in Int : n = proc[p].left - 1
  BY <1>1 DEF Locals
<1>3. CASE Routed(p) /\ proc[p].command = "route"
  BY <1>1, <1>3, GoType DEF Routed, OnCourse, Logging, Places, Locals
<1>4. CASE Routed(p) /\ proc[p].command # "route"
  <2>0. PICK e \in Fresh : proc' = [proc EXCEPT ![p].pc = "appending", ![p].event = e, ![p].left = n]
    BY <1>2, <1>4 DEF Routed
  <2>1. e \in Events /\ Becomes(p, [proc[p] EXCEPT !.pc = "appending", !.event = e, !.left = n])
    BY <2>0 DEF Fresh, Becomes
  <2>2. [proc[p] EXCEPT !.pc = "appending", !.event = e, !.left = n] \in Locals
    BY <1>1, <2>1 DEF Locals, Places, Subject
  <2>3. OnCourse([proc[p] EXCEPT !.pc = "appending", !.event = e, !.left = n])
    BY <1>1, <1>4, <2>1 DEF OnCourse, Logging, Locals
  <2> QED BY <1>4, <2>1, <2>2, <2>3, LocalStep DEF LogTypeOK, Routed, StateTypeOK
<1>5. CASE NotRouted(p) /\ proc[p].command = "route"
  BY <1>5, ExitType DEF LogTypeOK, NotRouted, StateTypeOK
<1>6. CASE NotRouted(p) /\ proc[p].command # "route"
  <2>1. Becomes(p, [proc[p] EXCEPT !.pc = "next", !.left = n])
    BY <1>2, <1>6 DEF NotRouted, Becomes
  <2>2. [proc[p] EXCEPT !.pc = "next", !.left = n] \in Locals
    BY <1>1 DEF Locals, Places
  <2>3. OnCourse([proc[p] EXCEPT !.pc = "next", !.left = n])
    BY <1>1, <1>6 DEF OnCourse, Logging, Locals
  <2> QED BY <1>6, <2>1, <2>2, <2>3, LocalStep DEF LogTypeOK, NotRouted, StateTypeOK
<1> QED BY <1>3, <1>4, <1>5, <1>6

LEMMA LearnType == ASSUME StateTypeOK, NEW p \in Procs, Learn(p) \/ Change(p) PROVE StateTypeOK'
<1>1. OnCourse(proc[p]) /\ proc[p] \in Locals
  BY DEF StateTypeOK
<1>2. PICK m \in SUBSET Subject : m = proc[p].memory \cup {proc[p].event}
  BY <1>1 DEF Learn, Change, At, OnCourse, Subject, Locals
<1>3. PICK place \in {"appending", "saving"} :
          /\ Becomes(p, [proc[p] EXCEPT !.memory = m, !.pc = place])
          /\ place = "appending" => proc[p].pc = "learning"
  <2>1. CASE Learn(p)
    BY <1>2, <2>1 DEF Learn, At, Becomes
  <2>2. CASE Change(p)
    BY <1>2, <2>2 DEF Change, At, Becomes
  <2> QED BY <2>1, <2>2
<1>4. [proc[p] EXCEPT !.memory = m, !.pc = place] \in Locals
  BY <1>1, <1>3 DEF Locals, Places
<1>5. OnCourse([proc[p] EXCEPT !.memory = m, !.pc = place])
  BY <1>1, <1>3 DEF OnCourse, Logging, Locals
<1> QED BY <1>3, <1>4, <1>5, LocalStep DEF LogTypeOK, Learn, Change, StateTypeOK

\* AppendRaises, after a log that may have grown.
LEMMA RaisesType ==
    ASSUME StateTypeOK, NEW p \in Procs, proc[p].pc \in Logging, AppendRaises(p),
           LogTypeOK', UNCHANGED <<disk, overtaken, orphaned, told>>
    PROVE  StateTypeOK'
<1>1. CASE proc[p].command = "feedback"
  BY <1>1, ExitType DEF AppendRaises, StateTypeOK
<1>2. CASE proc[p].command # "feedback"
  <2>1. Becomes(p, [proc[p] EXCEPT !.pc = "next", !.event = Nothing])
    BY <1>2 DEF AppendRaises, Becomes
  <2>2. [proc[p] EXCEPT !.pc = "next", !.event = Nothing] \in Locals
    BY DEF StateTypeOK, Locals, Places
  <2>3. OnCourse(proc[p]) /\ proc[p] \in Locals
    BY DEF StateTypeOK
  <2>4. OnCourse([proc[p] EXCEPT !.pc = "next", !.event = Nothing])
    BY <1>2, <2>3 DEF OnCourse, Logging, Locals
  <2> QED BY <2>1, <2>2, <2>4, LocalStep DEF StateTypeOK
<1> QED BY <1>1, <1>2

LEMMA AppendType ==
    ASSUME StateTypeOK, NEW p \in Procs, CheckLog(p) \/ AppendLine(p) \/ AppendTears(p)
    PROVE  StateTypeOK'
<1>1. proc[p].pc \in Logging /\ OnCourse(proc[p]) /\ proc[p] \in Locals /\ proc[p].event \in Events
  BY DEF CheckLog, AppendLine, AppendTears, At, Logging, StateTypeOK, OnCourse
<1>2. CASE CheckLog(p)
  <2>1. OnCourse([proc[p] EXCEPT !.pc = "writing"])
    BY <1>1 DEF OnCourse, Logging, Locals
  <2> QED BY <1>1, <1>2, <2>1, GoType, RaisesType DEF LogTypeOK, CheckLog, Places, StateTypeOK
<1>3. CASE AppendLine(p) /\ proc[p].command = "feedback"
  <2>1. LogTypeOK'
    BY <1>1, <1>3, LineAfterType DEF LogTypeOK, AppendLine, StateTypeOK
  <2>2. Becomes(p, [proc[p] EXCEPT !.pc = "saving"])
    BY <1>3 DEF AppendLine, Go, Becomes
  <2>3. [proc[p] EXCEPT !.pc = "saving"] \in Locals /\ OnCourse([proc[p] EXCEPT !.pc = "saving"])
    BY <1>1 DEF OnCourse, Logging, Locals, Places
  <2> QED BY <1>3, <2>1, <2>2, <2>3, LocalStep DEF AppendLine, StateTypeOK
<1>4. CASE AppendLine(p) /\ proc[p].command # "feedback"
  <2>1. LogTypeOK'
    BY <1>1, <1>4, LineAfterType DEF LogTypeOK, AppendLine, StateTypeOK
  <2>2. PICK m \in SUBSET Subject : m = proc[p].memory \cup {proc[p].event}
    BY <1>1 DEF Subject, Locals
  <2>3. Becomes(p, [proc[p] EXCEPT !.pc = "next", !.memory = m, !.event = Nothing])
    BY <1>4, <2>2 DEF AppendLine, Becomes
  <2>4. /\ [proc[p] EXCEPT !.pc = "next", !.memory = m, !.event = Nothing] \in Locals
        /\ OnCourse([proc[p] EXCEPT !.pc = "next", !.memory = m, !.event = Nothing])
    BY <1>1, <1>4 DEF OnCourse, Logging, Locals, Places
  <2> QED BY <1>4, <2>1, <2>3, <2>4, LocalStep DEF AppendLine, StateTypeOK
<1>5. CASE AppendTears(p)
  <2>1. LogTypeOK'
    BY <1>1, <1>5, TearType DEF LogTypeOK, AppendTears, StateTypeOK
  <2> QED BY <1>1, <1>5, <2>1, RaisesType DEF AppendTears
<1> QED BY <1>2, <1>3, <1>4, <1>5

LEMMA NextType == ASSUME StateTypeOK, NEW p \in Procs, NextRequest(p) PROVE StateTypeOK'
<1>1. OnCourse(proc[p]) /\ proc[p] \in Locals /\ proc[p].pc = "next"
  BY DEF StateTypeOK, NextRequest, At
<1>2. \A place \in {"routing", "saving"} : OnCourse([proc[p] EXCEPT !.pc = place])
  BY <1>1 DEF OnCourse, Logging, Locals
<1> QED BY <1>2, GoType DEF NextRequest, Places

LEMMA SaveType ==
    ASSUME StateTypeOK, NEW p \in Procs,
           \/ LookForOld(p) \/ MoveAway(p) \/ MoveVanishes(p) \/ GuessMoved(p)
           \/ RestorePlaceholder(p) \/ Install(p) \/ InstallFails(p)
    PROVE  StateTypeOK'
<1>1. OnCourse(proc[p]) /\ proc[p] \in Locals /\ proc[p].pc \in Saving
  BY DEF StateTypeOK, LookForOld, MoveAway, MoveVanishes, GuessMoved, RestorePlaceholder, Install,
     InstallFails, At, Saving
<1>2. \A place \in Saving, b \in Contents :
          /\ [proc[p] EXCEPT !.backup = b, !.pc = place] \in Locals
          /\ OnCourse([proc[p] EXCEPT !.backup = b, !.pc = place])
          /\ OnCourse([proc[p] EXCEPT !.pc = place])
  <2>1. SUFFICES ASSUME NEW place \in Saving, NEW b \in Contents
                 PROVE  /\ [proc[p] EXCEPT !.backup = b, !.pc = place] \in Locals
                        /\ OnCourse([proc[p] EXCEPT !.backup = b, !.pc = place])
                        /\ OnCourse([proc[p] EXCEPT !.pc = place])
    BY Zenon
  <2>2. place \in Places
    BY DEF Saving, Places
  <2>3. [proc[p] EXCEPT !.backup = b, !.pc = place] \in Locals
    BY <1>1, <2>2 DEF Locals
  <2>4. OnCourse([proc[p] EXCEPT !.backup = b, !.pc = place])
    BY <1>1 DEF OnCourse, Logging, Locals, Saving
  <2>5. OnCourse([proc[p] EXCEPT !.pc = place])
    BY <1>1 DEF OnCourse, Logging, Locals, Saving
  <2> QED BY <2>3, <2>4, <2>5
<1>3. CASE LookForOld(p)
  <2>1. CASE disk[File(proc[p].command)] # Absent
    BY <1>2, <1>3, <2>1, GoType DEF LookForOld, Places, Saving, Contents
  <2>2. CASE disk[File(proc[p].command)] = Absent
    <3>1. Becomes(p, [proc[p] EXCEPT !.backup = Absent, !.pc = "installing"])
      BY <1>3, <2>2 DEF LookForOld, Becomes
    <3> QED BY <1>2, <1>3, <3>1, LocalStep DEF LogTypeOK, LookForOld, StateTypeOK, Saving, Contents
  <2> QED BY <2>1, <2>2
<1>4. CASE MoveAway(p)
  <2>1. PICK b \in Contents : b = disk[File(proc[p].command)]
    BY FileType DEF StateTypeOK
  <2>2. Becomes(p, [proc[p] EXCEPT !.backup = b, !.pc = "installing"])
    BY <1>4, <2>1 DEF MoveAway, Becomes
  <2>3. disk' \in [Files -> Contents]
    BY <1>4, FileType DEF MoveAway, StateTypeOK, Contents
  <2> QED BY <1>2, <1>4, <2>2, <2>3, LocalStep DEF LogTypeOK, MoveAway, StateTypeOK, Saving
<1>5. CASE MoveVanishes(p) \/ GuessMoved(p)
  <2>1. CASE Exit(p)
    BY <1>5, <2>1, ExitType DEF LogTypeOK, MoveVanishes, GuessMoved, StateTypeOK
  <2>2. ASSUME NEW place \in {"guessing", "restoring"}, Go(p, place) PROVE StateTypeOK'
    <3>1. place \in Saving /\ place \in Places /\ Absent \in Contents
      BY DEF Saving, Places, Contents
    <3>2. UNCHANGED <<disk, log, unended, overtaken, orphaned, told>>
      BY <1>5 DEF MoveVanishes, GuessMoved
    <3> QED BY <1>2, <2>2, <3>1, <3>2, GoType
  <2> QED BY <1>5, <2>1, <2>2 DEF MoveVanishes, GuessMoved
<1>6. CASE RestorePlaceholder(p)
  BY <1>6, ExitType, FileType DEF LogTypeOK, RestorePlaceholder, StateTypeOK, Contents
<1>7. CASE Install(p)
  <2>1. proc[p].memory \in Contents /\ (proc[p].command = "feedback" => proc[p].event \in Events)
    BY <1>1 DEF Locals, OnCourse, Contents
  <2> QED BY <1>7, <2>1, ExitType, FileType DEF LogTypeOK, Install, Overtakes, StateTypeOK
<1>8. CASE InstallFails(p)
  <2>1. proc[p].backup \in Contents
    BY <1>1 DEF Locals
  <2> QED BY <1>8, <2>1, ExitType, FileType DEF LogTypeOK, InstallFails, Overtakes, StateTypeOK
<1> QED BY <1>3, <1>4, <1>5, <1>6, <1>7, <1>8

LEMMA TypeStep == ASSUME StateTypeOK, [Next]_vars PROVE StateTypeOK'
<1>1. ASSUME NEW p \in Procs, LoadVanishes(p) \/ Report(p) PROVE StateTypeOK'
  BY <1>1, ExitType DEF LogTypeOK, LoadVanishes, Report, StateTypeOK
<1>2. ASSUME NEW p \in Procs, Crash(p) PROVE StateTypeOK'
  <2>1. At(p, "writing") => proc[p].event \in Events
    BY DEF At, StateTypeOK, OnCourse, Logging
  <2>2. LogTypeOK'
    BY <1>2, <2>1, LogKept, TearType DEF LogTypeOK, Crash, StateTypeOK
  <2> QED BY <1>2, <2>2, ExitType, FileType DEF Crash, StateTypeOK
<1>3. CASE UNCHANGED vars
  BY <1>3 DEF vars, StateTypeOK
<1> QED BY <1>1, <1>2, <1>3, StartType, LoadType, RoutedType, LearnType, AppendType, NextType, SaveType
        DEF Next, Step

LEMMA TypeInit == Init => StateTypeOK
<1> SUFFICES ASSUME Init PROVE StateTypeOK
  OBVIOUS
<1>1. disk \in [Files -> Contents]
  BY DEF Init, Contents
<1>2. log \in Seq(Events \cup {Torn}) /\ unended = FALSE
  BY DEF Init
<1> QED BY <1>1, <1>2, IdleType DEF Init, StateTypeOK

\* TypeOK of the file, the log, and every process, in every reachable state.
THEOREM StateTypeCorrect == Spec => []StateTypeOK
BY TypeInit, TypeStep, PTL DEF Spec

-----------------------------------------------------------------------------
(* What is saved is in the log *)

\* The observation a feedback has learned and not yet logged.
Pending(r) == IF r.command = "feedback" /\ r.pc \in Logging THEN {r.event} ELSE {}

Known(r, lines) ==
    r.command # "upsert" => /\ Observed(r.backup) \subseteq lines
                            /\ r.memory \subseteq lines \cup Pending(r)

LoggedInv ==
    Readable => /\ Content("state") \subseteq ToSet(log)
                /\ \A p \in Procs : Known(proc[p], ToSet(log))

\* A log that can be read could be read before its last line was written, and this line follows
\* one that was ended.
LEMMA LineAfterGrows ==
    ASSUME LogTypeOK, NEW e \in Events \cup {Torn}, log' = LineAfter(log, e), Readable'
    PROVE  Readable /\ ~unended /\ ToSet(log') = ToSet(log) \cup {e}
<1>1. ~unended
  <2>1. SUFFICES ASSUME unended PROVE Torn \in ToSet(log')
    BY DEF Readable
  <2>2. Len(log) \in DOMAIN log /\ log' = [log EXCEPT ![Len(log)] = Torn]
    BY <2>1 DEF LogTypeOK, LineAfter
  <2>3. Len(log) \in DOMAIN log' /\ log'[Len(log)] = Torn
    BY <2>2 DEF LogTypeOK
  <2> QED BY <2>3 DEF ToSet
<1>2. log' = Append(log, e) /\ log \in Seq(Events \cup {Torn})
  BY <1>1 DEF LineAfter, LogTypeOK
<1>3. /\ DOMAIN log' = 1..(Len(log) + 1) /\ DOMAIN log = 1..Len(log) /\ Len(log) \in Nat
      /\ \A i \in 1..Len(log) : log'[i] = log[i]
      /\ log'[Len(log) + 1] = e
  BY <1>2
<1>4. ToSet(log') = ToSet(log) \cup {e}
  BY <1>3 DEF ToSet
<1>5. IsInjective(log) /\ Torn \notin ToSet(log)
  BY <1>3, <1>4 DEF Readable, IsInjective
<1> QED BY <1>1, <1>4, <1>5 DEF Readable

\* How a step of a process may change the log: not at all, by its line, or by part of it.
Writes(e) == log' = LineAfter(log, e) /\ unended' \in BOOLEAN

OwnLine(p) ==
    \/ UNCHANGED <<log, unended>>
    \/ Writes(Torn)
    \/ At(p, "writing") /\ proc[p].event \in Events /\ Writes(proc[p].event)

LEMMA LogSteps == ASSUME StateTypeOK, NEW p \in Procs, Step(p) PROVE OwnLine(p)
<1>1. CASE AppendLine(p) \/ AppendTears(p) \/ Crash(p)
  <2>1. At(p, "writing") => proc[p].event \in Events
    BY DEF At, StateTypeOK, OnCourse, Logging
  <2> QED BY <1>1, <2>1 DEF AppendLine, AppendTears, Crash, TearLine, Writes, OwnLine
<1>2. CASE ~(AppendLine(p) \/ AppendTears(p) \/ Crash(p))
  BY <1>2 DEF Step, Start, Load, LoadVanishes, Routed, NotRouted, Learn, Change, CheckLog,
     NextRequest, Report, LookForOld, MoveAway, MoveVanishes, GuessMoved, RestorePlaceholder, Install,
     InstallFails, OwnLine
<1> QED BY <1>1, <1>2

LEMMA LogGrows ==
    ASSUME StateTypeOK, [Next]_vars, Readable'
    PROVE  Readable /\ ToSet(log) \subseteq ToSet(log')
<1>1. CASE UNCHANGED <<log, unended>>
  BY <1>1 DEF Readable
<1>2. ASSUME NEW e \in Events \cup {Torn}, Writes(e)
      PROVE  Readable /\ ToSet(log) \subseteq ToSet(log')
  BY <1>2, LineAfterGrows DEF Writes, StateTypeOK, LogTypeOK
<1> QED BY <1>1, <1>2, LogSteps DEF Next, vars, OwnLine

\* A step that keeps its own process within the log, and the state too.
LEMMA KnownStep ==
    ASSUME StateTypeOK, LoggedInv, [Next]_vars, NEW p \in Procs, NEW r, Becomes(p, r),
           Readable' => Known(r, ToSet(log')) /\ Content("state")' \subseteq ToSet(log')
    PROVE  LoggedInv'
<1>1. SUFFICES ASSUME Readable' PROVE \A q \in Procs : Known(proc'[q], ToSet(log'))
  BY DEF LoggedInv
<1>2. Readable /\ ToSet(log) \subseteq ToSet(log')
  BY <1>1, LogGrows
<1>3. \A q \in Procs : Known(proc[q], ToSet(log'))
  BY <1>2 DEF LoggedInv, Known
<1>4. Known(r, ToSet(log'))
  BY <1>1
<1>5. \A q \in Procs : proc'[q] = IF q = p THEN r ELSE proc[q]
  BY DEF Becomes, StateTypeOK
<1> QED BY <1>3, <1>4, <1>5

LEMMA NoneObserved == /\ Observed(Absent) = {} /\ Observed(Empty) = {}
                      /\ \A content \in SUBSET Subject : Observed(content) = content
BY StateAssumption DEF Observed, Subject

\* A process that ends.
LEMMA KnownExit ==
    ASSUME StateTypeOK, LoggedInv, [Next]_vars, NEW p \in Procs, Exit(p),
           Readable' => Content("state")' \subseteq ToSet(log')
    PROVE  LoggedInv'
<1>1. Becomes(p, Idle) /\ Known(Idle, ToSet(log'))
  BY IdleType, NoneObserved DEF Exit, Becomes, Known
<1> QED BY <1>1, KnownStep

\* A step that leaves the files and what its process knows alone.
LEMMA KnownKept ==
    ASSUME StateTypeOK, LoggedInv, [Next]_vars, NEW p \in Procs, NEW r, Becomes(p, r),
           r.command = proc[p].command, r.memory = proc[p].memory, r.backup = proc[p].backup,
           Pending(proc[p]) \subseteq Pending(r), UNCHANGED disk
    PROVE  LoggedInv'
<1>1. SUFFICES ASSUME Readable'
               PROVE  Known(r, ToSet(log')) /\ Content("state")' \subseteq ToSet(log')
  BY KnownStep
<1>2. /\ ToSet(log) \subseteq ToSet(log')
      /\ Content("state") \subseteq ToSet(log) /\ Known(proc[p], ToSet(log))
  BY <1>1, LogGrows DEF LoggedInv
<1>3. Known(r, ToSet(log'))
  BY <1>2 DEF Known
<1> QED BY <1>2, <1>3 DEF Content

\* A process that goes from a place before the log to another, or stays on the way to it.
LEMMA KnownGo ==
    ASSUME StateTypeOK, LoggedInv, [Next]_vars, NEW p \in Procs, NEW place, Go(p, place),
           proc[p].pc \notin Logging \/ place \in Logging, UNCHANGED disk
    PROVE  LoggedInv'
<1> DEFINE r == [proc[p] EXCEPT !.pc = place]
<1>1. /\ Becomes(p, r) /\ r.pc = place /\ r.command = proc[p].command /\ r.event = proc[p].event
      /\ r.memory = proc[p].memory /\ r.backup = proc[p].backup
  BY DEF Go, Becomes, StateTypeOK, Locals
<1> HIDE DEF r
<1>2. Pending(proc[p]) \subseteq Pending(r)
  BY <1>1 DEF Pending
<1> QED BY <1>1, <1>2, KnownKept

LEMMA KnownRouting ==
    ASSUME StateTypeOK, LoggedInv, [Next]_vars, NEW p \in Procs, Routed(p) \/ NotRouted(p)
    PROVE  LoggedInv'
<1>1. proc[p].pc = "routing" /\ OnCourse(proc[p]) /\ proc[p] \in Locals /\ UNCHANGED <<disk, log, unended>>
  BY DEF Routed, NotRouted, At, StateTypeOK
<1>2. Pending(proc[p]) = {}
  BY <1>1 DEF Pending, Logging
<1>3. ASSUME NEW e, NEW n,
             \/ Becomes(p, [proc[p] EXCEPT !.pc = "appending", !.event = e, !.left = n])
             \/ Becomes(p, [proc[p] EXCEPT !.pc = "next", !.left = n])
      PROVE  LoggedInv'
  <2>1. CASE Becomes(p, [proc[p] EXCEPT !.pc = "appending", !.event = e, !.left = n])
    BY <1>1, <1>2, <2>1, KnownKept DEF Locals
  <2>2. CASE Becomes(p, [proc[p] EXCEPT !.pc = "next", !.left = n])
    BY <1>1, <1>2, <2>2, KnownKept DEF Locals
  <2> QED BY <1>3, <2>1, <2>2
<1>4. CASE Exit(p)
  <2>1. Readable' => Content("state")' \subseteq ToSet(log')
    BY <1>1 DEF LoggedInv, Content, Readable
  <2> QED BY <1>4, <2>1, KnownExit
<1>5. CASE Go(p, "saving")
  BY <1>1, <1>5, KnownGo DEF Logging
<1>6. CASE ~Exit(p) /\ ~Go(p, "saving")
  <2>1. CASE Routed(p)
    <3>1. PICK e : proc' = [proc EXCEPT ![p].pc = "appending", ![p].event = e, ![p].left = @ - 1]
      BY <1>6, <2>1 DEF Routed
    <3>2. Becomes(p, [proc[p] EXCEPT !.pc = "appending", !.event = e, !.left = proc[p].left - 1])
      BY <1>1, <3>1 DEF Becomes
    <3> QED BY <3>2, <1>3
  <2>2. CASE NotRouted(p)
    <3>1. proc' = [proc EXCEPT ![p].pc = "next", ![p].left = @ - 1]
      BY <1>6, <2>2 DEF NotRouted
    <3>2. Becomes(p, [proc[p] EXCEPT !.pc = "next", !.left = proc[p].left - 1])
      BY <1>1, <3>1 DEF Becomes
    <3> QED BY <3>2, <1>3
  <2> QED BY <2>1, <2>2
<1> QED BY <1>4, <1>5, <1>6

LEMMA KnownLoad ==
    ASSUME StateTypeOK, LoggedInv, [Next]_vars, NEW p \in Procs, Start(p) \/ Load(p)
    PROVE  LoggedInv'
<1>1. proc[p].pc \in {"idle", "loading"} /\ proc[p] \in Locals /\ UNCHANGED <<disk, log, unended>>
  BY DEF Start, Load, At, StateTypeOK
<1>2. Readable' => Content("state")' \subseteq ToSet(log')
  BY <1>1 DEF LoggedInv, Content, Readable
<1>3. CASE Start(p)
  <2>1. PICK c \in Commands : \E e, n :
            Becomes(p, [Idle EXCEPT !.command = c, !.pc = "loading", !.event = e, !.left = n])
    BY <1>3 DEF Start, Becomes
  <2>2. PICK e, n : Becomes(p, [Idle EXCEPT !.command = c, !.pc = "loading", !.event = e, !.left = n])
    BY <2>1
  <2>3. Known([Idle EXCEPT !.command = c, !.pc = "loading", !.event = e, !.left = n], ToSet(log'))
    BY NoneObserved DEF Known, Idle
  <2> QED BY <1>2, <2>2, <2>3, KnownStep
<1>4. CASE Load(p) /\ Exit(p)
  BY <1>2, <1>4, KnownExit
<1>5. CASE Load(p) /\ ~Exit(p)
  <2> DEFINE content == IF disk[File(proc[p].command)] = Absent THEN {} ELSE disk[File(proc[p].command)]
             place == CASE proc[p].command = "feedback" -> "learning"
                        [] proc[p].command = "upsert" -> "changing"
                        [] OTHER -> "routing"
  <2>1. Becomes(p, [proc[p] EXCEPT !.memory = content, !.pc = place])
    BY <1>5 DEF Load, Becomes
  <2>2. disk[File(proc[p].command)] # Empty /\ disk[File(proc[p].command)] \in Contents
    BY <1>5, FileType DEF Load, StateTypeOK
  <2>3. content = Observed(disk[File(proc[p].command)])
    BY <2>2, NoneObserved DEF Contents
  <2>4. ASSUME Readable', proc[p].command # "upsert"
        PROVE  Observed(proc[p].backup) \subseteq ToSet(log') /\ content \subseteq ToSet(log')
    BY <1>1, <2>3, <2>4 DEF LoggedInv, Known, Content, File, Readable
  <2>5. PICK m : m = content
    OBVIOUS
  <2>6. PICK pc : pc = place
    OBVIOUS
  <2>7. Readable' => Known([proc[p] EXCEPT !.memory = m, !.pc = pc], ToSet(log'))
    BY <1>1, <2>4, <2>5 DEF Known, Locals
  <2> QED BY <1>2, <2>1, <2>5, <2>6, <2>7, KnownStep
<1> QED BY <1>3, <1>4, <1>5

LEMMA KnownLearn ==
    ASSUME StateTypeOK, LoggedInv, [Next]_vars, NEW p \in Procs, Learn(p) \/ Change(p)
    PROVE  LoggedInv'
<1>1. proc[p] \in Locals /\ OnCourse(proc[p]) /\ UNCHANGED <<disk, log, unended>>
  BY DEF Learn, Change, StateTypeOK
<1>2. Readable' => Content("state")' \subseteq ToSet(log') /\ Known(proc[p], ToSet(log'))
  BY <1>1 DEF LoggedInv, Content, Readable
<1>3. PICK m : m = proc[p].memory \cup {proc[p].event}
  OBVIOUS
<1>4. CASE Learn(p)
  <2> DEFINE r == [proc[p] EXCEPT !.memory = m, !.pc = "appending"]
  <2>1. Becomes(p, r)
    BY <1>3, <1>4 DEF Learn, Becomes
  <2>2. /\ r.command = "feedback" /\ r.pc \in Logging /\ r.event = proc[p].event /\ r.memory = m
        /\ r.backup = proc[p].backup /\ proc[p].command = "feedback" /\ Pending(proc[p]) = {}
    BY <1>1, <1>4 DEF Learn, At, OnCourse, Logging, Locals, Pending
  <2> HIDE DEF r
  <2>3. Readable' => Known(r, ToSet(log'))
    BY <1>2, <1>3, <2>2 DEF Known, Pending
  <2> QED BY <1>2, <2>1, <2>3, KnownStep
<1>5. CASE Change(p)
  <2>1. Becomes(p, [proc[p] EXCEPT !.memory = m, !.pc = "saving"])
    BY <1>3, <1>5 DEF Change, Becomes
  <2>2. proc[p].command = "upsert"
    BY <1>1, <1>5 DEF Change, At, OnCourse
  <2>3. Known([proc[p] EXCEPT !.memory = m, !.pc = "saving"], ToSet(log'))
    BY <1>1, <2>2 DEF Known, Locals
  <2> QED BY <1>2, <2>1, <2>3, KnownStep
<1> QED BY <1>4, <1>5

\* A log that may have grown, and a command that did not write its line.
LEMMA KnownRaises ==
    ASSUME StateTypeOK, LoggedInv, [Next]_vars, NEW p \in Procs, AppendRaises(p),
           proc[p].pc \in Logging, UNCHANGED disk
    PROVE  LoggedInv'
<1>1. Readable' => Content("state")' \subseteq ToSet(log')
  BY LogGrows DEF LoggedInv, Content
<1>2. CASE proc[p].command = "feedback"
  BY <1>1, <1>2, KnownExit DEF AppendRaises
<1>3. CASE proc[p].command # "feedback"
  <2>1. Becomes(p, [proc[p] EXCEPT !.pc = "next", !.event = Nothing])
    BY <1>3 DEF AppendRaises, Becomes
  <2>2. Pending(proc[p]) = {}
    BY <1>3 DEF Pending
  <2> QED BY <2>1, <2>2, KnownKept DEF StateTypeOK, Locals
<1> QED BY <1>2, <1>3

LEMMA KnownAppend ==
    ASSUME StateTypeOK, LoggedInv, [Next]_vars, NEW p \in Procs,
           CheckLog(p) \/ AppendLine(p) \/ AppendTears(p)
    PROVE  LoggedInv'
<1>1. /\ proc[p] \in Locals /\ proc[p].pc \in Logging /\ proc[p].event \in Events
      /\ proc[p].command \in {"feedback", "simulate"} /\ UNCHANGED disk
  BY DEF CheckLog, AppendLine, AppendTears, At, Logging, StateTypeOK, OnCourse
<1>2. CASE CheckLog(p)
  BY <1>1, <1>2, KnownGo, KnownRaises DEF CheckLog, Logging
<1>3. CASE AppendTears(p)
  BY <1>1, <1>3, KnownRaises DEF AppendTears
<1>4. CASE AppendLine(p)
  <2>1. SUFFICES ASSUME Readable' PROVE LoggedInv'
    BY DEF LoggedInv
  <2>2. Readable /\ ToSet(log') = ToSet(log) \cup {proc[p].event}
    <3>1. PICK e \in Events : e = proc[p].event
      BY <1>1
    <3> QED BY <1>4, <2>1, <3>1, LineAfterGrows DEF AppendLine, StateTypeOK, LogTypeOK
  <2>3. Content("state")' \subseteq ToSet(log') /\ Known(proc[p], ToSet(log))
    BY <1>1, <2>2 DEF LoggedInv, Content
  <2>4. PICK m : m = proc[p].memory \cup {proc[p].event}
    OBVIOUS
  <2>5. /\ Observed(proc[p].backup) \subseteq ToSet(log')
        /\ proc[p].memory \subseteq ToSet(log') /\ m \subseteq ToSet(log')
    <3>1. proc[p].command # "upsert" /\ Pending(proc[p]) \subseteq {proc[p].event}
      BY <1>1 DEF Pending
    <3> QED BY <2>2, <2>3, <2>4, <3>1 DEF Known
  <2>6. CASE proc[p].command = "feedback"
    <3>1. Becomes(p, [proc[p] EXCEPT !.pc = "saving"])
      BY <1>4, <2>6 DEF AppendLine, Go, Becomes
    <3>2. Known([proc[p] EXCEPT !.pc = "saving"], ToSet(log'))
      BY <1>1, <2>5 DEF Known, Locals
    <3> QED BY <2>3, <3>1, <3>2, KnownStep
  <2>7. CASE proc[p].command # "feedback"
    <3>1. Becomes(p, [proc[p] EXCEPT !.pc = "next", !.memory = m, !.event = Nothing])
      BY <1>4, <2>4, <2>7 DEF AppendLine, Becomes
    <3>2. Known([proc[p] EXCEPT !.pc = "next", !.memory = m, !.event = Nothing], ToSet(log'))
      BY <1>1, <2>5 DEF Known, Locals
    <3> QED BY <2>3, <3>1, <3>2, KnownStep
  <2> QED BY <2>6, <2>7
<1> QED BY <1>2, <1>3, <1>4

\* Somebody who saves a state saves nothing that is not logged.
LEMMA KnownSaved ==
    ASSUME StateTypeOK, LoggedInv, Readable, NEW p \in Procs, proc[p].pc \in Saving,
           File(proc[p].command) = "state"
    PROVE  proc[p].memory \subseteq ToSet(log) /\ Observed(proc[p].backup) \subseteq ToSet(log)
<1>1. proc[p].command # "upsert" /\ Pending(proc[p]) = {}
  BY DEF File, Pending, Saving, Logging
<1> QED BY <1>1 DEF LoggedInv, Known

LEMMA KnownSave ==
    ASSUME StateTypeOK, LoggedInv, [Next]_vars, NEW p \in Procs,
           \/ LookForOld(p) \/ MoveAway(p) \/ MoveVanishes(p) \/ GuessMoved(p)
           \/ RestorePlaceholder(p) \/ Install(p) \/ InstallFails(p)
    PROVE  LoggedInv'
<1> DEFINE f == File(proc[p].command)
<1>1. /\ proc[p] \in Locals /\ proc[p].pc \in Saving /\ UNCHANGED log /\ f \in Files
      /\ proc[p].pc \notin Logging /\ Pending(proc[p]) = {}
  BY FileType DEF StateTypeOK, LookForOld, MoveAway, MoveVanishes, GuessMoved, RestorePlaceholder, Install,
     InstallFails, At, Saving, Logging, Pending
<1>2. ASSUME NEW content, disk' = [disk EXCEPT ![f] = content],
             Readable /\ f = "state" => Observed(content) \subseteq ToSet(log)
      PROVE  Readable' => Content("state")' \subseteq ToSet(log')
  <2>1. disk'["state"] = IF f = "state" THEN content ELSE disk["state"]
    BY <1>1, <1>2 DEF StateTypeOK, Files
  <2> QED BY <1>1, <1>2, <2>1 DEF LoggedInv, Content, Readable
<1>3. UNCHANGED disk => (Readable' => Content("state")' \subseteq ToSet(log'))
  BY <1>1 DEF LoggedInv, Content, Readable
<1>4. CASE LookForOld(p)
  <2>1. CASE Go(p, "moving")
    BY <1>1, <1>4, <2>1, KnownGo DEF LookForOld
  <2>2. CASE ~Go(p, "moving")
    <3>1. Becomes(p, [proc[p] EXCEPT !.backup = Absent, !.pc = "installing"]) /\ UNCHANGED disk
      BY <1>4, <2>2 DEF LookForOld, Becomes
    <3>2. Readable' => Known([proc[p] EXCEPT !.backup = Absent, !.pc = "installing"], ToSet(log'))
      BY <1>1, NoneObserved DEF LoggedInv, Known, Locals, Readable
    <3> QED BY <1>3, <3>1, <3>2, KnownStep
  <2> QED BY <2>1, <2>2
<1>5. CASE MoveAway(p)
  <2>1. PICK b : b = disk[f]
    OBVIOUS
  <2>2. Becomes(p, [proc[p] EXCEPT !.backup = b, !.pc = "installing"]) /\ disk' = [disk EXCEPT ![f] = Absent]
    BY <1>5, <2>1 DEF MoveAway, Becomes
  <2>3. Readable' => Content("state")' \subseteq ToSet(log')
    BY <1>2, <2>2, NoneObserved
  <2>4. ASSUME Readable', proc[p].command # "upsert" PROVE Observed(b) \subseteq ToSet(log')
    BY <1>1, <2>1, <2>4 DEF File, LoggedInv, Content, Readable
  <2>5. Readable' => Known([proc[p] EXCEPT !.backup = b, !.pc = "installing"], ToSet(log'))
    BY <1>1, <2>4 DEF LoggedInv, Known, Locals, Readable
  <2> QED BY <2>2, <2>3, <2>5, KnownStep
<1>6. CASE MoveVanishes(p) \/ GuessMoved(p)
  BY <1>1, <1>3, <1>6, KnownGo, KnownExit DEF MoveVanishes, GuessMoved
<1>7. CASE RestorePlaceholder(p)
  BY <1>2, <1>7, NoneObserved, KnownExit DEF RestorePlaceholder
<1>8. CASE Install(p)
  <2>1. Observed(proc[p].memory) = proc[p].memory
    BY <1>1, NoneObserved DEF Locals
  <2> QED BY <1>1, <1>2, <1>8, <2>1, KnownSaved, KnownExit DEF Install
<1>9. CASE InstallFails(p)
  BY <1>1, <1>2, <1>9, KnownSaved, KnownExit DEF InstallFails
<1> QED BY <1>4, <1>5, <1>6, <1>7, <1>8, <1>9

LEMMA LoggedStep == ASSUME StateTypeOK, LoggedInv, [Next]_vars PROVE LoggedInv'
<1>1. ASSUME NEW p \in Procs, LoadVanishes(p) \/ Report(p) \/ Crash(p) PROVE LoggedInv'
  <2>1. Readable' => Content("state")' \subseteq ToSet(log')
    BY <1>1, LogGrows DEF LoggedInv, Content, LoadVanishes, Report, Crash
  <2> QED BY <1>1, <2>1, KnownExit DEF LoadVanishes, Report, Crash
<1>2. ASSUME NEW p \in Procs, NextRequest(p) PROVE LoggedInv'
  BY <1>2, KnownGo DEF NextRequest, At, Logging
<1>3. CASE UNCHANGED vars
  BY <1>3 DEF vars, LoggedInv, Content, Readable
<1> QED BY <1>1, <1>2, <1>3, KnownLoad, KnownRouting, KnownLearn, KnownAppend, KnownSave DEF Next, Step

LEMMA LoggedInit == Init => LoggedInv
<1>1. Nothing # "upsert" /\ {} \subseteq Subject
  BY StateAssumption DEF Commands
<1> QED BY <1>1, IdleType, NoneObserved DEF Init, LoggedInv, Known, Content, Files

\* LearnedIsLogged, for every number of processes, observations and faults: cli.py appends
\* to the log before it saves, and whoever loads gets what somebody saved.
THEOREM SavedIsLogged == Spec => []LearnedIsLogged
<1>1. LoggedInv => LearnedIsLogged
  BY DEF LoggedInv, LearnedIsLogged
<1>2. StateTypeOK /\ LoggedInv /\ [Next]_vars => (StateTypeOK /\ LoggedInv)'
  BY TypeStep, LoggedStep
<1> QED BY <1>1, <1>2, TypeInit, LoggedInit, PTL DEF Spec

-----------------------------------------------------------------------------
(* What a save takes away *)

\* A process that has loaded a file, and was not overtaken, has all of it in memory, and
\* finds nothing where it is about to put its own.
UpToDate(r) ==
    /\ r.pc \in {"installing", "restoring"} => Content(File(r.command)) = {}
    /\ r.pc \notin {"idle", "loading"} => Content(File(r.command)) \cup Observed(r.backup) \subseteq r.memory

OverlapInv == \A p \in Procs : /\ p \notin overtaken => UpToDate(proc[p])
                               /\ proc[p].pc # "installing" => proc[p].backup = Absent

\* A process that does not add to a file.
LEMMA UpToDateStep ==
    ASSUME StateTypeOK, OverlapInv, NEW p \in Procs, NEW r, Becomes(p, r),
           \A q \in Procs \ {p} : q \in overtaken' \/ (/\ q \notin overtaken
                                                      /\ Observed(disk'[File(proc[q].command)]) \subseteq
                                                            Content(File(proc[q].command))),
           p \notin overtaken' => UpToDate(r)', r.pc # "installing" => r.backup = Absent
    PROVE  OverlapInv'
<1>1. \A q \in Procs : proc'[q] = IF q = p THEN r ELSE proc[q]
  BY DEF Becomes, StateTypeOK
<1> QED BY <1>1 DEF OverlapInv, UpToDate, Content

\* A process that ends, or starts, and leaves the files alone.
LEMMA UpToDateExit ==
    ASSUME StateTypeOK, OverlapInv, NEW p \in Procs, NEW r, Becomes(p, r), UNCHANGED disk,
           overtaken' = overtaken \/ overtaken' = overtaken \ {p},
           r.pc \in {"idle", "loading"}, r.backup = Absent
    PROVE  OverlapInv'
<1>1. UpToDate(r)'
  BY DEF UpToDate
<1> QED BY <1>1, UpToDateStep DEF Content

\* A process that learns, and leaves the files alone.
LEMMA UpToDateLocal ==
    ASSUME StateTypeOK, OverlapInv, NEW p \in Procs, NEW r, Becomes(p, r), UNCHANGED <<disk, overtaken>>,
           proc[p].pc \notin {"idle", "loading", "installing"}, r.pc # "installing",
           r.pc = "restoring" => Content(File(r.command)) = {},
           r.command = proc[p].command, proc[p].memory \subseteq r.memory, r.backup = proc[p].backup
    PROVE  OverlapInv'
<1>1. UpToDate(r)' <=> UpToDate(r)
  BY DEF UpToDate, Content
<1>2. UpToDate(proc[p]) => UpToDate(r)
  BY DEF UpToDate
<1>3. p \notin overtaken' => UpToDate(r)'
  BY <1>1, <1>2 DEF OverlapInv
<1>4. r.backup = Absent
  BY DEF OverlapInv
<1> QED BY <1>3, <1>4, UpToDateStep DEF Content

LEMMA UpToDateGo ==
    ASSUME StateTypeOK, OverlapInv, NEW p \in Procs, NEW place, Go(p, place), UNCHANGED <<disk, overtaken>>,
           proc[p].pc \notin {"idle", "loading", "installing"}, place # "installing",
           place = "restoring" => Content(File(proc[p].command)) = {}
    PROVE  OverlapInv'
<1> DEFINE r == [proc[p] EXCEPT !.pc = place]
<1>1. /\ Becomes(p, r) /\ r.pc = place /\ r.command = proc[p].command
      /\ r.memory = proc[p].memory /\ r.backup = proc[p].backup
  BY DEF Go, Becomes, StateTypeOK, Locals
<1> HIDE DEF r
<1> QED BY <1>1, UpToDateLocal

\* A process that ends after it changed its file: it overtakes whoever had loaded it.
LEMMA UpToDateSaved ==
    ASSUME StateTypeOK, OverlapInv, NEW p \in Procs, Exit(p),
           NEW content, disk' = [disk EXCEPT ![File(proc[p].command)] = content],
           overtaken' = overtaken \cup Overtakes(p) \/ (Observed(content) = {} /\ UNCHANGED overtaken)
    PROVE  OverlapInv'
<1>1. UpToDate(Idle)' /\ Becomes(p, Idle) /\ Idle.backup = Absent
  BY IdleType DEF UpToDate, Exit, Becomes
<1>2. ASSUME NEW q \in Procs \ {p}, q \notin overtaken', proc[q].pc \notin {"idle", "loading"}
      PROVE  Observed(disk'[File(proc[q].command)]) \subseteq Content(File(proc[q].command))
  <2>1. CASE File(proc[q].command) = File(proc[p].command)
    BY <1>2, <2>1, FileType DEF Overtakes, Content, StateTypeOK
  <2>2. CASE File(proc[q].command) # File(proc[p].command)
    BY <1>2, <2>2, FileType DEF Content, StateTypeOK
  <2> QED BY <2>1, <2>2
<1>3. \A q \in Procs : proc'[q] = IF q = p THEN Idle ELSE proc[q]
  BY <1>1 DEF Becomes, StateTypeOK
<1>4. overtaken \subseteq overtaken'
  OBVIOUS
<1>5. ASSUME NEW q \in Procs \ {p}, q \notin overtaken' PROVE UpToDate(proc[q])'
  <2>1. UpToDate(proc[q])
    BY <1>4, <1>5 DEF OverlapInv
  <2>2. File(proc'[q].command) = File(proc[q].command) /\ proc'[q] = proc[q]
    BY <1>3
  <2> QED BY <1>2, <1>5, <2>1, <2>2 DEF UpToDate, Content
<1> QED BY <1>1, <1>3, <1>5 DEF OverlapInv, Content

LEMMA UpToDateStart ==
    ASSUME StateTypeOK, OverlapInv, NEW p \in Procs,
           Start(p) \/ Load(p) \/ LoadVanishes(p) \/ Report(p) \/ Crash(p)
    PROVE  OverlapInv'
<1>1. ASSUME Exit(p), UNCHANGED disk, overtaken' = overtaken \/ overtaken' = overtaken \ {p} PROVE OverlapInv'
  BY <1>1, IdleType, UpToDateExit DEF Exit, Becomes
<1>2. CASE Start(p)
  <2>1. PICK c \in Commands : \E e, n :
            Becomes(p, [Idle EXCEPT !.command = c, !.pc = "loading", !.event = e, !.left = n])
    BY <1>2 DEF Start, Becomes
  <2>2. PICK e, n : Becomes(p, [Idle EXCEPT !.command = c, !.pc = "loading", !.event = e, !.left = n])
    BY <2>1
  <2>3. UNCHANGED <<disk, overtaken>>
    BY <1>2 DEF Start
  <2> QED BY <2>2, <2>3, UpToDateExit DEF Idle
<1>3. CASE Load(p) /\ ~Exit(p)
  <2> DEFINE content == IF disk[File(proc[p].command)] = Absent THEN {} ELSE disk[File(proc[p].command)]
             place == CASE proc[p].command = "feedback" -> "learning"
                        [] proc[p].command = "upsert" -> "changing"
                        [] OTHER -> "routing"
  <2>1. /\ Becomes(p, [proc[p] EXCEPT !.memory = content, !.pc = place])
        /\ proc[p] \in Locals /\ proc[p].pc = "loading" /\ UNCHANGED disk /\ overtaken' = overtaken \ {p}
    BY <1>3 DEF Load, At, Becomes, StateTypeOK
  <2>2. disk[File(proc[p].command)] # Empty /\ disk[File(proc[p].command)] \in Contents
    BY <1>3, FileType DEF Load, StateTypeOK
  <2>3. content = Content(File(proc[p].command))
    BY <2>2, NoneObserved DEF Contents, Content
  <2>4. place \in {"learning", "changing", "routing"}
    OBVIOUS
  <2>5. PICK m : m = content
    OBVIOUS
  <2>6. PICK pc \in {"learning", "changing", "routing"} : pc = place
    BY <2>4
  <2> DEFINE r == [proc[p] EXCEPT !.memory = m, !.pc = pc]
  <2>7. r.memory = m /\ r.pc = pc /\ r.command = proc[p].command /\ r.backup = Absent
    BY <2>1 DEF Locals, OverlapInv
  <2>8. Becomes(p, r)
    BY <2>1, <2>5, <2>6
  <2> HIDE DEF r
  <2>9. PICK s : s = r
    OBVIOUS
  <2>10. UpToDate(s)'
    BY <2>1, <2>3, <2>5, <2>7, <2>9, NoneObserved DEF UpToDate, Content
  <2> QED BY <2>1, <2>7, <2>8, <2>9, <2>10, UpToDateStep DEF Content
<1>4. CASE Load(p) /\ Exit(p)
  BY <1>1, <1>4 DEF Load
<1>5. CASE LoadVanishes(p) \/ Report(p) \/ Crash(p)
  BY <1>1, <1>5 DEF LoadVanishes, Report, Crash
<1> QED BY <1>2, <1>3, <1>4, <1>5

LEMMA UpToDateWork ==
    ASSUME StateTypeOK, OverlapInv, NEW p \in Procs,
           \/ Routed(p) \/ NotRouted(p) \/ Learn(p) \/ Change(p) \/ CheckLog(p) \/ AppendLine(p)
           \/ AppendTears(p) \/ NextRequest(p)
    PROVE  OverlapInv'
<1>1. /\ proc[p] \in Locals /\ UNCHANGED <<disk, overtaken>>
      /\ proc[p].pc \notin {"idle", "loading", "installing"}
  BY DEF Routed, NotRouted, Learn, Change, CheckLog, AppendLine, AppendTears, NextRequest, At, StateTypeOK
<1>2. CASE Exit(p)
  BY <1>1, <1>2, IdleType, UpToDateExit DEF Exit, Becomes
<1>3. ASSUME NEW place \in {"saving", "writing", "routing"}, Go(p, place) PROVE OverlapInv'
  BY <1>1, <1>3, UpToDateGo
<1>4. ASSUME NEW place \in {"appending", "next", "saving"}, NEW m, NEW e, NEW n, proc[p].memory \subseteq m,
             Becomes(p, [proc[p] EXCEPT !.pc = place, !.memory = m, !.event = e, !.left = n])
      PROVE  OverlapInv'
  <2> DEFINE r == [proc[p] EXCEPT !.pc = place, !.memory = m, !.event = e, !.left = n]
  <2>1. r.pc = place /\ r.memory = m /\ r.command = proc[p].command /\ r.backup = proc[p].backup
    BY <1>1 DEF Locals
  <2>2. Becomes(p, r)
    BY <1>4
  <2> HIDE DEF r
  <2> QED BY <1>1, <1>4, <2>1, <2>2, UpToDateLocal
<1>5. CASE ~Exit(p) /\ \A place \in {"saving", "writing", "routing"} : ~Go(p, place)
  <2>1. PICK m : m = proc[p].memory \cup {proc[p].event}
    OBVIOUS
  <2>2. \E place \in {"appending", "next", "saving"}, k \in {proc[p].memory, m} : \E e, n :
            proc' = [proc EXCEPT ![p] = [proc[p] EXCEPT !.pc = place, !.memory = k, !.event = e, !.left = n]]
    <3>1. CASE Routed(p)
      <4>1. PICK e : proc' = [proc EXCEPT ![p].pc = "appending", ![p].event = e, ![p].left = @ - 1]
        BY <1>5, <3>1 DEF Routed
      <4>2. proc' = [proc EXCEPT ![p] = [proc[p] EXCEPT !.pc = "appending", !.memory = proc[p].memory,
                                              !.event = e, !.left = proc[p].left - 1]]
        BY <1>1, <4>1 DEF Locals
      <4> QED BY <4>2
    <3>2. CASE NotRouted(p)
      <4>1. proc' = [proc EXCEPT ![p] = [proc[p] EXCEPT !.pc = "next", !.memory = proc[p].memory,
                                              !.event = proc[p].event, !.left = proc[p].left - 1]]
        BY <1>1, <1>5, <3>2 DEF NotRouted, Locals
      <4> QED BY <4>1
    <3>3. CASE Learn(p)
      <4>1. proc' = [proc EXCEPT ![p] = [proc[p] EXCEPT !.pc = "appending", !.memory = m,
                                              !.event = proc[p].event, !.left = proc[p].left]]
        BY <1>1, <2>1, <3>3 DEF Learn, Locals
      <4> QED BY <4>1
    <3>4. CASE Change(p)
      <4>1. proc' = [proc EXCEPT ![p] = [proc[p] EXCEPT !.pc = "saving", !.memory = m,
                                              !.event = proc[p].event, !.left = proc[p].left]]
        BY <1>1, <2>1, <3>4 DEF Change, Locals
      <4> QED BY <4>1
    <3>5. CASE CheckLog(p) \/ AppendTears(p)
      <4>1. proc' = [proc EXCEPT ![p] = [proc[p] EXCEPT !.pc = "next", !.memory = proc[p].memory,
                                              !.event = Nothing, !.left = proc[p].left]]
        BY <1>1, <1>5, <3>5 DEF CheckLog, AppendTears, AppendRaises, Locals
      <4> QED BY <4>1
    <3>6. CASE AppendLine(p)
      <4>1. proc' = [proc EXCEPT ![p] = [proc[p] EXCEPT !.pc = "next", !.memory = m,
                                              !.event = Nothing, !.left = proc[p].left]]
        BY <1>1, <1>5, <2>1, <3>6 DEF AppendLine, Locals
      <4> QED BY <4>1
    <3>7. CASE NextRequest(p)
      BY <1>5, <3>7 DEF NextRequest
    <3> QED BY <3>1, <3>2, <3>3, <3>4, <3>5, <3>6, <3>7
  <2>3. PICK place \in {"appending", "next", "saving"}, k \in {proc[p].memory, m} : \E e, n :
            Becomes(p, [proc[p] EXCEPT !.pc = place, !.memory = k, !.event = e, !.left = n])
    BY <2>2 DEF Becomes
  <2>4. PICK e, n : Becomes(p, [proc[p] EXCEPT !.pc = place, !.memory = k, !.event = e, !.left = n])
    BY <2>3
  <2> QED BY <1>4, <2>1, <2>3, <2>4
<1> QED BY <1>2, <1>3, <1>5

LEMMA UpToDateSave ==
    ASSUME StateTypeOK, OverlapInv, NEW p \in Procs,
           \/ LookForOld(p) \/ MoveAway(p) \/ MoveVanishes(p) \/ GuessMoved(p)
           \/ RestorePlaceholder(p) \/ Install(p) \/ InstallFails(p)
    PROVE  OverlapInv'
<1> DEFINE f == File(proc[p].command)
<1>1. proc[p] \in Locals /\ proc[p].pc \in Saving /\ f \in Files
  BY FileType DEF StateTypeOK, LookForOld, MoveAway, MoveVanishes, GuessMoved, RestorePlaceholder, Install,
     InstallFails, At, Saving
<1>2. ASSUME NEW b, Becomes(p, [proc[p] EXCEPT !.backup = b, !.pc = "installing"]),
             UNCHANGED overtaken, proc[p].pc # "installing", disk' = [disk EXCEPT ![f] = Absent],
             Observed(b) \subseteq Content(f)
      PROVE  OverlapInv'
  <2> DEFINE r == [proc[p] EXCEPT !.backup = b, !.pc = "installing"]
  <2>1. r.pc = "installing" /\ r.memory = proc[p].memory /\ r.command = proc[p].command /\ r.backup = b
    BY <1>1 DEF Locals
  <2>2. Becomes(p, r)
    BY <1>2
  <2> HIDE DEF r
  <2>3. PICK s : s = r
    OBVIOUS
  <2>4. Observed(disk'[f]) = {} /\ \A g \in Files : Observed(disk'[g]) \subseteq Content(g)
    BY <1>1, <1>2, NoneObserved DEF StateTypeOK, Content
  <2>5. p \notin overtaken => Content(f) \subseteq proc[p].memory
    BY <1>1 DEF OverlapInv, UpToDate, Saving
  <2>6. p \notin overtaken => UpToDate(s)'
    BY <1>2, <2>1, <2>3, <2>4, <2>5 DEF UpToDate, Content
  <2> QED BY <1>2, <2>1, <2>2, <2>3, <2>4, <2>6, FileType, UpToDateStep DEF Content
<1>3. CASE LookForOld(p)
  <2>1. CASE Go(p, "moving")
    BY <1>3, <2>1, UpToDateGo DEF LookForOld, At
  <2>2. CASE ~Go(p, "moving")
    <3>1. Becomes(p, [proc[p] EXCEPT !.backup = Absent, !.pc = "installing"]) /\ disk[f] = Absent
      BY <1>3, <2>2 DEF LookForOld, Becomes
    <3>2. disk' = [disk EXCEPT ![f] = Absent]
      BY <1>1, <1>3, <3>1 DEF LookForOld, StateTypeOK
    <3> QED BY <1>2, <1>3, <3>1, <3>2, NoneObserved DEF LookForOld, At
  <2> QED BY <2>1, <2>2
<1>4. CASE MoveAway(p)
  BY <1>2, <1>4 DEF MoveAway, At, Becomes, Content
<1>5. CASE MoveVanishes(p)
  BY <1>5, UpToDateGo DEF MoveVanishes, At
<1>6. CASE GuessMoved(p)
  <2>1. CASE disk[f] = Absent
    BY <1>6, <2>1, NoneObserved, UpToDateGo DEF GuessMoved, At, Content
  <2>2. CASE disk[f] # Absent
    BY <1>6, <2>2, IdleType, UpToDateExit DEF GuessMoved, Exit, Becomes
  <2> QED BY <2>1, <2>2
<1>7. CASE RestorePlaceholder(p)
  BY <1>7, NoneObserved, UpToDateSaved DEF RestorePlaceholder
<1>8. CASE Install(p)
  BY <1>8, UpToDateSaved DEF Install
<1>9. CASE InstallFails(p)
  BY <1>9, UpToDateSaved DEF InstallFails
<1> QED BY <1>3, <1>4, <1>5, <1>6, <1>7, <1>8, <1>9

LEMMA OverlapStep == ASSUME StateTypeOK, OverlapInv, [Next]_vars PROVE OverlapInv'
<1>1. CASE UNCHANGED vars
  BY <1>1 DEF vars, OverlapInv, UpToDate, Content
<1> QED BY <1>1, UpToDateStart, UpToDateWork, UpToDateSave DEF Next, Step

LEMMA OverlapInit == Init => OverlapInv
BY IdleType DEF Init, OverlapInv, UpToDate

Forgets(p, f) ==
    /\ proc[p].pc \in {"installing", "restoring"} /\ File(proc[p].command) = f
    /\ ~(Content(f) \cup Observed(proc[p].backup) \subseteq Observed(disk'[f]))
    /\ proc'[p].pc = "idle"

LEMMA ForgetsStep ==
    ASSUME StateTypeOK, OverlapInv, [Next]_vars, NEW p \in Procs, NEW f \in Files, Forgets(p, f)
    PROVE  p \in overtaken \/ f \in orphaned'
<1>1. PICK q \in Procs : Step(q)
  BY DEF Next, vars, Forgets
<1>2. proc[p] \in Locals /\ proc[q] \in Locals
  BY DEF StateTypeOK
<1>3. proc'[p] # proc[p]
  BY DEF Forgets
<1>4. q = p
  BY <1>1, <1>3 DEF Step, Start, Load, LoadVanishes, Routed, NotRouted, Learn, Change, CheckLog, AppendLine,
     AppendTears, AppendRaises, NextRequest, Report, LookForOld, MoveAway, MoveVanishes, GuessMoved,
     RestorePlaceholder, Install, InstallFails, Crash, Go, Exit, StateTypeOK
<1>5. SUFFICES ASSUME p \notin overtaken PROVE f \in orphaned'
  OBVIOUS
<1>6. /\ Content(f) = {} /\ Observed(proc[p].backup) \subseteq proc[p].memory
      /\ proc[p].pc = "restoring" => Observed(proc[p].backup) = {}
  BY <1>5, NoneObserved DEF Forgets, OverlapInv, UpToDate
<1>7. CASE RestorePlaceholder(p)
  BY <1>6, <1>7 DEF RestorePlaceholder, At, Forgets
<1>8. CASE Install(p) \/ InstallFails(p)
  <2>1. Observed(proc[p].memory) = proc[p].memory
    BY <1>2, NoneObserved DEF Locals
  <2> QED BY <1>6, <1>8, <2>1 DEF Install, InstallFails, Forgets, StateTypeOK
<1>9. CASE Crash(p)
  BY <1>6, <1>9 DEF Crash, At, Forgets
<1>10. RestorePlaceholder(p) \/ Install(p) \/ InstallFails(p) \/ Crash(p)
  BY <1>1, <1>4 DEF Forgets, Step, Start, Load, LoadVanishes, Routed, NotRouted, Learn, Change, CheckLog,
     AppendLine, AppendTears, NextRequest, Report, LookForOld, MoveAway, MoveVanishes, GuessMoved, At
<1> QED BY <1>7, <1>8, <1>9, <1>10

\* OnlyOverlapForgets, for every number of processes and faults: what a command takes from a
\* file that nobody saved since it loaded, it has learned itself or keeps.
THEOREM SaveKeepsWhatItLoaded == Spec => OnlyOverlapForgets
<1>1. StateTypeOK /\ OverlapInv /\ [Next]_vars => (StateTypeOK /\ OverlapInv)'
  BY TypeStep, OverlapStep
<1>2. StateTypeOK /\ OverlapInv /\ [Next]_vars
      => [\A p \in Procs, f \in Files :
            /\ proc[p].pc \in {"installing", "restoring"} /\ File(proc[p].command) = f
            /\ ~(Content(f) \cup Observed(proc[p].backup) \subseteq Observed(disk'[f]))
            /\ proc'[p].pc = "idle"
            => p \in overtaken \/ f \in orphaned']_vars
  BY ForgetsStep DEF Forgets
<1> QED BY <1>1, <1>2, TypeInit, OverlapInit, PTL DEF Spec, OnlyOverlapForgets

-----------------------------------------------------------------------------
(* What the log shows *)

Observes(r) == r.command # "upsert" /\ r.event # Nothing

\* What each process observes is its own, and what it is about to log is not logged.
OnceInv ==
    /\ \A i, j \in DOMAIN log : log[i] = log[j] /\ log[i] \in Events => i = j
    /\ \A p \in Procs : At(p, "writing") => proc[p].event \notin ToSet(log)
    /\ \A p, q \in Procs : p # q /\ Observes(proc[p]) /\ Observes(proc[q]) => proc[p].event # proc[q].event
    /\ Readable => /\ told \subseteq ToSet(log)
                   /\ \A p \in Procs : proc[p].command = "feedback" /\ proc[p].pc \in Saving
                                          => proc[p].event \in ToSet(log)

LEMMA LineAfterOnce ==
    ASSUME LogTypeOK, NEW e \in Events \cup {Torn}, log' = LineAfter(log, e), e \notin Events \/ e \notin ToSet(log),
           \A i, j \in DOMAIN log : log[i] = log[j] /\ log[i] \in Events => i = j
    PROVE  /\ \A i, j \in DOMAIN log' : log'[i] = log'[j] /\ log'[i] \in Events => i = j
           /\ ToSet(log') \subseteq ToSet(log) \cup {e, Torn}
<1>1. CASE unended
  <2>1. DOMAIN log' = DOMAIN log /\ \A i \in DOMAIN log : log'[i] \in {log[i], Torn}
    BY <1>1 DEF LineAfter, LogTypeOK
  <2> QED BY <2>1, StateAssumption DEF ToSet
<1>2. CASE ~unended
  <2>1. log' = Append(log, e) /\ log \in Seq(Events \cup {Torn})
    BY <1>2 DEF LineAfter, LogTypeOK
  <2>2. /\ DOMAIN log' = 1..(Len(log) + 1) /\ DOMAIN log = 1..Len(log) /\ Len(log) \in Nat
        /\ \A i \in 1..Len(log) : log'[i] = log[i]
        /\ log'[Len(log) + 1] = e
    BY <2>1
  <2>3. \A i \in 1..Len(log) : e \in Events => log[i] # e
    BY <2>2 DEF ToSet
  <2>4. ASSUME NEW i \in 1..(Len(log) + 1), NEW j \in 1..(Len(log) + 1),
               log'[i] = log'[j], log'[i] \in Events
        PROVE  i = j
    BY <2>2, <2>3, <2>4
  <2>5. ToSet(log') \subseteq ToSet(log) \cup {e}
    BY <2>2 DEF ToSet
  <2> QED BY <2>2, <2>4, <2>5
<1> QED BY <1>1, <1>2 DEF LogTypeOK

LEMMA OnceStep ==
    ASSUME StateTypeOK, OnceInv, [Next]_vars, NEW p \in Procs, NEW r, Becomes(p, r),
           NEW e \in Events \cup {Torn}, UNCHANGED <<log, unended>> \/ Writes(e),
           e \in Events => At(p, "writing") /\ e = proc[p].event,
           Observes(r) => \A q \in Procs \ {p} : Observes(proc[q]) => r.event # proc[q].event,
           r.pc = "writing" => r.event \notin ToSet(log'),
           Readable' => told' \subseteq ToSet(log'),
           Readable' /\ r.command = "feedback" /\ r.pc \in Saving => r.event \in ToSet(log')
    PROVE  OnceInv'
<1>1. \A q \in Procs : proc'[q] = IF q = p THEN r ELSE proc[q]
  BY DEF Becomes, StateTypeOK
<1>2. e \notin Events \/ e \notin ToSet(log)
  BY DEF OnceInv
<1>3. /\ \A i, j \in DOMAIN log' : log'[i] = log'[j] /\ log'[i] \in Events => i = j
      /\ ToSet(log') \subseteq ToSet(log) \cup {e, Torn}
  BY <1>2, LineAfterOnce DEF OnceInv, StateTypeOK, LogTypeOK, Writes
<1>4. ASSUME NEW q \in Procs \ {p}, proc[q].pc = "writing" PROVE proc[q].event \notin ToSet(log')
  <2>1. /\ proc[q].event \notin ToSet(log) /\ proc[q].event \in Events
        /\ proc[q].command \in {"feedback", "simulate"} /\ Observes(proc[q])
    BY <1>4, StateAssumption DEF OnceInv, At, StateTypeOK, OnCourse, Logging, Observes
  <2>2. CASE e \in Events
    <3>1. proc[p].command \in {"feedback", "simulate"} /\ proc[p].event \in Events /\ Observes(proc[p])
      BY <2>2, StateAssumption DEF At, StateTypeOK, OnCourse, Logging, Observes
    <3>2. proc[q].event # e
      BY <2>1, <2>2, <3>1 DEF OnceInv
    <3> QED BY <1>3, <2>1, <3>2, StateAssumption
  <2>3. CASE e = Torn
    BY <1>3, <2>1, <2>3, StateAssumption
  <2> QED BY <2>2, <2>3
<1>5. ASSUME NEW q \in Procs, NEW s \in Procs, q # s, Observes(proc'[q]), Observes(proc'[s])
      PROVE  proc'[q].event # proc'[s].event
  BY <1>1, <1>5 DEF OnceInv
<1>6. ASSUME Readable', NEW q \in Procs \ {p}, proc[q].command = "feedback", proc[q].pc \in Saving
      PROVE  proc[q].event \in ToSet(log')
  BY <1>6, LogGrows DEF OnceInv
<1>7. \A q \in Procs : proc'[q].pc = "writing" => proc'[q].event \notin ToSet(log')
  BY <1>1, <1>4
<1>8. Readable' => \A q \in Procs : proc'[q].command = "feedback" /\ proc'[q].pc \in Saving
                                   => proc'[q].event \in ToSet(log')
  BY <1>1, <1>6
<1> QED BY <1>3, <1>5, <1>7, <1>8 DEF OnceInv, At

\* A process that observes nothing new, and does not come to the log.
LEMMA OnceKept ==
    ASSUME StateTypeOK, OnceInv, [Next]_vars, NEW p \in Procs, NEW r, Becomes(p, r),
           OwnLine(p), UNCHANGED told, r.pc # "writing",
           \/ ~Observes(r)
           \/ /\ r.event = proc[p].event /\ r.command = proc[p].command
              /\ r.pc \in Saving /\ r.command = "feedback" => proc[p].pc \in Saving,
           r.command = "feedback" /\ r.pc \in Saving => Observes(r)
    PROVE  OnceInv'
<1>1. Observes(r) => \A q \in Procs \ {p} : Observes(proc[q]) => r.event # proc[q].event
  BY DEF OnceInv, Observes
<1>2. Readable' => told' \subseteq ToSet(log')
  BY LogGrows DEF OnceInv
<1>3. Readable' /\ r.command = "feedback" /\ r.pc \in Saving => r.event \in ToSet(log')
  BY LogGrows DEF OnceInv
<1>4. PICK e \in Events \cup {Torn} : /\ UNCHANGED <<log, unended>> \/ Writes(e)
                                      /\ e \in Events => At(p, "writing") /\ e = proc[p].event
  BY StateAssumption DEF OwnLine
<1> QED BY <1>1, <1>2, <1>3, <1>4, OnceStep

LEMMA OnceExit ==
    ASSUME StateTypeOK, OnceInv, [Next]_vars, NEW p \in Procs, Exit(p),
           OwnLine(p), UNCHANGED told
    PROVE  OnceInv'
<1>1. Becomes(p, Idle) /\ Idle.command # "feedback" /\ ~Observes(Idle)
  BY IdleType, StateAssumption DEF Exit, Becomes, Observes, Commands
<1> QED BY <1>1, IdleType, OnceKept

\* A process that observes what nobody did.
LEMMA OnceFresh ==
    ASSUME StateTypeOK, OnceInv, [Next]_vars, NEW p \in Procs, NEW r, Becomes(p, r),
           UNCHANGED <<log, unended, told>>, r.pc \in {"loading", "appending"}, Observes(r) => r.event \in Fresh
    PROVE  OnceInv'
<1>1. ASSUME NEW q \in Procs, r.event \in Fresh, r.event = proc[q].event PROVE FALSE
  <2>1. {proc[q].event} \cup proc[q].memory \in {{proc[x].event} \cup proc[x].memory : x \in Procs}
    OBVIOUS
  <2>2. r.event \in UNION {{proc[x].event} \cup proc[x].memory : x \in Procs}
    BY <1>1, <2>1
  <2> QED BY <1>1, <2>2 DEF Fresh
<1>2. Readable' => told' \subseteq ToSet(log')
  BY DEF OnceInv, Readable
<1>3. Torn \in Events \cup {Torn} /\ Torn \notin Events
  BY StateAssumption
<1>4. PICK e \in Events \cup {Torn} : e = Torn
  BY <1>3
<1> QED BY <1>1, <1>2, <1>3, <1>4, OnceStep DEF Saving

LEMMA OnceStart == ASSUME StateTypeOK, OnceInv, [Next]_vars, NEW p \in Procs, Start(p) PROVE OnceInv'
<1>1. PICK c \in Commands : \E e \in Subjects(c), n \in IF c = "simulate" THEN 1..MaxRuns ELSE {0} :
          Becomes(p, [Idle EXCEPT !.command = c, !.pc = "loading", !.event = e, !.left = n])
  BY DEF Start, Becomes
<1>2. PICK e \in Subjects(c), n \in IF c = "simulate" THEN 1..MaxRuns ELSE {0} :
          Becomes(p, [Idle EXCEPT !.command = c, !.pc = "loading", !.event = e, !.left = n])
  BY <1>1, Zenon
<1> DEFINE r == [Idle EXCEPT !.command = c, !.pc = "loading", !.event = e, !.left = n]
<1>3. r.command = c /\ r.pc = "loading" /\ r.event = e
  BY DEF Idle
<1>4. e \in Fresh \/ e = Nothing \/ c = "upsert"
  BY DEF Subjects, Commands
<1>5. Becomes(p, r)
  BY <1>2
<1> HIDE DEF r
<1>6. Observes(r) => r.event \in Fresh
  BY <1>3, <1>4 DEF Observes
<1> QED BY <1>3, <1>5, <1>6, OnceFresh DEF Start

\* Moving on, keeping the observation.
LEMMA OnceGo ==
    ASSUME StateTypeOK, OnceInv, [Next]_vars, NEW p \in Procs, NEW r, Becomes(p, r),
           r.event = proc[p].event, r.command = proc[p].command, r.pc # "writing", UNCHANGED <<log, unended, told>>,
           r.pc \in Saving /\ r.command = "feedback" => proc[p].pc \in Saving
    PROVE  OnceInv'
<1>1. r.command = "feedback" => Observes(r)
  BY StateAssumption DEF StateTypeOK, OnCourse, Observes
<1> QED BY <1>1, OnceKept DEF OwnLine

LEMMA OnceLocal ==
    ASSUME StateTypeOK, OnceInv, [Next]_vars, NEW p \in Procs,
           \/ Load(p) \/ Routed(p) \/ NotRouted(p) \/ Learn(p) \/ Change(p) \/ NextRequest(p)
    PROVE  OnceInv'
<1>1. proc[p] \in Locals /\ OnCourse(proc[p]) /\ UNCHANGED <<log, unended, told>>
  BY DEF Load, Routed, NotRouted, Learn, Change, NextRequest, StateTypeOK
<1>2. ASSUME NEW place, place # "writing", NEW m, NEW n,
             Becomes(p, [proc[p] EXCEPT !.pc = place, !.memory = m, !.left = n]),
             place \in Saving => proc[p].command # "feedback"
      PROVE  OnceInv'
  <2> DEFINE r == [proc[p] EXCEPT !.pc = place, !.memory = m, !.left = n]
  <2>1. r.pc = place /\ r.command = proc[p].command /\ r.event = proc[p].event
    BY <1>1 DEF Locals
  <2>2. Becomes(p, r)
    BY <1>2
  <2> HIDE DEF r
  <2> QED BY <1>1, <1>2, <2>1, <2>2, OnceGo
<1>3. ASSUME Exit(p) PROVE OnceInv'
  BY <1>1, <1>3, OnceExit DEF OwnLine
<1>4. CASE Load(p) /\ ~Exit(p)
  <2> DEFINE content == IF disk[File(proc[p].command)] = Absent THEN {} ELSE disk[File(proc[p].command)]
             place == CASE proc[p].command = "feedback" -> "learning"
                        [] proc[p].command = "upsert" -> "changing"
                        [] OTHER -> "routing"
  <2>1. proc' = [proc EXCEPT ![p].memory = content, ![p].pc = place]
    BY <1>4 DEF Load
  <2>2. place # "writing" /\ place \notin Saving
    BY DEF Saving
  <2>3. PICK pc, m : pc = place /\ m = content
    OBVIOUS
  <2>4. Becomes(p, [proc[p] EXCEPT !.pc = pc, !.memory = m, !.left = proc[p].left])
    <3>1. proc' = [proc EXCEPT ![p].memory = m, ![p].pc = pc]
      BY <2>1, <2>3
    <3> QED BY <1>1, <3>1 DEF Locals, Becomes
  <2> QED BY <1>2, <2>2, <2>3, <2>4
<1>5. CASE Routed(p) /\ proc[p].command = "route"
  <2>1. Becomes(p, [proc[p] EXCEPT !.pc = "saving", !.memory = proc[p].memory, !.left = proc[p].left])
    BY <1>1, <1>5 DEF Routed, Go, Becomes, Locals
  <2> QED BY <1>2, <1>5, <2>1
<1>6. CASE Routed(p) /\ proc[p].command # "route"
  <2>1. PICK e \in Fresh : proc' = [proc EXCEPT ![p].pc = "appending", ![p].event = e, ![p].left = @ - 1]
    BY <1>6 DEF Routed
  <2> DEFINE r == [proc[p] EXCEPT !.pc = "appending", !.event = e, !.left = proc[p].left - 1]
  <2>2. Becomes(p, r)
    BY <1>1, <2>1 DEF Becomes
  <2>3. r.pc = "appending" /\ r.event = e
    BY <1>1 DEF Locals
  <2> HIDE DEF r
  <2> QED BY <1>1, <2>1, <2>2, <2>3, OnceFresh
<1>7. CASE NotRouted(p)
  <2>1. ~Exit(p) => Becomes(p, [proc[p] EXCEPT !.pc = "next", !.memory = proc[p].memory, !.left = proc[p].left - 1])
    BY <1>1, <1>7 DEF NotRouted, Becomes, Locals
  <2>2. "next" # "writing" /\ "next" \notin Saving
    BY DEF Saving
  <2>3. CASE ~Exit(p)
    <3>1. PICK n : n = proc[p].left - 1
      OBVIOUS
    <3> QED BY <1>2, <2>1, <2>2, <2>3, <3>1
  <2> QED BY <1>3, <2>3
<1>8. CASE Learn(p) \/ Change(p)
  <2>1. PICK m : m = proc[p].memory \cup {proc[p].event}
    OBVIOUS
  <2>2. CASE Learn(p)
    <3>1. Becomes(p, [proc[p] EXCEPT !.pc = "appending", !.memory = m, !.left = proc[p].left])
      BY <1>1, <2>1, <2>2 DEF Learn, Becomes, Locals
    <3> QED BY <1>2, <3>1 DEF Saving
  <2>3. CASE Change(p)
    <3>1. Becomes(p, [proc[p] EXCEPT !.pc = "saving", !.memory = m, !.left = proc[p].left])
      BY <1>1, <2>1, <2>3 DEF Change, Becomes, Locals
    <3> QED BY <1>1, <1>2, <2>3, <3>1 DEF Change, At, OnCourse
  <2> QED BY <1>8, <2>2, <2>3
<1>9. CASE NextRequest(p)
  <2>1. PICK place \in {"routing", "saving"} : Go(p, place)
    BY <1>9 DEF NextRequest
  <2>2. Becomes(p, [proc[p] EXCEPT !.pc = place, !.memory = proc[p].memory, !.left = proc[p].left])
    BY <1>1, <2>1 DEF Go, Becomes, Locals
  <2>3. proc[p].command # "feedback"
    BY <1>1, <1>9 DEF NextRequest, At, OnCourse
  <2> QED BY <1>2, <2>2, <2>3
<1> QED BY <1>3, <1>4, <1>5, <1>6, <1>7, <1>8, <1>9

LEMMA OnceAppend ==
    ASSUME StateTypeOK, OnceInv, [Next]_vars, NEW p \in Procs,
           CheckLog(p) \/ AppendLine(p) \/ AppendTears(p)
    PROVE  OnceInv'
<1>1. /\ proc[p] \in Locals /\ OnCourse(proc[p]) /\ proc[p].pc \in Logging /\ proc[p].event \in Events
      /\ proc[p].command \in {"feedback", "simulate"} /\ UNCHANGED told /\ Observes(proc[p])
  BY StateAssumption DEF CheckLog, AppendLine, AppendTears, At, Logging, StateTypeOK, OnCourse, Observes
<1>2. \A q \in Procs \ {p} : Observes(proc[q]) => proc[p].event # proc[q].event
  BY <1>1 DEF OnceInv
<1>3. Readable' => told' \subseteq ToSet(log')
  BY <1>1, LogGrows DEF OnceInv
<1>4. ASSUME AppendRaises(p), OwnLine(p) PROVE OnceInv'
  <2>1. CASE proc[p].command = "feedback"
    BY <1>1, <1>4, <2>1, OnceExit DEF AppendRaises
  <2>2. CASE proc[p].command # "feedback"
    <3> DEFINE r == [proc[p] EXCEPT !.pc = "next", !.event = Nothing]
    <3>1. Becomes(p, r) /\ r.pc = "next" /\ r.event = Nothing
      BY <1>1, <1>4, <2>2 DEF AppendRaises, Becomes, Locals
    <3> HIDE DEF r
    <3> QED BY <1>1, <1>4, <3>1, OnceKept DEF Observes, Saving
  <2> QED BY <2>1, <2>2
<1>5. CASE CheckLog(p) /\ Go(p, "writing") /\ proc[p].event \notin ToSet(log)
  <2> DEFINE r == [proc[p] EXCEPT !.pc = "writing"]
  <2>1. /\ Becomes(p, r) /\ r.pc = "writing" /\ r.event = proc[p].event /\ r.command = proc[p].command
        /\ UNCHANGED <<log, unended>>
    BY <1>1, <1>5 DEF CheckLog, Go, Becomes, Locals
  <2> HIDE DEF r
  <2>2. Torn \in Events \cup {Torn} /\ Torn \notin Events
    BY StateAssumption
  <2>3. PICK e \in Events \cup {Torn} : e = Torn
    BY <2>2
  <2> QED BY <1>1, <1>2, <1>3, <1>5, <2>1, <2>2, <2>3, OnceStep DEF Saving
<1>6. CASE AppendTears(p)
  BY <1>4, <1>6, LogSteps DEF AppendTears, Step
<1>7. CASE AppendLine(p)
  <2>1. PICK e \in Events : e = proc[p].event
    BY <1>1
  <2>2. At(p, "writing") /\ log' = LineAfter(log, e) /\ Writes(e)
    BY <1>7, <2>1 DEF AppendLine, Writes
  <2>3. Readable' => e \in ToSet(log')
    BY <2>2, LineAfterGrows DEF StateTypeOK, LogTypeOK
  <2>4. CASE proc[p].command = "feedback"
    <3> DEFINE r == [proc[p] EXCEPT !.pc = "saving"]
    <3>1. Becomes(p, r) /\ r.pc = "saving" /\ r.event = e
      BY <1>1, <1>7, <2>1, <2>4 DEF AppendLine, Go, Becomes, Locals
    <3> HIDE DEF r
    <3> QED BY <1>2, <1>3, <2>1, <2>2, <2>3, <3>1, OnceStep
  <2>5. CASE proc[p].command # "feedback"
    <3> DEFINE r == [proc[p] EXCEPT !.pc = "next", !.memory = proc[p].memory \cup {e}, !.event = Nothing]
    <3>1. Becomes(p, r) /\ r.pc = "next" /\ r.event = Nothing
      BY <1>1, <1>7, <2>1, <2>5 DEF AppendLine, Becomes, Locals
    <3> HIDE DEF r
    <3> QED BY <1>3, <2>1, <2>2, <3>1, OnceStep DEF Observes, Saving
  <2> QED BY <2>4, <2>5
<1>8. CASE CheckLog(p) /\ AppendRaises(p)
  BY <1>4, <1>8 DEF CheckLog, OwnLine
<1> QED BY <1>5, <1>6, <1>7, <1>8 DEF CheckLog

LEMMA OnceSave ==
    ASSUME StateTypeOK, OnceInv, [Next]_vars, NEW p \in Procs,
           \/ LookForOld(p) \/ MoveAway(p) \/ MoveVanishes(p) \/ GuessMoved(p)
           \/ RestorePlaceholder(p) \/ Install(p) \/ InstallFails(p)
    PROVE  OnceInv'
<1>1. proc[p] \in Locals /\ proc[p].pc \in Saving /\ UNCHANGED <<log, unended>>
  BY DEF StateTypeOK, LookForOld, MoveAway, MoveVanishes, GuessMoved, RestorePlaceholder, Install,
     InstallFails, At, Saving
<1>2. ASSUME NEW place \in Saving, NEW b, Becomes(p, [proc[p] EXCEPT !.pc = place, !.backup = b]), UNCHANGED told
      PROVE  OnceInv'
  <2> DEFINE r == [proc[p] EXCEPT !.pc = place, !.backup = b]
  <2>1. r.pc = place /\ r.event = proc[p].event /\ r.command = proc[p].command
    BY <1>1 DEF Locals
  <2>2. Becomes(p, r)
    BY <1>2
  <2> HIDE DEF r
  <2> QED BY <1>1, <1>2, <2>1, <2>2, OnceGo DEF Saving
<1>3. ASSUME NEW place \in Saving, Go(p, place), UNCHANGED told PROVE OnceInv'
  <2>1. Becomes(p, [proc[p] EXCEPT !.pc = place, !.backup = proc[p].backup])
    BY <1>1, <1>3 DEF Go, Becomes, Locals
  <2> QED BY <1>2, <1>3, <2>1
<1>4. CASE LookForOld(p)
  <2>1. ~Go(p, "moving") => Becomes(p, [proc[p] EXCEPT !.pc = "installing", !.backup = Absent])
    BY <1>1, <1>4 DEF LookForOld, Becomes
  <2> QED BY <1>2, <1>3, <1>4, <2>1 DEF LookForOld, Saving
<1>5. CASE MoveAway(p)
  <2>1. PICK b : b = disk[File(proc[p].command)]
    OBVIOUS
  <2>2. Becomes(p, [proc[p] EXCEPT !.pc = "installing", !.backup = b])
    BY <1>1, <1>5, <2>1 DEF MoveAway, Becomes
  <2> QED BY <1>2, <1>5, <2>2 DEF MoveAway, Saving
<1>6. CASE MoveVanishes(p) \/ GuessMoved(p)
  BY <1>1, <1>3, <1>6, OnceExit DEF MoveVanishes, GuessMoved, Saving, OwnLine
<1>7. CASE RestorePlaceholder(p) \/ InstallFails(p)
  BY <1>1, <1>7, OnceExit DEF RestorePlaceholder, InstallFails, OwnLine
<1>8. CASE Install(p)
  <2>1. Becomes(p, Idle) /\ Idle.command # "feedback" /\ ~Observes(Idle)
    BY <1>8, IdleType, StateAssumption DEF Install, Exit, Becomes, Observes, Commands
  <2>2. Readable' => told' \subseteq ToSet(log')
    BY <1>1, <1>8 DEF Install, OnceInv, Readable
  <2>3. Torn \in Events \cup {Torn} /\ Torn \notin Events
    BY StateAssumption
  <2>4. PICK e \in Events \cup {Torn} : e = Torn
    BY <2>3
  <2> QED BY <1>1, <2>1, <2>2, <2>3, <2>4, IdleType, OnceStep
<1> QED BY <1>4, <1>5, <1>6, <1>7, <1>8

LEMMA OncePreserved == ASSUME StateTypeOK, OnceInv, [Next]_vars PROVE OnceInv'
<1>1. CASE UNCHANGED vars
  BY <1>1 DEF vars, OnceInv, At, Readable
<1>2. ASSUME NEW p \in Procs, LoadVanishes(p) \/ Report(p) \/ Crash(p) PROVE OnceInv'
  BY <1>2, LogSteps, OnceExit DEF LoadVanishes, Report, Crash, Step
<1> QED BY <1>1, <1>2, OnceStart, OnceLocal, OnceAppend, OnceSave DEF Next, Step

LEMMA OnceInit == Init => OnceInv
BY IdleType, StateAssumption DEF Init, OnceInv, At, Observes, Commands

-----------------------------------------------------------------------------
(* What a torn line takes with it *)

Reporting(r) == r.command = "feedback" /\ r.pc \in Saving

InHand(r) == r.command # "upsert" /\ r.event \in Events

LEMMA InHandObserves == \A r : InHand(r) => Observes(r)
BY StateAssumption DEF InHand, Observes

\* Every observation that was reported, or is about to be, is in the log or in G.
ShownBut(G) ==
    /\ told \subseteq ToSet(log) \cup G
    /\ \A p \in Procs : Reporting(proc[p]) => proc[p].event \in ToSet(log) \cup G

\* What is lost are as many observations as there were faults, but for a line that waits for the
\* next one to be glued to it, which nobody has reported or will report.
LossInv ==
    /\ faults \in Nat
    /\ \E G \in SUBSET Events :
          IsFiniteSet(G) /\ Cardinality(G) + (IF unended THEN 1 ELSE 0) <= faults /\ ShownBut(G)
    /\ unended => /\ Last(log) \notin told
                  /\ \A p \in Procs : InHand(proc[p]) => proc[p].event # Last(log)
    /\ \A p \in Procs : InHand(proc[p]) => proc[p].event \notin told

LEMMA ReportingObserves ==
    ASSUME StateTypeOK, NEW p \in Procs, Reporting(proc[p])
    PROVE  InHand(proc[p]) /\ proc[p].event \in Events
BY DEF StateTypeOK, OnCourse, Reporting, InHand

\* A step that leaves the log alone: its process observes what it did, or something new, and
\* reports what it was about to.
Quiet(p) ==
    /\ UNCHANGED <<log, unended>>
    /\ faults' \in {faults, faults + 1}
    /\ \A q \in Procs \ {p} : proc'[q] = proc[q]
    /\ Reporting(proc'[p]) => Reporting(proc[p]) /\ proc'[p].event = proc[p].event
    /\ InHand(proc'[p]) => \/ InHand(proc[p]) /\ proc'[p].event = proc[p].event
                           \/ proc'[p].event \in Fresh
    /\ \/ UNCHANGED told
       \/ told' = told \cup {proc[p].event} /\ Reporting(proc[p]) /\ ~InHand(proc'[p])

LEMMA LossQuiet ==
    ASSUME StateTypeOK, OnceInv, LossInv, NEW p \in Procs, Quiet(p)
    PROVE  LossInv'
<1>1. PICK G \in SUBSET Events :
          IsFiniteSet(G) /\ Cardinality(G) + (IF unended THEN 1 ELSE 0) <= faults /\ ShownBut(G)
  BY DEF LossInv
<1>2. faults' \in Nat /\ Cardinality(G) + (IF unended' THEN 1 ELSE 0) <= faults'
  <2>1. Cardinality(G) \in Nat /\ faults \in Nat /\ faults' >= faults
    BY <1>1, FS_CardinalityType DEF LossInv, Quiet
  <2> QED BY <1>1, <2>1 DEF Quiet, LossInv
<1>3. ShownBut(G)'
  BY <1>1 DEF ShownBut, Quiet
<1>4. Reporting(proc[p]) => InHand(proc[p])
  BY ReportingObserves
<1>5. \A e \in Fresh : e \notin told /\ e \notin ToSet(log)
  <2> DEFINE locals == UNION {{proc[q].event} \cup proc[q].memory : q \in Procs}
             saved == UNION ({disk[f] : f \in Files} \ {Absent, Empty})
  <2>1. Fresh = Events \ (locals \cup ToSet(log) \cup told \cup saved)
    BY DEF Fresh
  <2> HIDE DEF locals, saved
  <2> QED BY <2>1
<1>6. unended => Last(log) \in ToSet(log)
  <2>1. unended => Len(log) \in DOMAIN log /\ Last(log) = log[Len(log)]
    BY DEF StateTypeOK, Last
  <2> QED BY <2>1 DEF ToSet
<1>7. unended' => /\ Last(log') \notin told'
                  /\ \A q \in Procs : InHand(proc'[q]) => proc'[q].event # Last(log')
  BY <1>4, <1>5, <1>6 DEF Quiet, LossInv
<1>8. \A q \in Procs : InHand(proc'[q]) => proc'[q].event \notin told'
  <2>1. ASSUME NEW q \in Procs, InHand(proc'[q]) PROVE proc'[q].event \notin told'
    BY <1>4, <1>5, <2>1, InHandObserves DEF Quiet, LossInv, OnceInv
  <2> QED BY <2>1
<1> QED BY <1>1, <1>2, <1>3, <1>7, <1>8 DEF LossInv

LEMMA LastAfter ==
    ASSUME LogTypeOK, NEW e \in Events \cup {Torn}, log' = LineAfter(log, e)
    PROVE  /\ ToSet(log) \subseteq ToSet(log') \cup (IF unended THEN {Last(log)} ELSE {})
           /\ ~unended => e \in ToSet(log')
           /\ Last(log') \in {e, Torn}
<1>1. CASE unended
  <2>1. /\ Len(log) \in DOMAIN log /\ log' = [log EXCEPT ![Len(log)] = Torn]
        /\ Len(log') = Len(log) /\ DOMAIN log' = DOMAIN log
    BY <1>1 DEF LineAfter, LogTypeOK
  <2> QED BY <1>1, <2>1 DEF LogTypeOK, ToSet, Last
<1>2. CASE ~unended
  <2>1. log' = Append(log, e) /\ log \in Seq(Events \cup {Torn})
    BY <1>2 DEF LineAfter, LogTypeOK
  <2>2. /\ DOMAIN log' = 1..(Len(log) + 1) /\ DOMAIN log = 1..Len(log) /\ Len(log) \in Nat
        /\ \A i \in 1..Len(log) : log'[i] = log[i]
        /\ log'[Len(log) + 1] = e /\ Len(log') = Len(log) + 1
    BY <2>1
  <2> QED BY <1>2, <2>2 DEF ToSet, Last
<1> QED BY <1>1, <1>2 DEF LogTypeOK

\* What a step that writes does to the other processes' observations, and to those reported.
LEMMA OthersShown ==
    ASSUME StateTypeOK, OnceInv, LossInv, NEW p \in Procs, NEW e \in Events \cup {Torn}, Writes(e),
           e \in Events => At(p, "writing") /\ e = proc[p].event,
           NEW G \in SUBSET Events, ShownBut(G)
    PROVE  /\ told \subseteq ToSet(log') \cup G
           /\ \A q \in Procs \ {p} : /\ Reporting(proc[q]) => proc[q].event \in ToSet(log') \cup G
                                     /\ InHand(proc[q]) => proc[q].event # Last(log')
           /\ Last(log') \notin told
<1>1. /\ ToSet(log) \subseteq ToSet(log') \cup (IF unended THEN {Last(log)} ELSE {})
      /\ Last(log') \in {e, Torn}
  BY LastAfter DEF Writes, StateTypeOK, LogTypeOK
<1>2. e \in Events => InHand(proc[p])
  BY DEF StateTypeOK, OnCourse, Logging, At, InHand
<1>3. \A q \in Procs : InHand(proc[q]) => proc[q].event # Torn
  BY StateAssumption DEF InHand
<1>4. \A q \in Procs \ {p} : InHand(proc[q]) => proc[q].event # Last(log')
  BY <1>1, <1>2, <1>3, InHandObserves DEF OnceInv
<1>5. told \subseteq ToSet(log') \cup G /\ Last(log') \notin told
  <2>1. told \subseteq ToSet(log') \cup G
    BY <1>1 DEF LossInv, ShownBut
  <2>2. e \notin told /\ Torn \notin told
    BY <1>2, StateAssumption DEF LossInv, StateTypeOK
  <2> QED BY <1>1, <2>1, <2>2
<1>6. \A q \in Procs \ {p} : Reporting(proc[q]) => proc[q].event \in ToSet(log') \cup G
  BY <1>1, ReportingObserves DEF LossInv, ShownBut
<1> QED BY <1>4, <1>5, <1>6

LEMMA QuietBecomes ==
    ASSUME StateTypeOK, NEW p \in Procs, NEW r, Becomes(p, r), UNCHANGED <<log, unended, told>>,
           faults' \in {faults, faults + 1},
           Reporting(r) => Reporting(proc[p]) /\ r.event = proc[p].event,
           InHand(r) => \/ InHand(proc[p]) /\ r.event = proc[p].event
                        \/ r.event \in Fresh
    PROVE  Quiet(p)
<1>1. proc'[p] = r /\ \A q \in Procs \ {p} : proc'[q] = proc[q]
  BY DEF Becomes, StateTypeOK
<1> QED BY <1>1 DEF Quiet

\* A process that ends has nothing in hand any more.
LEMMA QuietExit ==
    ASSUME StateTypeOK, NEW p \in Procs, Exit(p), UNCHANGED <<log, unended>>,
           faults' \in {faults, faults + 1},
           UNCHANGED told \/ (told' = told \cup {proc[p].event} /\ Reporting(proc[p]))
    PROVE  Quiet(p)
<1>1. proc'[p] = Idle /\ \A q \in Procs \ {p} : proc'[q] = proc[q]
  BY DEF Exit, StateTypeOK
<1>2. ~Reporting(Idle) /\ ~InHand(Idle)
  BY IdleType, StateAssumption DEF Reporting, InHand, Saving
<1> QED BY <1>1, <1>2 DEF Quiet

\* A step that moves its process on and keeps what it observes.
LEMMA QuietGo ==
    ASSUME StateTypeOK, NEW p \in Procs, NEW r, Becomes(p, r), UNCHANGED <<log, unended, faults, told>>,
           r.command = proc[p].command, r.event = proc[p].event,
           r.pc \in Saving => proc[p].pc \in Saving \/ proc[p].command # "feedback"
    PROVE  Quiet(p)
BY QuietBecomes DEF Reporting, InHand

LEMMA QuietStart == ASSUME StateTypeOK, NEW p \in Procs, Start(p) PROVE Quiet(p)
<1>1. PICK c \in Commands : \E e \in Subjects(c), n \in IF c = "simulate" THEN 1..MaxRuns ELSE {0} :
          Becomes(p, [Idle EXCEPT !.command = c, !.pc = "loading", !.event = e, !.left = n])
  BY DEF Start, Becomes
<1>2. PICK e \in Subjects(c) : \E n : Becomes(p, [Idle EXCEPT !.command = c, !.pc = "loading", !.event = e, !.left = n])
  BY <1>1, Zenon
<1>3. PICK n : Becomes(p, [Idle EXCEPT !.command = c, !.pc = "loading", !.event = e, !.left = n])
  BY <1>2
<1> DEFINE r == [Idle EXCEPT !.command = c, !.pc = "loading", !.event = e, !.left = n]
<1>4. r.command = c /\ r.pc = "loading" /\ r.event = e
  BY DEF Idle
<1>5. Becomes(p, r)
  BY <1>3
<1> HIDE DEF r
<1>6. InHand(r) => r.event \in Fresh
  BY <1>4, StateAssumption DEF InHand, Subjects, Commands
<1>7. ~Reporting(r) /\ UNCHANGED <<log, unended, told, faults>>
  BY <1>4 DEF Reporting, Saving, Start
<1> QED BY <1>5, <1>6, <1>7, QuietBecomes

LEMMA QuietLocal ==
    ASSUME StateTypeOK, NEW p \in Procs,
           \/ Load(p) \/ Routed(p) \/ NotRouted(p) \/ Learn(p) \/ Change(p) \/ NextRequest(p)
    PROVE  Quiet(p)
<1>1. proc[p] \in Locals /\ OnCourse(proc[p]) /\ UNCHANGED <<log, unended, faults, told>>
  BY DEF Load, Routed, NotRouted, Learn, Change, NextRequest, StateTypeOK
<1>2. ASSUME NEW place, NEW m, NEW n,
             Becomes(p, [proc[p] EXCEPT !.pc = place, !.memory = m, !.left = n]),
             place \in Saving => proc[p].command # "feedback"
      PROVE  Quiet(p)
  <2> DEFINE r == [proc[p] EXCEPT !.pc = place, !.memory = m, !.left = n]
  <2>1. r.pc = place /\ r.command = proc[p].command /\ r.event = proc[p].event
    BY <1>1 DEF Locals
  <2>2. Becomes(p, r)
    BY <1>2
  <2> HIDE DEF r
  <2> QED BY <1>1, <1>2, <2>1, <2>2, QuietGo
<1>3. ASSUME Exit(p) PROVE Quiet(p)
  BY <1>1, <1>3, QuietExit
<1>4. CASE Load(p) /\ ~Exit(p)
  <2> DEFINE content == IF disk[File(proc[p].command)] = Absent THEN {} ELSE disk[File(proc[p].command)]
             place == CASE proc[p].command = "feedback" -> "learning"
                        [] proc[p].command = "upsert" -> "changing"
                        [] OTHER -> "routing"
  <2>1. proc' = [proc EXCEPT ![p].memory = content, ![p].pc = place]
    BY <1>4 DEF Load
  <2>2. place \notin Saving
    BY DEF Saving
  <2>3. PICK pc, m : pc = place /\ m = content
    OBVIOUS
  <2>4. Becomes(p, [proc[p] EXCEPT !.pc = pc, !.memory = m, !.left = proc[p].left])
    <3>1. proc' = [proc EXCEPT ![p].memory = m, ![p].pc = pc]
      BY <2>1, <2>3
    <3> QED BY <1>1, <3>1 DEF Locals, Becomes
  <2> QED BY <1>2, <2>2, <2>3, <2>4
<1>5. CASE Routed(p) /\ proc[p].command = "route"
  <2>1. Becomes(p, [proc[p] EXCEPT !.pc = "saving", !.memory = proc[p].memory, !.left = proc[p].left])
    BY <1>1, <1>5 DEF Routed, Go, Becomes, Locals
  <2> QED BY <1>2, <1>5, <2>1
<1>6. CASE Routed(p) /\ proc[p].command # "route"
  <2>1. PICK e \in Fresh : proc' = [proc EXCEPT ![p].pc = "appending", ![p].event = e, ![p].left = @ - 1]
    BY <1>6 DEF Routed
  <2> DEFINE r == [proc[p] EXCEPT !.pc = "appending", !.event = e, !.left = proc[p].left - 1]
  <2>2. Becomes(p, r)
    BY <1>1, <2>1 DEF Becomes
  <2>3. r.pc = "appending" /\ r.event = e
    BY <1>1 DEF Locals
  <2> HIDE DEF r
  <2>4. ~Reporting(r)
    BY <2>3 DEF Reporting, Saving
  <2> QED BY <1>1, <2>1, <2>2, <2>3, <2>4, QuietBecomes
<1>7. CASE NotRouted(p)
  <2>1. ~Exit(p) => Becomes(p, [proc[p] EXCEPT !.pc = "next", !.memory = proc[p].memory, !.left = proc[p].left - 1])
    BY <1>1, <1>7 DEF NotRouted, Becomes, Locals
  <2>2. "next" \notin Saving
    BY DEF Saving
  <2>3. CASE ~Exit(p)
    <3>1. PICK n : n = proc[p].left - 1
      OBVIOUS
    <3> QED BY <1>2, <2>1, <2>2, <2>3, <3>1
  <2> QED BY <1>3, <2>3
<1>8. CASE Learn(p) \/ Change(p)
  <2>1. PICK m : m = proc[p].memory \cup {proc[p].event}
    OBVIOUS
  <2>2. CASE Learn(p)
    <3>1. Becomes(p, [proc[p] EXCEPT !.pc = "appending", !.memory = m, !.left = proc[p].left])
      BY <1>1, <2>1, <2>2 DEF Learn, Becomes, Locals
    <3> QED BY <1>2, <3>1 DEF Saving
  <2>3. CASE Change(p)
    <3>1. Becomes(p, [proc[p] EXCEPT !.pc = "saving", !.memory = m, !.left = proc[p].left])
      BY <1>1, <2>1, <2>3 DEF Change, Becomes, Locals
    <3> QED BY <1>1, <1>2, <2>3, <3>1 DEF Change, At, OnCourse
  <2> QED BY <1>8, <2>2, <2>3
<1>9. CASE NextRequest(p)
  <2>1. PICK place \in {"routing", "saving"} : Go(p, place)
    BY <1>9 DEF NextRequest
  <2>2. Becomes(p, [proc[p] EXCEPT !.pc = place, !.memory = proc[p].memory, !.left = proc[p].left])
    BY <1>1, <2>1 DEF Go, Becomes, Locals
  <2>3. proc[p].command # "feedback"
    BY <1>1, <1>9 DEF NextRequest, At, OnCourse
  <2> QED BY <1>2, <2>2, <2>3
<1> QED BY <1>3, <1>4, <1>5, <1>6, <1>7, <1>8, <1>9

LEMMA QuietSave ==
    ASSUME StateTypeOK, NEW p \in Procs,
           \/ LookForOld(p) \/ MoveAway(p) \/ MoveVanishes(p) \/ GuessMoved(p)
           \/ RestorePlaceholder(p) \/ Install(p) \/ InstallFails(p)
    PROVE  Quiet(p)
<1>1. proc[p] \in Locals /\ proc[p].pc \in Saving /\ UNCHANGED <<log, unended>>
      /\ faults' \in {faults, faults + 1}
  BY DEF StateTypeOK, LookForOld, MoveAway, MoveVanishes, GuessMoved, RestorePlaceholder, Install,
     InstallFails, At, Saving, Fault
<1>2. ASSUME NEW place \in Saving, NEW b, Becomes(p, [proc[p] EXCEPT !.pc = place, !.backup = b]),
             UNCHANGED <<told, faults>>
      PROVE  Quiet(p)
  <2> DEFINE r == [proc[p] EXCEPT !.pc = place, !.backup = b]
  <2>1. r.pc = place /\ r.event = proc[p].event /\ r.command = proc[p].command
    BY <1>1 DEF Locals
  <2>2. Becomes(p, r)
    BY <1>2
  <2> HIDE DEF r
  <2> QED BY <1>1, <1>2, <2>1, <2>2, QuietGo
<1>3. ASSUME NEW place \in Saving, Go(p, place), UNCHANGED <<told, faults>> PROVE Quiet(p)
  <2>1. Becomes(p, [proc[p] EXCEPT !.pc = place, !.backup = proc[p].backup])
    BY <1>1, <1>3 DEF Go, Becomes, Locals
  <2> QED BY <1>2, <1>3, <2>1
<1>4. CASE LookForOld(p)
  <2>1. ~Go(p, "moving") => Becomes(p, [proc[p] EXCEPT !.pc = "installing", !.backup = Absent])
    BY <1>1, <1>4 DEF LookForOld, Becomes
  <2> QED BY <1>2, <1>3, <1>4, <2>1 DEF LookForOld, Saving
<1>5. CASE MoveAway(p)
  <2>1. PICK b : b = disk[File(proc[p].command)]
    OBVIOUS
  <2>2. Becomes(p, [proc[p] EXCEPT !.pc = "installing", !.backup = b])
    BY <1>1, <1>5, <2>1 DEF MoveAway, Becomes
  <2> QED BY <1>2, <1>5, <2>2 DEF MoveAway, Saving
<1>6. CASE MoveVanishes(p) \/ GuessMoved(p)
  BY <1>1, <1>3, <1>6, QuietExit DEF MoveVanishes, GuessMoved, Saving
<1>7. CASE RestorePlaceholder(p) \/ InstallFails(p)
  BY <1>1, <1>7, QuietExit DEF RestorePlaceholder, InstallFails
<1>8. CASE Install(p)
  BY <1>1, <1>8, QuietExit DEF Install, Reporting
<1> QED BY <1>4, <1>5, <1>6, <1>7, <1>8

LEMMA QuietCheck == ASSUME StateTypeOK, NEW p \in Procs, CheckLog(p) PROVE Quiet(p)
<1>1. proc[p] \in Locals /\ proc[p].pc = "appending"
  BY DEF StateTypeOK, CheckLog, At
<1>2. CASE Go(p, "writing")
  <2>1. Becomes(p, [proc[p] EXCEPT !.pc = "writing"])
    BY <1>2 DEF Go, Becomes
  <2>2. PICK r : r = [proc[p] EXCEPT !.pc = "writing"]
    OBVIOUS
  <2>3. r.pc = "writing" /\ r.command = proc[p].command /\ r.event = proc[p].event /\ Becomes(p, r)
    BY <1>1, <2>1, <2>2 DEF Locals
  <2> QED BY <2>3, QuietGo DEF CheckLog, Saving
<1>3. CASE Exit(p)
  BY <1>3, QuietExit DEF CheckLog
<1>4. CASE proc' = [proc EXCEPT ![p].pc = "next", ![p].event = Nothing]
  <2>1. PICK r : r = [proc[p] EXCEPT !.pc = "next", !.event = Nothing]
    OBVIOUS
  <2>2. r.pc = "next" /\ r.event = Nothing /\ Becomes(p, r)
    BY <1>1, <1>4, <2>1 DEF Locals, Becomes
  <2> QED BY <2>2, QuietBecomes, StateAssumption DEF CheckLog, Reporting, InHand, Saving
<1> QED BY <1>2, <1>3, <1>4 DEF CheckLog, AppendRaises

\* A line glued to a torn one takes its observation with it, and ends the torn line.
LEMMA LossAppend ==
    ASSUME StateTypeOK, OnceInv, LossInv, NEW p \in Procs, AppendLine(p)
    PROVE  LossInv'
<1>1. PICK e \in Events : e = proc[p].event
  BY DEF AppendLine, At, StateTypeOK, OnCourse, Logging
<1>2. /\ Writes(e) /\ At(p, "writing") /\ UNCHANGED <<faults, told>> /\ ~unended'
      /\ proc[p] \in Locals /\ InHand(proc[p])
      /\ LogTypeOK
  BY <1>1 DEF AppendLine, Writes, At, InHand, StateTypeOK, OnCourse, Logging, LogTypeOK
<1>3. PICK G \in SUBSET Events :
          IsFiniteSet(G) /\ Cardinality(G) + (IF unended THEN 1 ELSE 0) <= faults /\ ShownBut(G)
  BY DEF LossInv
<1>4. PICK H \in SUBSET Events : H = IF unended THEN G \cup {e} ELSE G
  OBVIOUS
<1>5. IsFiniteSet(H) /\ Cardinality(H) <= faults
  <2>1. Cardinality(G) \in Nat /\ faults \in Nat
    BY <1>3, FS_CardinalityType DEF LossInv
  <2>2. IsFiniteSet(G \cup {e}) /\ Cardinality(G \cup {e}) \in {Cardinality(G), Cardinality(G) + 1}
    BY <1>3, FS_AddElement
  <2> QED BY <1>3, <1>4, <2>1, <2>2
<1>6. e \in ToSet(log') \cup H
  BY <1>2, <1>4, LastAfter DEF Writes
<1>7. /\ told \subseteq ToSet(log') \cup G
      /\ \A q \in Procs \ {p} : Reporting(proc[q]) => proc[q].event \in ToSet(log') \cup G
  BY <1>1, <1>2, <1>3, OthersShown
<1>8. /\ \A q \in Procs \ {p} : proc'[q] = proc[q]
      /\ proc'[p].event \in {e, Nothing}
  BY <1>1, <1>2 DEF AppendLine, Go, StateTypeOK, Locals
<1>9. ShownBut(H)'
  <2>1. Reporting(proc'[p]) => proc'[p].event = e
    BY <1>1, <1>2 DEF AppendLine, Go, Reporting, StateTypeOK, Locals, Saving
  <2> QED BY <1>2, <1>4, <1>6, <1>7, <1>8, <2>1 DEF ShownBut
<1>10. \A q \in Procs : InHand(proc'[q]) => proc'[q].event \notin told'
  <2>1. \A q \in Procs : InHand(proc[q]) => proc[q].event \notin told
    BY DEF LossInv
  <2>2. e \notin told /\ ~(Nothing \in Events)
    BY <1>1, <1>2, <2>1, StateAssumption
  <2>3. InHand(proc'[p]) => proc'[p].event = e
    BY <1>8, <2>2 DEF InHand
  <2> QED BY <1>2, <1>8, <2>1, <2>2, <2>3
<1>11. faults' \in Nat /\ Cardinality(H) + (IF unended' THEN 1 ELSE 0) <= faults'
  <2>1. Cardinality(H) \in Nat /\ faults \in Nat
    BY <1>5, FS_CardinalityType DEF LossInv
  <2> QED BY <1>2, <1>5, <2>1
<1>12. ~unended'
  BY <1>2
<1> QED BY <1>5, <1>9, <1>10, <1>11, <1>12 DEF LossInv

\* A line that is torn belongs to a process that gives its observation up.
LEMMA LossTear ==
    ASSUME StateTypeOK, OnceInv, LossInv, NEW p \in Procs, At(p, "writing"),
           TearLine(proc[p].event), ~UNCHANGED <<log, unended>>,
           AppendRaises(p) \/ Exit(p), UNCHANGED told, faults' = faults + 1
    PROVE  LossInv'
<1>1. proc[p].event \in Events /\ proc[p] \in Locals
  BY DEF At, StateTypeOK, OnCourse, Logging
<1>2. PICK e \in Events \cup {Torn} : Writes(e) /\ (e = Torn \/ e = proc[p].event)
  BY <1>1 DEF TearLine, Writes
<1>3. PICK G \in SUBSET Events :
          IsFiniteSet(G) /\ Cardinality(G) + (IF unended THEN 1 ELSE 0) <= faults /\ ShownBut(G)
  BY DEF LossInv
<1>4. faults' \in Nat /\ Cardinality(G) + (IF unended' THEN 1 ELSE 0) <= faults'
  <2>1. Cardinality(G) \in Nat /\ faults \in Nat
    BY <1>3, FS_CardinalityType DEF LossInv
  <2> QED BY <1>3, <2>1
<1>5. /\ told \subseteq ToSet(log') \cup G
      /\ \A q \in Procs \ {p} : /\ Reporting(proc[q]) => proc[q].event \in ToSet(log') \cup G
                                /\ InHand(proc[q]) => proc[q].event # Last(log')
      /\ Last(log') \notin told
  BY <1>2, <1>3, StateAssumption, OthersShown
<1>6. /\ \A q \in Procs \ {p} : proc'[q] = proc[q]
      /\ ~InHand(proc'[p]) /\ ~Reporting(proc'[p])
  <2>1. CASE Exit(p)
    BY <2>1, IdleType, StateAssumption DEF Exit, StateTypeOK, InHand, Reporting, Saving
  <2>2. CASE proc' = [proc EXCEPT ![p].pc = "next", ![p].event = Nothing]
    BY <1>1, <2>2, StateAssumption DEF StateTypeOK, Locals, InHand, Reporting, Saving
  <2> QED BY <2>1, <2>2 DEF AppendRaises
<1>7. ShownBut(G)'
  BY <1>5, <1>6 DEF ShownBut
<1>8. /\ \A q \in Procs : InHand(proc'[q]) => proc'[q].event \notin told'
      /\ \A q \in Procs : InHand(proc'[q]) => proc'[q].event # Last(log')
  BY <1>5, <1>6 DEF LossInv
<1> QED BY <1>3, <1>4, <1>5, <1>7, <1>8 DEF LossInv

LEMMA LossFault ==
    ASSUME StateTypeOK, OnceInv, LossInv, NEW p \in Procs, AppendTears(p) \/ Crash(p)
    PROVE  LossInv'
<1>1. /\ AppendRaises(p) \/ Exit(p)
      /\ UNCHANGED told /\ faults' = faults + 1
      /\ ~UNCHANGED <<log, unended>> => At(p, "writing") /\ TearLine(proc[p].event)
      /\ UNCHANGED <<log, unended>> => AppendTears(p) \/ Exit(p)
  BY DEF AppendTears, Crash, Fault
<1>2. CASE ~UNCHANGED <<log, unended>>
  BY <1>1, <1>2, LossTear
<1>3. CASE UNCHANGED <<log, unended>> /\ Exit(p)
  BY <1>1, <1>3, QuietExit, LossQuiet
<1>4. CASE UNCHANGED <<log, unended>> /\ AppendTears(p) /\ ~Exit(p)
  <2>1. PICK r : r = [proc[p] EXCEPT !.pc = "next", !.event = Nothing]
    OBVIOUS
  <2>2. proc[p] \in Locals
    BY DEF StateTypeOK
  <2>3. r.pc = "next" /\ r.event = Nothing /\ Becomes(p, r)
    BY <1>4, <2>1, <2>2 DEF Locals, Becomes, AppendTears, AppendRaises
  <2>4. Quiet(p)
    BY <1>1, <1>4, <2>3, QuietBecomes, StateAssumption DEF Reporting, InHand, Saving
  <2> QED BY <2>4, LossQuiet
<1> QED BY <1>1, <1>2, <1>3, <1>4

LEMMA LossPreserved == ASSUME StateTypeOK, OnceInv, LossInv, [Next]_vars PROVE LossInv'
<1>1. CASE UNCHANGED vars
  BY <1>1 DEF vars, LossInv, ShownBut
<1>2. ASSUME NEW p \in Procs, LoadVanishes(p) \/ Report(p) PROVE LossInv'
  BY <1>2, QuietExit, LossQuiet DEF LoadVanishes, Report
<1> QED BY <1>1, <1>2, QuietStart, QuietLocal, QuietSave, QuietCheck, LossQuiet, LossAppend, LossFault
        DEF Next, Step

LEMMA LossInit == Init => LossInv
<1> SUFFICES ASSUME Init PROVE LossInv
  OBVIOUS
<1>1. \A p \in Procs : ~InHand(proc[p]) /\ ~Reporting(proc[p])
  BY IdleType, StateAssumption DEF Init, InHand, Reporting, Saving
<1>2. IsFiniteSet({}) /\ Cardinality({}) = 0
  BY FS_EmptySet
<1> QED BY <1>1, <1>2 DEF Init, LossInv, ShownBut

\* ToldIsLogged, for every number of processes and faults: an observation has one line at most,
\* and has it by the time its command reports success, as long as the log can be read; of those
\* reported no more are missing than there were faults.
THEOREM ReportedIsLogged == Spec => []ToldIsLogged
<1>1. StateTypeOK /\ OnceInv /\ LossInv => ToldIsLogged
  <2>1. ASSUME OnceInv, NEW e \in Events PROVE Cardinality({i \in DOMAIN log : log[i] = e}) <= 1
    <3>1. CASE {i \in DOMAIN log : log[i] = e} = {}
      BY <3>1, FS_EmptySet
    <3>2. CASE {i \in DOMAIN log : log[i] = e} # {}
      <4>1. PICK i \in DOMAIN log : log[i] = e
        BY <3>2
      <4>2. {j \in DOMAIN log : log[j] = e} = {i}
        BY <2>1, <4>1 DEF OnceInv
      <4> QED BY <4>2, FS_Singleton
    <3> QED BY <3>1, <3>2
  <2>2. ASSUME LossInv PROVE Cardinality(told \ ToSet(log)) <= faults
    <3>1. PICK G \in SUBSET Events :
              IsFiniteSet(G) /\ Cardinality(G) + (IF unended THEN 1 ELSE 0) <= faults /\ ShownBut(G)
      BY <2>2 DEF LossInv
    <3>2. told \ ToSet(log) \subseteq G
      BY <3>1 DEF ShownBut
    <3>3. Cardinality(G) \in Nat /\ Cardinality(told \ ToSet(log)) \in Nat
          /\ Cardinality(told \ ToSet(log)) <= Cardinality(G)
      BY <3>1, <3>2, FS_Subset, FS_CardinalityType
    <3> QED BY <2>2, <3>1, <3>3 DEF LossInv
  <2> QED BY <2>1, <2>2 DEF OnceInv, ToldIsLogged
<1>2. StateTypeOK /\ OnceInv /\ LossInv /\ [Next]_vars => (StateTypeOK /\ OnceInv /\ LossInv)'
  BY TypeStep, OncePreserved, LossPreserved
<1> QED BY <1>1, <1>2, TypeInit, OnceInit, LossInit, PTL DEF Spec
=============================================================================
