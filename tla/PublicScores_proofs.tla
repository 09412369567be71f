------------------------ MODULE PublicScores_proofs ------------------------
(***************************************************************************)
(* Proofs about PublicScores: for every number of processes, calls, runs   *)
(* and faults, a request is paid for once per permission, is announced in  *)
(* every file a power loss may leave, and answers on disk are not lost.    *)
(*                                                                         *)
(* The argument rests on what the contents the file may have say of each   *)
(* task: one that a content neither holds nor announces has used up no     *)
(* more than its permissions (Unspent), so it may be marked and sent; and  *)
(* only the holder of the lock has a content in hand.                      *)
(***************************************************************************)
EXTENDS PublicScores, TLAPS

Outside == {"idle", "locking"}

\* The content is not absent, and its marker is that of its next task.
Announces(content) ==
    content # Absent /\ content.results < N /\ content.pending = content.results + 1

Sound(content) == content # Absent => content.pending = 0 \/ Announces(content)

\* A task that content neither holds nor announces has been sent at most once per permission.
Unspent(content) ==
    \A t \in Tasks : t > Done(content) /\ (content # Absent => content.pending # t)
                     => reached[t] <= granted[t]

\* The next task may be sent.
Affordable(content) == reached[content.results + 1] <= granted[content.results + 1]

OnlyHolderInside == \A p \in Procs : pc[p] \notin Outside => holder = p

FilesSound ==
    /\ disk \in survivors
    /\ \A content \in survivors : Sound(content) /\ Unspent(content)

\* What a process has in hand agrees with the file.
Loaded(p) == pc[p] \in {"checking", "choosing"} => state[p] = disk /\ disk # Absent

Writing(p) ==
    pc[p] \in {"replacing", "syncing"} =>
        /\ buffer[p] # Absent /\ Sound(buffer[p]) /\ Unspent(buffer[p])
        /\ Done(buffer[p]) >= Done(disk)
        /\ after[p] \in {"checking", "choosing", "sending", "raising"}
        /\ after[p] = "sending" => Announces(buffer[p]) /\ Affordable(buffer[p])

Replaced(p) == pc[p] = "syncing" => buffer[p] = disk

Announced(p) ==
    pc[p] \in {"sending", "waiting"} =>
        state[p] = disk /\ survivors = {disk} /\ Announces(disk)

MaySend(p) == pc[p] = "sending" => Affordable(disk)

InHand(p) == Loaded(p) /\ Writing(p) /\ Replaced(p) /\ Announced(p) /\ MaySend(p)

Inv ==
    /\ TypeOK
    /\ OnlyHolderInside
    /\ FilesSound
    /\ \A p \in Procs : InHand(p)
    /\ DuplicatesBounded

-----------------------------------------------------------------------------
(* Type correctness *)

LEMMA NoArgumentsType == NoArguments \in Arguments
BY ManifestsAssumption DEF NoArguments, Arguments

LEMMA FreshType == ASSUME NEW m \in Manifests PROVE Fresh(m) \in Checkpoints
BY NAssumption DEF Fresh, Checkpoints

LEMMA LeaveType ==
    ASSUME TypeOK, NEW p \in Procs, Leave(p)
    PROVE  /\ holder' \in Procs \cup {Nobody}
           /\ pc' \in [Procs -> Places]
           /\ args' \in [Procs -> Arguments]
           /\ calls' \in [Procs -> Nat]
           /\ state' \in [Procs -> Checkpoints \cup {Absent}]
           /\ buffer' \in [Procs -> Checkpoints \cup {Absent}]
           /\ after' \in [Procs -> Places]
BY NoArgumentsType DEF TypeOK, Leave, GoTo, Places

-----------------------------------------------------------------------------
(* The invariant, one lemma per kind of step *)

LEMMA OutsideNothingInHand ==
    ASSUME NEW p, pc[p] \in Outside PROVE InHand(p)
BY DEF InHand, Loaded, Writing, Replaced, Announced, MaySend, Outside

\* Whoever is inside is alone.
LEMMA Alone ==
    ASSUME Inv, NEW p \in Procs, pc[p] \notin Outside, NEW q \in Procs, q # p
    PROVE  pc[q] \in Outside
BY DEF Inv, OnlyHolderInside

LEMMA Initially == Init => Inv
<1> SUFFICES ASSUME Init PROVE Inv
  OBVIOUS
<1>1. TypeOK
  BY NAssumption, BoundsAssumption, NoArgumentsType DEF Init, TypeOK, Tasks, Places
<1>2. OnlyHolderInside /\ \A p \in Procs : InHand(p)
  BY OutsideNothingInHand DEF Init, OnlyHolderInside, Outside
<1>3. FilesSound
  BY DEF Init, FilesSound, Sound, Unspent
<1>4. DuplicatesBounded
  BY DEF Init, DuplicatesBounded
<1> QED BY <1>1, <1>2, <1>3, <1>4 DEF Inv

LEMMA LeaveKeeps ==
    ASSUME Inv, NEW p \in Procs, Leave(p), UNCHANGED <<disk, survivors, reached, granted>>,
           faults' \in 0 .. MaxFaults
    PROVE  Inv'
<1>1. TypeOK'
  BY LeaveType DEF Inv, TypeOK
<1>2. \A q \in Procs \ {p} : UNCHANGED <<pc[q], state[q], buffer[q], after[q]>>
  BY DEF Leave, GoTo, Inv, TypeOK
<1>3. pc'[p] = "idle"
  BY DEF Leave, GoTo, Inv, TypeOK
<1>4. OnlyHolderInside'
  BY <1>2, <1>3 DEF OnlyHolderInside, Outside, Leave, Inv
<1>5. FilesSound' /\ DuplicatesBounded'
  BY DEF FilesSound, Sound, Unspent, Announces, Done, DuplicatesBounded, Inv
<1>6. ASSUME NEW q \in Procs PROVE InHand(q)'
  <2>1. CASE q = p
    BY <2>1, <1>3 DEF InHand, Loaded, Writing, Replaced, Announced, MaySend
  <2>2. CASE q # p
    BY <2>2, <1>2 DEF Inv, InHand, Loaded, Writing, Replaced, Announced, MaySend,
       Sound, Unspent, Announces, Affordable, Done
  <2> QED BY <2>1, <2>2
<1> QED BY <1>1, <1>4, <1>5, <1>6 DEF Inv

LEMMA StartKeeps ==
    ASSUME Inv, NEW p \in Procs, (\E a \in Invocations : Start(p, a)) \/ Acquire(p)
    PROVE  Inv'
<1>1. TypeOK'
  <2>1. ASSUME NEW a \in Invocations, Start(p, a) PROVE TypeOK'
    <3>1. a \in Arguments
      BY OptionsAssumption DEF Invocations, Arguments
    <3> QED BY <2>1, <3>1 DEF Inv, TypeOK, Start, GoTo, Places, fileVars, ghostVars
  <2>2. CASE Acquire(p)
    BY <2>2 DEF Inv, TypeOK, Acquire, GoTo, Places, fileVars, ghostVars
  <2> QED BY <2>1, <2>2
<1>2. pc'[p] \in {"locking", "loading"}
  BY DEF Start, Acquire, GoTo, Inv, TypeOK
<1>3. \A q \in Procs \ {p} : pc'[q] = pc[q]
  BY DEF Start, Acquire, GoTo, Inv, TypeOK
<1>4. UNCHANGED <<disk, survivors, state, buffer, after, reached, granted>>
  BY DEF Start, Acquire, fileVars, ghostVars
<1>5. OnlyHolderInside'
  <2>1. ASSUME NEW a \in Invocations, Start(p, a) PROVE OnlyHolderInside'
    BY <2>1, <1>3 DEF OnlyHolderInside, Outside, Start, GoTo, Inv, TypeOK
  <2>2. CASE Acquire(p)
    BY <2>2, <1>3, NobodyAssumption DEF OnlyHolderInside, Outside, Acquire, Inv
  <2> QED BY <2>1, <2>2
<1>6. FilesSound' /\ DuplicatesBounded'
  BY <1>4 DEF FilesSound, Sound, Unspent, Announces, Done, DuplicatesBounded, Inv
<1>7. ASSUME NEW q \in Procs PROVE InHand(q)'
  <2>1. CASE q = p
    BY <2>1, <1>2 DEF InHand, Loaded, Writing, Replaced, Announced, MaySend
  <2>2. CASE q # p
    BY <2>2, <1>3, <1>4 DEF Inv, InHand, Loaded, Writing, Replaced, Announced, MaySend,
       Sound, Unspent, Announces, Affordable, Done
  <2> QED BY <2>1, <2>2
<1> QED BY <1>1, <1>5, <1>6, <1>7 DEF Inv

\* A step of the holder: only what it has in hand can change, and the files.
LEMMA HolderStep ==
    ASSUME Inv, NEW p \in Procs, pc[p] \notin Outside, holder' = holder,
           \A q \in Procs \ {p} : pc'[q] = pc[q],
           TypeOK', FilesSound', DuplicatesBounded', InHand(p)'
    PROVE  Inv'
<1>1. OnlyHolderInside'
  BY DEF Inv, OnlyHolderInside
<1>2. ASSUME NEW q \in Procs PROVE InHand(q)'
  <2>1. CASE q # p
    <3>1. pc'[q] \in Outside
      BY <2>1, Alone
    <3> QED BY <3>1 DEF InHand, Loaded, Writing, Replaced, Announced, MaySend, Outside
  <2> QED BY <2>1
<1> QED BY <1>1, <1>2 DEF Inv

\* A content goes to _write that the file may have.
LEMMA WriteInHand ==
    ASSUME NEW p \in Procs, NEW b, pc'[p] = "replacing", buffer'[p] = b, b # Absent,
           Sound(b), Unspent(b)', Done(b) >= Done(disk)',
           after'[p] \in {"checking", "choosing", "sending", "raising"},
           after'[p] = "sending" => Announces(b) /\ Affordable(b)'
    PROVE  InHand(p)'
BY DEF InHand, Loaded, Writing, Replaced, Announced, MaySend, Sound, Unspent, Done, Announces,
   Affordable

LEMMA LoadKeeps == ASSUME Inv, NEW p \in Procs, Load(p) PROVE Inv'
<1>1. PICK f \in Checkpoints : f = Fresh(args[p].manifest)
  <2>1. args[p].manifest \in Manifests
    BY DEF Inv, TypeOK, Arguments
  <2> QED BY <2>1, FreshType
<1>2. TypeOK'
  BY <1>1 DEF Inv, TypeOK, Load, Write, GoTo, Places, fileVars, ghostVars
<1>3. FilesSound' /\ DuplicatesBounded'
  BY DEF Load, fileVars, ghostVars, FilesSound, Sound, Unspent, Announces, Done,
     DuplicatesBounded, Inv
<1>4. InHand(p)'
  <2>1. CASE disk = Absent
    <3>1. pc'[p] = "replacing" /\ buffer'[p] = f /\ after'[p] = "checking"
      BY <1>1, <2>1 DEF Load, Write, GoTo, Inv, TypeOK
    <3>2. f # Absent /\ f.results = 0 /\ f.pending = 0
      BY <1>1, AbsentAssumption DEF Fresh
    <3>3. Unspent(f)'
      <4>1. Unspent(disk)
        BY DEF Inv, FilesSound
      <4> QED BY <4>1, <3>2, <2>1 DEF Unspent, Done, Tasks, Load, ghostVars
    <3>4. Sound(f) /\ Done(f) >= Done(disk)'
      BY <2>1, <3>2 DEF Sound, Done, Load, fileVars
    <3> QED BY <3>1, <3>2, <3>3, <3>4, WriteInHand
  <2>2. CASE disk # Absent
    <3>1. pc'[p] = "checking" /\ state'[p] = disk'
      BY <2>2 DEF Load, GoTo, Inv, TypeOK, fileVars
    <3> QED BY <3>1, <2>2
        DEF InHand, Loaded, Writing, Replaced, Announced, MaySend, Load, fileVars
  <2> QED BY <2>1, <2>2
<1>5. pc[p] \notin Outside /\ holder' = holder /\ \A q \in Procs \ {p} : pc'[q] = pc[q]
  BY DEF Load, Write, GoTo, At, Outside, Inv, TypeOK
<1> QED BY <1>2, <1>3, <1>4, <1>5, HolderStep

LEMMA CheckKeeps == ASSUME Inv, NEW p \in Procs, Check(p) PROVE Inv'
<1>1. CASE MayProceed(p)
  <2>1. TypeOK'
    BY <1>1 DEF Inv, TypeOK, Check, GoTo, Places, fileVars, ghostVars
  <2>2. FilesSound' /\ DuplicatesBounded'
    BY DEF Check, fileVars, ghostVars, FilesSound, Sound, Unspent, Announces, Done,
       DuplicatesBounded, Inv
  <2>3. pc'[p] = "choosing" /\ pc[p] = "checking" /\ state' = state /\ disk' = disk
    BY <1>1 DEF Check, GoTo, At, Inv, TypeOK, fileVars
  <2>4. InHand(p)'
    BY <2>3 DEF Inv, InHand, Loaded, Writing, Replaced, Announced, MaySend
  <2>5. pc[p] \notin Outside /\ holder' = holder /\ \A q \in Procs \ {p} : pc'[q] = pc[q]
    BY <1>1 DEF Check, GoTo, At, Outside, Inv, TypeOK
  <2> QED BY <2>1, <2>2, <2>4, <2>5, HolderStep
<1>2. CASE ~MayProceed(p)
  BY <1>2, LeaveKeeps DEF Check, fileVars, ghostVars, Inv, TypeOK
<1> QED BY <1>1, <1>2

LEMMA MarkKeeps == ASSUME Inv, NEW p \in Procs, Mark(p) PROVE Inv'
<1>1. /\ pc[p] = "choosing" /\ state[p] = disk /\ disk \in Checkpoints /\ disk # Absent
      /\ disk.results < N /\ disk \in survivors /\ Sound(disk) /\ Unspent(disk)
  BY DEF Mark, HasWork, At, Inv, InHand, Loaded, FilesSound, TypeOK
<1>2. PICK t \in Tasks : t = disk.results + 1
  BY <1>1, NAssumption DEF Tasks, Checkpoints
<1>3. PICK b \in Checkpoints : b = [disk EXCEPT !.pending = t]
  <2>1. t \in 0 .. N
    BY NAssumption DEF Tasks
  <2>2. [disk EXCEPT !.pending = t] \in Checkpoints
    BY <1>1, <2>1 DEF Checkpoints
  <2> QED BY <2>2
<1>4. b # Absent /\ Announces(b) /\ b.results = disk.results /\ b.pending = t
  BY <1>1, <1>2, <1>3, AbsentAssumption DEF Announces, Checkpoints
<1>5. /\ pc'[p] = "replacing" /\ buffer'[p] = b /\ after'[p] = "sending"
      /\ granted' = IF disk.pending = 0 THEN granted ELSE [granted EXCEPT ![t] = @ + 1]
      /\ UNCHANGED <<disk, survivors, holder, args, calls, state, reached, faults>>
  BY <1>1, <1>2, <1>3 DEF Mark, Write, GoTo, NextTask, Inv, TypeOK, fileVars
<1>6. TypeOK'
  <2>1. granted' \in [Tasks -> Nat]
    BY <1>2, <1>5 DEF Inv, TypeOK
  <2>2. /\ pc' = [pc EXCEPT ![p] = "replacing"]
        /\ buffer' = [buffer EXCEPT ![p] = b]
        /\ after' = [after EXCEPT ![p] = "sending"]
    BY <1>1, <1>2, <1>3 DEF Mark, Write, GoTo, NextTask
  <2> QED BY <1>3, <1>5, <2>1, <2>2 DEF Inv, TypeOK, Places
<1>7. \A u \in Tasks : granted'[u] >= granted[u] /\ granted[u] \in Nat /\ granted'[u] \in Nat
                       /\ reached[u] \in Nat
  BY <1>2, <1>5 DEF Inv, TypeOK
<1>8. reached[t] <= granted'[t]
  <2>1. CASE disk.pending = 0
    BY <2>1, <1>1, <1>2, <1>5 DEF Unspent, Done, Tasks, Checkpoints
  <2>2. CASE disk.pending # 0
    BY <2>2, <1>2, <1>5, <1>7 DEF Inv, TypeOK, DuplicatesBounded
  <2> QED BY <2>1, <2>2
<1>9. \A c \in survivors : Unspent(c) => Unspent(c)'
  BY <1>5, <1>7 DEF Unspent
<1>10. FilesSound' /\ DuplicatesBounded'
  BY <1>5, <1>7, <1>9 DEF FilesSound, Sound, Announces, DuplicatesBounded, Inv
<1>11. Unspent(b)'
  BY <1>1, <1>2, <1>4, <1>5, <1>7 DEF Unspent, Done, Sound, Announces, Tasks, Checkpoints
<1>12. Done(b) >= Done(disk)' /\ Sound(b) /\ Affordable(b)'
  BY <1>1, <1>2, <1>4, <1>5, <1>8 DEF Done, Sound, Affordable, Checkpoints
<1>13. InHand(p)'
  BY <1>4, <1>5, <1>11, <1>12, WriteInHand
<1>14. pc[p] \notin Outside /\ \A q \in Procs \ {p} : pc'[q] = pc[q]
  BY <1>1 DEF Mark, Write, GoTo, Outside, Inv, TypeOK
<1> QED BY <1>5, <1>6, <1>10, <1>13, <1>14, HolderStep

LEMMA ReplaceKeeps == ASSUME Inv, NEW p \in Procs, Replace(p) PROVE Inv'
<1>1. PICK b \in Checkpoints : b = buffer[p]
  BY DEF Replace, At, Inv, InHand, Writing, TypeOK
<1>2. /\ pc[p] = "replacing" /\ Sound(b) /\ Unspent(b) /\ b # Absent
      /\ after[p] \in {"checking", "choosing", "sending", "raising"}
      /\ after[p] = "sending" => Announces(b) /\ Affordable(b)
  BY <1>1 DEF Replace, At, Inv, InHand, Writing
<1>3. /\ pc'[p] = "syncing" /\ disk' = b /\ survivors' = survivors \cup {b}
      /\ UNCHANGED <<holder, buffer, after, reached, granted>>
  BY <1>1 DEF Replace, GoTo, Inv, TypeOK, ghostVars
<1>4. TypeOK'
  BY <1>3 DEF Replace, GoTo, Inv, TypeOK, Places, ghostVars
<1>5. FilesSound' /\ DuplicatesBounded'
  BY <1>2, <1>3 DEF FilesSound, Sound, Unspent, Announces, Done, DuplicatesBounded, Inv
<1>6. InHand(p)'
  <2>1. Done(b) >= Done(b)
    BY <1>2 DEF Done, Checkpoints
  <2> QED BY <1>1, <1>2, <1>3, <2>1
      DEF InHand, Loaded, Writing, Replaced, Announced, MaySend, Sound, Unspent, Announces, Affordable, Done
<1>7. pc[p] \notin Outside /\ \A q \in Procs \ {p} : pc'[q] = pc[q]
  BY <1>2 DEF Replace, GoTo, Outside, Inv, TypeOK
<1> QED BY <1>3, <1>4, <1>5, <1>6, <1>7, HolderStep

LEMMA SyncKeeps == ASSUME Inv, NEW p \in Procs, SyncDirectory(p) PROVE Inv'
<1>1. /\ pc[p] = "syncing" /\ buffer[p] = disk /\ disk # Absent
      /\ after[p] \in {"checking", "choosing", "sending", "raising"}
      /\ after[p] = "sending" => Announces(disk) /\ Affordable(disk)
      /\ disk \in survivors
  BY DEF SyncDirectory, At, Inv, InHand, Writing, Replaced, FilesSound
<1>2. /\ pc'[p] = after[p] /\ state'[p] = disk /\ survivors' = {disk}
      /\ UNCHANGED <<disk, holder, buffer, after, reached, granted>>
  BY <1>1 DEF SyncDirectory, GoTo, Inv, TypeOK, ghostVars
<1>3. TypeOK'
  BY <1>1, <1>2 DEF SyncDirectory, GoTo, Inv, TypeOK, Places, ghostVars
<1>4. FilesSound' /\ DuplicatesBounded'
  BY <1>1, <1>2 DEF FilesSound, Sound, Unspent, Announces, Done, DuplicatesBounded, Inv
<1>5. InHand(p)'
  BY <1>1, <1>2
  DEF InHand, Loaded, Writing, Replaced, Announced, MaySend, Announces, Affordable
<1>6. pc[p] \notin Outside /\ \A q \in Procs \ {p} : pc'[q] = pc[q]
  BY <1>1 DEF SyncDirectory, GoTo, Outside, Inv, TypeOK
<1> QED BY <1>2, <1>3, <1>4, <1>5, <1>6, HolderStep

LEMMA ConnectFailsKeeps == ASSUME Inv, NEW p \in Procs, ConnectFails(p) PROVE Inv'
<1>1. /\ pc[p] = "sending" /\ state[p] = disk /\ disk \in Checkpoints /\ disk # Absent
      /\ disk \in survivors /\ Announces(disk) /\ Affordable(disk) /\ Unspent(disk)
  BY DEF ConnectFails, At, Inv, InHand, Announced, MaySend, Announces, FilesSound, TypeOK
<1>2. PICK b \in Checkpoints : b = [disk EXCEPT !.pending = 0]
  <2>1. 0 \in 0 .. N
    BY NAssumption
  <2>2. [disk EXCEPT !.pending = 0] \in Checkpoints
    BY <1>1, <2>1 DEF Checkpoints
  <2> QED BY <2>2
<1>3. b # Absent /\ b.results = disk.results /\ b.pending = 0
  BY <1>1, <1>2, AbsentAssumption DEF Checkpoints
<1>4. /\ pc' = [pc EXCEPT ![p] = "replacing"]
      /\ buffer' = [buffer EXCEPT ![p] = b]
      /\ after' = [after EXCEPT ![p] = "raising"]
      /\ UNCHANGED <<disk, survivors, holder, args, calls, state, reached, granted, faults>>
  BY <1>1, <1>2 DEF ConnectFails, Write, GoTo, fileVars, ghostVars
<1>5. TypeOK'
  BY <1>4 DEF Inv, TypeOK, Places
<1>6. FilesSound' /\ DuplicatesBounded'
  BY <1>4 DEF FilesSound, Sound, Unspent, Announces, Done, DuplicatesBounded, Inv
<1>7. Unspent(b)'
  BY <1>1, <1>3, <1>4 DEF Unspent, Done, Announces, Affordable, Tasks, Checkpoints
<1>8. InHand(p)'
  <2>1. Done(b) >= Done(disk)' /\ Sound(b)
    BY <1>1, <1>3, <1>4 DEF Done, Sound, Checkpoints
  <2>2. pc'[p] = "replacing" /\ buffer'[p] = b /\ after'[p] = "raising"
    BY <1>4 DEF Inv, TypeOK
  <2> QED BY <1>3, <1>7, <2>1, <2>2, WriteInHand
<1>9. pc[p] \notin Outside /\ \A q \in Procs \ {p} : pc'[q] = pc[q]
  BY <1>1, <1>4 DEF Outside, Inv, TypeOK
<1> QED BY <1>4, <1>5, <1>6, <1>8, <1>9, HolderStep

LEMMA SendKeeps == ASSUME Inv, NEW p \in Procs, Send(p) PROVE Inv'
<1>1. /\ pc[p] = "sending" /\ state[p] = disk /\ disk \in Checkpoints /\ disk # Absent
      /\ survivors = {disk} /\ Announces(disk) /\ Affordable(disk) /\ Unspent(disk)
  BY DEF Send, At, Inv, InHand, Announced, MaySend, Announces, FilesSound, TypeOK
<1>2. PICK t \in Tasks : t = disk.results + 1 /\ t = disk.pending
  BY <1>1, NAssumption DEF Tasks, Checkpoints, Announces
<1>3. /\ reached' = [reached EXCEPT ![t] = @ + 1]
      /\ pc' = [pc EXCEPT ![p] = "waiting"]
      /\ UNCHANGED <<disk, survivors, holder, args, calls, state, buffer, after, granted, faults>>
  BY <1>1, <1>2 DEF Send, NextTask, GoTo, fileVars
<1>4. TypeOK'
  BY <1>2, <1>3 DEF Inv, TypeOK, Places
<1>5. DuplicatesBounded'
  BY <1>1, <1>2, <1>3 DEF Inv, TypeOK, DuplicatesBounded, Affordable
<1>6. FilesSound'
  <2>1. Unspent(disk)'
    BY <1>1, <1>2, <1>3 DEF Unspent, Done, Inv, TypeOK
  <2> QED BY <1>1, <1>3, <2>1 DEF FilesSound, Sound, Announces
<1>7. InHand(p)'
  BY <1>1, <1>3 DEF InHand, Loaded, Writing, Replaced, Announced, MaySend, Announces, Inv, TypeOK
<1>8. pc[p] \notin Outside /\ \A q \in Procs \ {p} : pc'[q] = pc[q]
  BY <1>1, <1>3 DEF Outside, Inv, TypeOK
<1> QED BY <1>3, <1>4, <1>5, <1>6, <1>7, <1>8, HolderStep

LEMMA AnswerKeeps == ASSUME Inv, NEW p \in Procs, Answer(p) PROVE Inv'
<1>1. /\ pc[p] = "waiting" /\ state[p] = disk /\ disk \in Checkpoints /\ disk # Absent
      /\ disk \in survivors /\ Announces(disk) /\ Unspent(disk)
  BY DEF Answer, At, Inv, InHand, Announced, Announces, FilesSound, TypeOK
<1>2. PICK b \in Checkpoints : b = [disk EXCEPT !.results = @ + 1, !.pending = 0]
  <2>1. 0 \in 0 .. N /\ disk.results + 1 \in 0 .. N
    BY <1>1, NAssumption DEF Checkpoints, Announces
  <2>2. [disk EXCEPT !.results = @ + 1, !.pending = 0] \in Checkpoints
    BY <1>1, <2>1 DEF Checkpoints
  <2> QED BY <2>2
<1>3. b # Absent /\ b.results = disk.results + 1 /\ b.pending = 0
  BY <1>1, <1>2, AbsentAssumption DEF Checkpoints
<1>4. /\ pc' = [pc EXCEPT ![p] = "replacing"]
      /\ buffer' = [buffer EXCEPT ![p] = b]
      /\ after' = [after EXCEPT ![p] = "choosing"]
      /\ calls' = [calls EXCEPT ![p] = @ + 1]
      /\ UNCHANGED <<disk, survivors, holder, args, state, reached, granted, faults>>
  BY <1>1, <1>2 DEF Answer, Write, GoTo, fileVars, ghostVars
<1>5. TypeOK'
  BY <1>4 DEF Inv, TypeOK, Places
<1>6. FilesSound' /\ DuplicatesBounded'
  BY <1>4 DEF FilesSound, Sound, Unspent, Announces, Done, DuplicatesBounded, Inv
<1>7. Unspent(b)'
  BY <1>1, <1>3, <1>4 DEF Unspent, Done, Announces, Tasks, Checkpoints
<1>8. InHand(p)'
  <2>1. Done(b) >= Done(disk)' /\ Sound(b)
    BY <1>1, <1>3, <1>4 DEF Done, Sound, Checkpoints
  <2>2. pc'[p] = "replacing" /\ buffer'[p] = b /\ after'[p] = "choosing"
    BY <1>4 DEF Inv, TypeOK
  <2> QED BY <1>3, <1>7, <2>1, <2>2, WriteInHand
<1>9. pc[p] \notin Outside /\ \A q \in Procs \ {p} : pc'[q] = pc[q]
  BY <1>1, <1>4 DEF Outside, Inv, TypeOK
<1> QED BY <1>4, <1>5, <1>6, <1>8, <1>9, HolderStep

LEMMA PowerLossKeeps == ASSUME Inv, PowerLoss PROVE Inv'
<1>1. TypeOK'
  BY NoArgumentsType, BoundsAssumption DEF Inv, TypeOK, PowerLoss, Fault, Places
<1>2. OnlyHolderInside' /\ \A p \in Procs : InHand(p)'
  <2>1. \A p \in Procs : pc'[p] = "idle"
    BY DEF PowerLoss
  <2> QED BY <2>1
      DEF OnlyHolderInside, Outside, InHand, Loaded, Writing, Replaced, Announced, MaySend
<1>3. FilesSound' /\ DuplicatesBounded'
  BY DEF PowerLoss, FilesSound, Sound, Unspent, Announces, Done, DuplicatesBounded, Inv
<1> QED BY <1>1, <1>2, <1>3 DEF Inv

LEMMA StutterKeeps == ASSUME Inv, UNCHANGED vars PROVE Inv'
BY DEF Inv, vars, TypeOK, OnlyHolderInside, FilesSound, InHand, Loaded, Writing, Replaced,
   Announced, MaySend, Sound, Unspent, Announces, Affordable, Done, DuplicatesBounded

LEMMA StepKeeps == ASSUME Inv, [Next]_vars PROVE Inv'
<1>1. ASSUME NEW p \in Procs, NEW a \in Invocations, Start(p, a) PROVE Inv'
  BY <1>1, StartKeeps
<1>2. ASSUME NEW p \in Procs, Work(p) PROVE Inv'
  <2>1. CASE Acquire(p)
    BY <2>1, StartKeeps
  <2>2. CASE Busy(p) \/ Report(p) \/ Raise(p)
    BY <2>2, LeaveKeeps DEF Busy, Report, Raise, fileVars, ghostVars, Inv, TypeOK
  <2> QED BY <1>2, <2>1, <2>2, LoadKeeps, CheckKeeps, MarkKeeps, ReplaceKeeps, SyncKeeps DEF Work
<1>3. ASSUME NEW p \in Procs, Exchange(p) PROVE Inv'
  <2>1. CASE FailUnsent(p) \/ LoseAnswer(p)
    BY <2>1, LeaveKeeps, BoundsAssumption DEF FailUnsent, LoseAnswer, Fault, fileVars, Inv, TypeOK
  <2> QED BY <1>3, <2>1, ConnectFailsKeeps, SendKeeps, AnswerKeeps DEF Exchange
<1>4. ASSUME NEW p \in Procs, WriteFails(p) \/ Crash(p) PROVE Inv'
  BY <1>4, LeaveKeeps, BoundsAssumption DEF WriteFails, Crash, Fault, fileVars, Inv, TypeOK
<1> QED BY <1>1, <1>2, <1>3, <1>4, PowerLossKeeps, StutterKeeps DEF Next

-----------------------------------------------------------------------------
(* The theorems *)

\* The invariant of run_public_scores.
THEOREM Invariant == Spec => []Inv
BY Initially, StepKeeps, PTL DEF Spec

\* The checkpoint always has its schema, and so have the locals of every invocation.
THEOREM ScoresTypeCorrect == Spec => []TypeOK
<1>1. Inv => TypeOK
  BY DEF Inv
<1> QED BY <1>1, Invariant, PTL

\* A request reaches its provider once, and once more for each explicit permission
\* (public_scores.py 518-519), whatever crashes, failed writes and power losses come between.
THEOREM PaidOncePerPermission == Spec => []DuplicatesBounded
<1>1. Inv => DuplicatesBounded
  BY DEF Inv
<1> QED BY <1>1, Invariant, PTL

\* A request leaves only when every file a power loss may leave announces it
\* (public_scores.py 578-587).
THEOREM AnnouncedBeforeSent == Spec => SendIsAnnounced
<1>1. ASSUME Inv, [Next]_vars
      PROVE  [\A t \in Tasks : reached'[t] # reached[t] =>
                 \A content \in survivors : content # Absent /\ content.pending = t]_vars
  <2>1. ASSUME NEW p \in Procs, Send(p), NEW t \in Tasks, reached'[t] # reached[t]
        PROVE  \A content \in survivors : content # Absent /\ content.pending = t
    <3>1. state[p] = disk /\ survivors = {disk} /\ Announces(disk)
      BY <1>1, <2>1 DEF Send, At, Inv, InHand, Announced
    <3>2. t = disk.results + 1
      BY <1>1, <2>1, <3>1 DEF Send, NextTask, Inv, TypeOK
    <3> QED BY <3>1, <3>2 DEF Announces
  <2>2. ASSUME NEW p \in Procs, ~Send(p), Work(p) \/ Exchange(p) PROVE UNCHANGED reached
    BY <2>2 DEF Work, Exchange, Acquire, Busy, Load, Check, Mark, Report, Replace, SyncDirectory,
       Raise, ConnectFails, FailUnsent, Answer, LoseAnswer, ghostVars
  <2>3. ASSUME NEW p \in Procs, NEW a \in Invocations, Start(p, a) PROVE UNCHANGED reached
    BY <2>3 DEF Start, ghostVars
  <2>4. ASSUME NEW p \in Procs, WriteFails(p) \/ Crash(p) PROVE UNCHANGED reached
    BY <2>4 DEF WriteFails, Crash
  <2>5. ASSUME PowerLoss PROVE UNCHANGED reached
    BY <2>5 DEF PowerLoss
  <2>6. UNCHANGED vars => UNCHANGED reached
    BY DEF vars
  <2> QED BY <1>1, <2>1, <2>2, <2>3, <2>4, <2>5, <2>6 DEF Next, Exchange
<1> QED BY <1>1, Invariant, PTL DEF Spec, SendIsAnnounced

\* The number of answers that every file a power loss may leave holds never falls.
THEOREM AnswersNeverLost == Spec => AnswersStay
<1>1. ASSUME Inv, [Next]_vars
      PROVE  [\A new \in survivors' : \E old \in survivors : Done(new) >= Done(old)]_vars
  <2>1. \A content \in survivors : Done(content) >= Done(content)
    BY <1>1 DEF Inv, TypeOK, Done, Checkpoints
  <2>2. ASSUME NEW p \in Procs, Replace(p)
        PROVE  \A new \in survivors' : \E old \in survivors : Done(new) >= Done(old)
    BY <1>1, <2>1, <2>2 DEF Replace, At, Inv, InHand, Writing, FilesSound
  <2>3. ASSUME survivors' \subseteq survivors
        PROVE  \A new \in survivors' : \E old \in survivors : Done(new) >= Done(old)
    BY <2>1, <2>3
  <2>4. ASSUME NEW p \in Procs, ~Replace(p), Work(p) \/ Exchange(p) PROVE survivors' \subseteq survivors
    BY <1>1, <2>4 DEF Work, Exchange, Acquire, Busy, Load, Check, Mark, Report, SyncDirectory,
       Raise, ConnectFails, FailUnsent, Send, Answer, LoseAnswer, fileVars, Inv, FilesSound
  <2>5. ASSUME NEW p \in Procs, NEW a \in Invocations, Start(p, a) PROVE survivors' \subseteq survivors
    BY <2>5 DEF Start, fileVars
  <2>6. ASSUME NEW p \in Procs, WriteFails(p) \/ Crash(p) PROVE survivors' \subseteq survivors
    BY <2>6 DEF WriteFails, Crash, fileVars
  <2>7. ASSUME PowerLoss PROVE survivors' \subseteq survivors
    BY <2>7 DEF PowerLoss
  <2>8. UNCHANGED vars => survivors' \subseteq survivors
    BY DEF vars
  <2> QED BY <1>1, <2>2, <2>3, <2>4, <2>5, <2>6, <2>7, <2>8 DEF Next
<1> QED BY <1>1, Invariant, PTL DEF Spec, AnswersStay

\* The lock variable is a mutex by construction: only Acquire and what ends an invocation change it.
\* This records that it is the same Mutex that CheckpointLock implements.
LEMMA ScoresUseMutex == Spec => LockSpec
<1> DEFINE inside == IF holder = Nobody THEN {} ELSE {holder}
<1>1. Init => Lock!Init
  BY DEF Init, Lock!Init
<1>2. ASSUME [Next]_vars PROVE [Lock!Next]_inside
  <2>1. ASSUME NEW p \in Procs, Leave(p) PROVE [Lock!Next]_inside
    BY <2>1, NobodyAssumption DEF Leave, Lock!Next, Lock!Leave
  <2>2. ASSUME NEW p \in Procs, Acquire(p) PROVE Lock!Next
    BY <2>2, NobodyAssumption DEF Acquire, Lock!Next, Lock!Enter
  <2>3. ASSUME PowerLoss PROVE Lock!Next
    BY <2>3 DEF PowerLoss, Lock!Next, Lock!Clear
  <2>4. ASSUME UNCHANGED holder PROVE [Lock!Next]_inside
    BY <2>4
  <2>5. ASSUME NEW p \in Procs, ~Acquire(p), ~Leave(p), Work(p) \/ Exchange(p) PROVE UNCHANGED holder
    BY <2>5 DEF Work, Exchange, Busy, Load, Check, Mark, Report, Replace, SyncDirectory,
       Raise, ConnectFails, FailUnsent, Send, Answer, LoseAnswer
  <2>6. ASSUME NEW p \in Procs, NEW a \in Invocations, Start(p, a) PROVE UNCHANGED holder
    BY <2>6 DEF Start
  <2>7. ASSUME NEW p \in Procs, WriteFails(p) \/ Crash(p) PROVE Leave(p)
    BY <2>7 DEF WriteFails, Crash
  <2>8. UNCHANGED vars => UNCHANGED holder
    BY DEF vars
  <2> QED BY <1>2, <2>1, <2>2, <2>3, <2>4, <2>5, <2>6, <2>7, <2>8 DEF Next
<1> QED BY <1>1, <1>2, PTL DEF Spec, LockSpec, Lock!Spec
=============================================================================
