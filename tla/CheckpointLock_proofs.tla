------------------------ MODULE CheckpointLock_proofs ------------------------
(***************************************************************************)
(* The lock file of a checkpoint keeps all but one process out, whatever   *)
(* the number of processes and inodes, and however often the file is made, *)
(* left behind, undone and removed.                                        *)
(***************************************************************************)
EXTENDS CheckpointLock, TLAPS

(* The file that is being made, and only that, is empty and has a maker;   *)
(* so nobody can have passed the inspections of it.                        *)
MakerAlone ==
    /\ \A p \in Procs : At(p, "initializing") =>
          entry # None /\ fd[p] = entry /\ size[entry] = 0
    /\ \A p \in Procs : pc[p] \in {"undoing", "unlinking"} =>
          entry # None /\ before[p] = entry /\ size[entry] = 0
    /\ \A p, q \in Procs : pc[p] \in Creating /\ pc[q] \in Creating => p = q

(* Whoever is inside has the flock of the file it has open.                *)
InsideLocked == \A p \in Procs : At(p, "inside") => flock[fd[p]] = p

(* The inductive invariant.                                                *)
LockInv == TypeOK /\ OneLockFile /\ MakerAlone /\ InsideLocked

(* One process inside at a time.                                           *)
OneInside == \A p, q \in Procs : At(p, "inside") /\ At(q, "inside") => p = q

(* An empty directory, and nobody at it.                                   *)
LEMMA InitLock == Init => LockInv
BY DEF Init, LockInv, TypeOK, OneLockFile, MakerAlone, InsideLocked, At, Places, Creating, Settled

(* A process that gives up, leaves or dies disturbs nobody.                *)
LEMMA QuitInv ==
    ASSUME LockInv, NEW p \in Procs, Quit(p), UNCHANGED <<entry, size>>
    PROVE  LockInv'
<1>1. TypeOK
  BY DEF LockInv
<1>2. /\ pc'[p] = "idle"
      /\ \A q \in Procs : q # p => /\ pc'[q] = pc[q] /\ fd'[q] = fd[q]
                                   /\ before'[q] = before[q]
      /\ \A i \in Inodes : flock'[i] = IF flock[i] = p THEN Free ELSE flock[i]
  BY <1>1 DEF Quit, GoTo, Close, TypeOK
<1>3. TypeOK'
  BY <1>1 DEF Quit, GoTo, Close, TypeOK, Places
<1>4. OneLockFile'
  BY <1>2 DEF LockInv, OneLockFile, Settled
<1>5. MakerAlone'
  BY <1>2 DEF LockInv, MakerAlone, Creating, At
<1>6. InsideLocked'
  BY <1>1, <1>2 DEF LockInv, OneLockFile, InsideLocked, At, Settled, TypeOK
<1> QED
  BY <1>3, <1>4, <1>5, <1>6 DEF LockInv

(* A process that makes the file finds none, so nobody has one locked.     *)
LEMMA CreateInv ==
    ASSUME LockInv, NEW p \in Procs, Create(p)
    PROVE  LockInv'
<1>1. TypeOK
  BY DEF LockInv
<1>2. PICK i \in Inodes : /\ entry' = i
                          /\ size' = [size EXCEPT ![i] = 0]
                          /\ fd' = [fd EXCEPT ![p] = i]
  BY DEF Create
<1>3. /\ entry = None
      /\ pc' = [pc EXCEPT ![p] = "initializing"]
      /\ UNCHANGED <<flock, before>>
  BY DEF Create, GoTo
<1>4. \A q \in Procs : pc[q] \notin Creating \cup Settled
  BY <1>3 DEF LockInv, OneLockFile, MakerAlone, Creating, At
<1>5. TypeOK'
  BY <1>1, <1>2, <1>3 DEF TypeOK, Places, Creating
<1>6. \A q \in Procs : pc'[q] \in Creating \cup Settled => q = p /\ At(p, "initializing")'
  BY <1>1, <1>3, <1>4 DEF TypeOK, At
<1>7. entry' # None /\ fd'[p] = entry' /\ size'[entry'] = 0
  BY <1>1, <1>2, NoneAssumption DEF TypeOK
<1>8. OneLockFile' /\ InsideLocked' /\ MakerAlone'
  BY <1>6, <1>7 DEF OneLockFile, InsideLocked, MakerAlone, At, Settled, Creating
<1> QED
  BY <1>5, <1>8 DEF LockInv

(* Steps that end no claim: only p moves, and neither files nor locks      *)
(* change.                                                                 *)
Looking == {"starting", "inspecting", "opening", "verifying"}

LEMMA LookInv ==
    ASSUME LockInv, TypeOK', NEW p \in Procs, NEW place \in Looking, GoTo(p, place),
           UNCHANGED <<entry, size, flock>>,
           \A q \in Procs : q # p => fd'[q] = fd[q] /\ before'[q] = before[q]
    PROVE  LockInv'
<1>1. pc'[p] = place /\ \A q \in Procs : q # p => pc'[q] = pc[q]
  BY DEF GoTo, LockInv, TypeOK
<1>2. place \notin Creating \cup Settled
  BY DEF Looking, Creating, Settled
<1>3. OneLockFile' /\ InsideLocked'
  BY <1>1, <1>2 DEF LockInv, OneLockFile, InsideLocked, Settled, At
<1>4. MakerAlone'
  BY <1>1, <1>2 DEF LockInv, MakerAlone, Creating, At
<1> QED
  BY <1>3, <1>4 DEF LockInv

(* The maker writes the byte: nobody else was at the file.                 *)
LEMMA InitializeInv ==
    ASSUME LockInv, NEW p \in Procs, Initialize(p)
    PROVE  LockInv'
<1>1. /\ TypeOK /\ At(p, "initializing")
      /\ entry # None /\ fd[p] = entry /\ size[entry] = 0
      /\ entry \in Inodes
  BY DEF Initialize, LockInv, MakerAlone, TypeOK
<1>2. /\ pc'[p] = "locking" /\ \A q \in Procs : q # p => pc'[q] = pc[q]
      /\ size' = [size EXCEPT ![entry] = 1]
      /\ UNCHANGED <<entry, flock, fd, before>>
  BY <1>1 DEF Initialize, GoTo, TypeOK
<1>3. \A q \in Procs : pc[q] \notin Settled /\ (pc[q] \in Creating => q = p)
  BY <1>1 DEF LockInv, OneLockFile, MakerAlone, Creating, At
<1>4. TypeOK'
  BY <1>1 DEF Initialize, GoTo, TypeOK, Places, Settled
<1>5. size'[entry'] = 1
  BY <1>1, <1>2 DEF TypeOK
<1>6. OneLockFile' /\ InsideLocked' /\ MakerAlone'
  BY <1>1, <1>2, <1>3, <1>5
  DEF OneLockFile, InsideLocked, MakerAlone, Creating, Settled, At
<1> QED
  BY <1>4, <1>6 DEF LockInv

(* The maker fails: the file stays its own until it is unlinked.           *)
LEMMA InitializeFailsInv ==
    ASSUME LockInv, NEW p \in Procs, InitializeFails(p)
    PROVE  LockInv'
<1>1. /\ TypeOK /\ At(p, "initializing")
      /\ entry # None /\ fd[p] = entry /\ size[entry] = 0
  BY DEF InitializeFails, LockInv, MakerAlone
<1>2. /\ pc'[p] = "undoing" /\ \A q \in Procs : q # p => pc'[q] = pc[q]
      /\ before'[p] = entry
      /\ \A q \in Procs : q # p => fd'[q] = fd[q] /\ before'[q] = before[q]
      /\ UNCHANGED <<entry, size>>
  BY <1>1 DEF InitializeFails, GoTo, Close, TypeOK
<1>3. \A q \in Procs : pc[q] \notin Settled /\ (pc[q] \in Creating => q = p)
  BY <1>1 DEF LockInv, OneLockFile, MakerAlone, Creating, At
<1>4. TypeOK'
  BY <1>1 DEF InitializeFails, GoTo, Close, TypeOK, Places, Creating
<1>5. OneLockFile' /\ InsideLocked' /\ MakerAlone'
  BY <1>1, <1>2, <1>3 DEF OneLockFile, InsideLocked, MakerAlone, Creating, Settled, At
<1> QED
  BY <1>4, <1>5 DEF LockInv

(* The maker unlinks the file nobody else has accepted.                    *)
LEMMA UnlinkInv ==
    ASSUME LockInv, NEW p \in Procs, Unlink(p)
    PROVE  LockInv'
<1>1. TypeOK /\ At(p, "unlinking") /\ size[entry] = 0
  BY DEF Unlink, LockInv, MakerAlone, At
<1>2. \A q \in Procs : pc[q] \notin Settled /\ (pc[q] \in Creating => q = p)
  BY <1>1 DEF LockInv, OneLockFile, MakerAlone, Creating, At
<1>3. pc'[p] = "idle" /\ \A q \in Procs : q # p => pc'[q] = pc[q]
  BY <1>1 DEF Unlink, Quit, GoTo, TypeOK
<1>4. TypeOK'
  BY <1>1 DEF Unlink, Quit, GoTo, Close, TypeOK, Places
<1>5. OneLockFile' /\ InsideLocked' /\ MakerAlone'
  BY <1>2, <1>3 DEF OneLockFile, InsideLocked, MakerAlone, Creating, Settled, At
<1> QED
  BY <1>4, <1>5 DEF LockInv

(* Undo goes on to unlink: the path still leads to the maker's file.       *)
LEMMA UndoInv ==
    ASSUME LockInv, NEW p \in Procs, Undo(p)
    PROVE  LockInv'
<1>1. CASE Quit(p)
  BY <1>1, QuitInv DEF Undo
<1>2. CASE GoTo(p, "unlinking") /\ UNCHANGED <<fd, flock>>
  <2>1. /\ TypeOK /\ At(p, "undoing") /\ UNCHANGED <<entry, size, fd, flock, before>>
        /\ entry = before[p]
    BY <1>2 DEF Undo, LockInv, Quit, GoTo, TypeOK
  <2>2. pc'[p] = "unlinking" /\ \A q \in Procs : q # p => pc'[q] = pc[q]
    BY <1>2, <2>1 DEF GoTo, TypeOK
  <2>3. TypeOK'
    BY <1>2, <2>1 DEF GoTo, TypeOK, Places, Creating
  <2>4. OneLockFile' /\ InsideLocked'
    BY <2>1, <2>2 DEF LockInv, OneLockFile, InsideLocked, Settled, At
  <2>5. MakerAlone'
    BY <2>1, <2>2 DEF LockInv, MakerAlone, Creating, At
  <2> QED
    BY <2>3, <2>4, <2>5 DEF LockInv
<1> QED
  BY <1>1, <1>2 DEF Undo

(* Verify accepts the file the path leads to, with its byte.               *)
LEMMA VerifyInv ==
    ASSUME LockInv, NEW p \in Procs, Verify(p)
    PROVE  LockInv'
<1>1. CASE Quit(p)
  BY <1>1, QuitInv DEF Verify
<1>2. CASE /\ entry # None /\ size[entry] = 1 /\ fd[p] = entry
           /\ GoTo(p, "locking") /\ UNCHANGED <<fd, flock, before>>
  <2>1. /\ TypeOK /\ At(p, "verifying") /\ UNCHANGED <<entry, size>>
    BY DEF Verify, LockInv
  <2>2. pc'[p] = "locking" /\ \A q \in Procs : q # p => pc'[q] = pc[q]
    BY <1>2, <2>1 DEF GoTo, TypeOK
  <2>3. TypeOK'
    BY <1>2, <2>1 DEF GoTo, TypeOK, Places, Settled
  <2>4. OneLockFile' /\ InsideLocked'
    BY <1>2, <2>1, <2>2 DEF LockInv, OneLockFile, InsideLocked, Settled, At
  <2>5. MakerAlone'
    BY <1>2, <2>1, <2>2 DEF LockInv, MakerAlone, Creating, At
  <2> QED
    BY <2>3, <2>4, <2>5 DEF LockInv
<1> QED
  BY <1>1, <1>2 DEF Verify

(* Locking and unlocking touch the one file that whoever is inside has.    *)
LEMMA LockUnlockInv ==
    ASSUME LockInv, NEW p \in Procs, Lock(p) \/ Unlock(p)
    PROVE  LockInv'
<1>1. /\ TypeOK /\ pc[p] \in {"locking", "inside"} /\ UNCHANGED <<entry, size, fd, before>>
      /\ entry # None /\ fd[p] = entry /\ fd[p] \in Inodes
  BY DEF Lock, Unlock, LockInv, OneLockFile, Settled, At, TypeOK
<1>2. /\ pc'[p] \in {"inside", "unlocking"}
      /\ \A q \in Procs : q # p => pc'[q] = pc[q]
      /\ pc'[p] = "inside" => flock'[fd[p]] = p /\ flock[fd[p]] = Free
      /\ pc'[p] = "unlocking" => At(p, "inside")
  BY <1>1 DEF Lock, Unlock, GoTo, TypeOK
<1>3. TypeOK'
  BY <1>1 DEF Lock, Unlock, GoTo, TypeOK, Places, Settled
<1>4. \A q \in Procs : q # p => ~At(q, "inside")
  <2> SUFFICES ASSUME NEW q \in Procs, q # p, At(q, "inside") PROVE FALSE
    OBVIOUS
  <2>1. fd[q] = fd[p] /\ flock[fd[p]] = q
    BY <1>1 DEF LockInv, OneLockFile, InsideLocked, Settled, At
  <2>2. CASE pc'[p] = "inside"
    BY <1>2, <2>1, <2>2, FreeAssumption
  <2>3. CASE pc'[p] = "unlocking"
    BY <1>2, <2>1, <2>3 DEF LockInv, InsideLocked
  <2> QED
    BY <1>2, <2>2, <2>3
<1>5. OneLockFile' /\ InsideLocked'
  BY <1>1, <1>2, <1>4 DEF LockInv, OneLockFile, InsideLocked, Settled, At
<1>6. MakerAlone'
  BY <1>1, <1>2 DEF LockInv, MakerAlone, Creating, At
<1> QED
  BY <1>3, <1>5, <1>6 DEF LockInv
-----------------------------------------------------------------------------
(* A leftover is removed only while nobody has it locked or is making it.  *)
LEMMA RemoveInv ==
    ASSUME LockInv, Remove
    PROVE  LockInv'
<1>1. TypeOK'
  BY DEF Remove, LockInv, TypeOK
<1>2. OneLockFile' /\ MakerAlone'
  BY DEF Remove, OneLockFile, MakerAlone, Creating, Settled, At
<1>3. InsideLocked'
  BY DEF Remove, LockInv, InsideLocked, At
<1> QED
  BY <1>1, <1>2, <1>3 DEF LockInv

(* Every step keeps the invariant.                                         *)
LEMMA LockStep == LockInv /\ [Next]_vars => LockInv'
<1> SUFFICES ASSUME LockInv, [Next]_vars PROVE LockInv'
  OBVIOUS
<1>0. TypeOK
  BY DEF LockInv
<1>1. ASSUME NEW p \in Procs,
             \/ Start(p) \/ Create(p) \/ FindExisting(p)
             \/ Inspect(p) \/ OpenExisting(p) \/ Verify(p)
             \/ Initialize(p) \/ InitializeFails(p)
             \/ Undo(p) \/ Unlink(p) \/ UnlinkFails(p)
             \/ Lock(p) \/ InUse(p) \/ Unlock(p) \/ CloseUnlocked(p)
             \/ Crash(p)
      PROVE  LockInv'
  <2>1. CASE Start(p)
    <3>1. TypeOK' /\ "starting" \in Looking
      BY <1>0, <2>1 DEF Start, GoTo, TypeOK, Places, Looking
    <3> QED
      BY <2>1, <3>1, LookInv DEF Start
  <2>2. CASE FindExisting(p)
    <3>1. TypeOK' /\ "inspecting" \in Looking
      BY <1>0, <2>2 DEF FindExisting, GoTo, TypeOK, Places, Looking
    <3> QED
      BY <2>2, <3>1, LookInv DEF FindExisting
  <2>3. CASE Inspect(p)
    <3>1. CASE Quit(p)
      BY <2>3, <3>1, QuitInv DEF Inspect
    <3>2. CASE /\ before' = [before EXCEPT ![p] = entry]
               /\ GoTo(p, "opening") /\ UNCHANGED <<fd, flock>>
      <4>1. TypeOK' /\ "opening" \in Looking
        BY <1>0, <2>3, <3>2 DEF Inspect, GoTo, TypeOK, Places, Looking
      <4>2. \A q \in Procs : q # p => fd'[q] = fd[q] /\ before'[q] = before[q]
        BY <1>0, <3>2 DEF TypeOK
      <4> QED
        BY <2>3, <3>2, <4>1, <4>2, LookInv DEF Inspect
    <3> QED
      BY <2>3, <3>1, <3>2 DEF Inspect
  <2>4. CASE OpenExisting(p)
    <3>1. CASE Quit(p)
      BY <2>4, <3>1, QuitInv DEF OpenExisting
    <3>2. CASE /\ fd' = [fd EXCEPT ![p] = entry]
               /\ GoTo(p, "verifying") /\ UNCHANGED <<flock, before>>
      <4>1. TypeOK' /\ "verifying" \in Looking
        BY <1>0, <2>4, <3>2 DEF OpenExisting, GoTo, TypeOK, Places, Looking
      <4>2. \A q \in Procs : q # p => fd'[q] = fd[q] /\ before'[q] = before[q]
        BY <1>0, <3>2 DEF TypeOK
      <4> QED
        BY <2>4, <3>2, <4>1, <4>2, LookInv DEF OpenExisting
    <3> QED
      BY <2>4, <3>1, <3>2 DEF OpenExisting
  <2>5. CASE Create(p) \/ Verify(p) \/ Initialize(p) \/ InitializeFails(p) \/ Undo(p)
    BY <2>5, CreateInv, VerifyInv, InitializeInv, InitializeFailsInv, UndoInv
  <2>6. CASE Unlink(p) \/ Lock(p) \/ Unlock(p)
    BY <2>6, UnlinkInv, LockUnlockInv
  <2>7. CASE UnlinkFails(p) \/ InUse(p) \/ CloseUnlocked(p) \/ Crash(p)
    BY <2>7, QuitInv DEF UnlinkFails, InUse, CloseUnlocked, Crash
  <2> QED
    BY <1>1, <2>1, <2>2, <2>3, <2>4, <2>5, <2>6, <2>7
<1>2. CASE UNCHANGED vars
  BY <1>2 DEF vars, LockInv, TypeOK, OneLockFile, MakerAlone, InsideLocked, At
<1> QED
  BY <1>1, <1>2, RemoveInv DEF Next

(* The invariant holds always.                                             *)
LEMMA LockInvariant == Spec => []LockInv
BY InitLock, LockStep, PTL DEF Spec

(* Everything keeps its shape: a lock file never has more than its byte.   *)
THEOREM LockTypeCorrect == Spec => []TypeOK
<1>1. LockInv => TypeOK
  BY DEF LockInv
<1> QED
  BY <1>1, LockInvariant, PTL

(* All contenders meet at one file: the inspections of _locked leave no    *)
(* order of creations, undone creations, crashes and removals in which two *)
(* processes lock different inodes of one path.                            *)
THEOREM AllMeetAtOneFile == Spec => []OneLockFile
<1>1. LockInv => OneLockFile
  BY DEF LockInv
<1> QED
  BY <1>1, LockInvariant, PTL

(* Two processes inside have the same file open, and its flock has one     *)
(* owner.                                                                  *)
LEMMA InsideAlone == LockInv => OneInside
BY DEF LockInv, OneLockFile, InsideLocked, OneInside, Settled, At

(* At most one process is past _locked.                                    *)
THEOREM OneAtATime == Spec => []OneInside
BY InsideAlone, LockInvariant, PTL
-----------------------------------------------------------------------------
(* The abstract variable of the refinement.                                *)
Insiders == {p \in Procs : pc[p] = "inside"}

(* A step to another place outside changes nothing for the mutex.          *)
LEMMA OutsideStutters ==
    ASSUME TypeOK, NEW p \in Procs, NEW place, GoTo(p, place),
           ~At(p, "inside"), place # "inside"
    PROVE  UNCHANGED Insiders
BY DEF TypeOK, GoTo, At, Insiders

(* A step out is Leave.                                                    *)
LEMMA OutLeaves ==
    ASSUME TypeOK, NEW p \in Procs, NEW place, GoTo(p, place),
           At(p, "inside"), place # "inside"
    PROVE  Abstract!Leave(p)
BY DEF TypeOK, GoTo, At, Insiders, Abstract!Leave

(* Quit is the one or the other.                                           *)
LEMMA QuitMaps ==
    ASSUME TypeOK, NEW p \in Procs, Quit(p)
    PROVE  [Abstract!Next]_Insiders
<1>1. CASE At(p, "inside")
  BY <1>1, OutLeaves DEF Quit, Abstract!Next
<1>2. CASE ~At(p, "inside")
  BY <1>2, OutsideStutters DEF Quit
<1> QED
  BY <1>1, <1>2

(* Whoever gets the flock finds nobody inside, for they would have it.     *)
LEMMA LockEnters ==
    ASSUME LockInv, NEW p \in Procs, Lock(p)
    PROVE  Abstract!Enter(p)
<1>1. TypeOK /\ At(p, "locking") /\ flock[fd[p]] = Free /\ fd[p] = entry
  BY DEF Lock, LockInv, OneLockFile, Settled, At
<1>2. \A q \in Procs : ~At(q, "inside")
  BY <1>1, FreeAssumption DEF LockInv, OneLockFile, InsideLocked, Settled, At
<1>3. pc'[p] = "inside" /\ \A q \in Procs : q # p => pc'[q] = pc[q]
  BY <1>1 DEF Lock, GoTo, TypeOK
<1> QED
  BY <1>2, <1>3 DEF Abstract!Enter, At

(* Every step of the lock is one of the mutex or none.                     *)
LEMMA StepMaps == LockInv /\ [Next]_vars => [Abstract!Next]_Insiders
<1> SUFFICES ASSUME LockInv, [Next]_vars PROVE [Abstract!Next]_Insiders
  OBVIOUS
<1>0. TypeOK
  BY DEF LockInv
<1>1. ASSUME NEW p \in Procs,
             \/ Start(p) \/ Create(p) \/ FindExisting(p)
             \/ Inspect(p) \/ OpenExisting(p) \/ Verify(p)
             \/ Initialize(p) \/ InitializeFails(p)
             \/ Undo(p) \/ Unlink(p) \/ UnlinkFails(p)
             \/ Lock(p) \/ InUse(p) \/ Unlock(p) \/ CloseUnlocked(p)
             \/ Crash(p)
      PROVE  [Abstract!Next]_Insiders
  <2>1. CASE Quit(p)
    BY <1>0, <2>1, QuitMaps
  <2>2. CASE Lock(p)
    BY <2>2, LockEnters DEF Abstract!Next
  <2>3. CASE Unlock(p)
    BY <1>0, <2>3, OutLeaves DEF Unlock, Abstract!Next
  <2>4. CASE ~Quit(p) /\ ~Lock(p) /\ ~Unlock(p)
    <3>1. /\ ~At(p, "inside")
          /\ \E place \in Places : place # "inside" /\ GoTo(p, place)
      BY <1>1, <2>4
      DEF Start, Create, FindExisting, Inspect, OpenExisting, Verify, Initialize,
          InitializeFails, Undo, Unlink, UnlinkFails, InUse, CloseUnlocked, Crash,
          At, Places, Creating, Settled
    <3> QED
      BY <1>0, <3>1, OutsideStutters
  <2> QED
    BY <2>1, <2>2, <2>3, <2>4
<1>2. CASE Remove \/ UNCHANGED vars
  BY <1>2 DEF Remove, vars, Insiders
<1> QED
  BY <1>1, <1>2 DEF Next

(* The lock file protocol implements a mutex: whatever crashes, undoes and *)
(* removes the file, a process passes _locked only when all others are out.*)
THEOREM ImplementsMutex == Spec => MutexSpec
<1>1. Init => Abstract!Init
  BY DEF Init, Abstract!Init
<1>2. LockInv /\ [Next]_vars => [Abstract!Next]_Insiders
  BY StepMaps
<1> QED
  BY <1>1, <1>2, LockInvariant, PTL DEF Spec, MutexSpec, Abstract!Spec, Insiders
=============================================================================
