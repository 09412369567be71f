--------------------------- MODULE CheckpointLock ---------------------------
(***************************************************************************)
(* The lock file of a checkpoint, step by step: _locked (public_scores.py) *)
(* over a directory entry, inodes, open descriptors and flock.  Every      *)
(* system call is a step, processes interleave between them, each may die  *)
(* at any point, and an inode number is used again once the file is gone.  *)
(***************************************************************************)
EXTENDS Integers

CONSTANTS
    Procs,
    Inodes,     \* inode numbers the directory can use
    Free,       \* "no process has the flock of this inode"
    None        \* "no inode": the entry is missing, or nothing is open

ASSUME FreeAssumption == Free \notin Procs
ASSUME NoneAssumption == None \notin Inodes

VARIABLES
    entry,      \* the inode the lock path leads to, or None
    size,       \* [Inodes -> 0 .. 1]  bytes in the file
    flock,      \* [Inodes -> Procs or Free]
    pc,         \* [Procs -> Places]
    fd,         \* [Procs -> Inodes or None]  the open descriptor
    before      \* [Procs -> Inodes or None]  the local of that name, or created

vars == <<entry, size, flock, pc, fd, before>>

Creating == {"initializing", "undoing", "unlinking"}
Settled  == {"locking", "inside", "unlocking"}
Places   == Creating \cup Settled \cup {"idle", "starting", "inspecting", "opening", "verifying"}

Init ==
    /\ entry = None
    /\ size = [i \in Inodes |-> 0]
    /\ flock = [i \in Inodes |-> Free]
    /\ pc = [p \in Procs |-> "idle"]
    /\ fd = [p \in Procs |-> None]
    /\ before = [p \in Procs |-> None]

At(p, place)   == pc[p] = place
GoTo(p, place) == pc' = [pc EXCEPT ![p] = place]

(* The descriptor is closed, and with it goes the process's flock.         *)
Close(p) ==
    /\ fd' = [fd EXCEPT ![p] = None]
    /\ flock' = [i \in Inodes |-> IF flock[i] = p THEN Free ELSE flock[i]]

(* _locked raises, or is left: nothing of the process remains.             *)
Quit(p) ==
    /\ GoTo(p, "idle")
    /\ before' = [before EXCEPT ![p] = None]
    /\ Close(p)

Unused(i) == entry # i /\ \A p \in Procs : fd[p] # i
-----------------------------------------------------------------------------
Start(p) ==
    /\ At(p, "idle")
    /\ GoTo(p, "starting")
    /\ UNCHANGED <<entry, size, flock, fd, before>>

(* open with O_CREAT and O_EXCL, where there is no file.                   *)
Create(p) ==
    /\ At(p, "starting")
    /\ entry = None
    /\ \E i \in Inodes :
          /\ Unused(i)
          /\ entry' = i
          /\ size' = [size EXCEPT ![i] = 0]
          /\ fd' = [fd EXCEPT ![p] = i]
    /\ GoTo(p, "initializing")
    /\ UNCHANGED <<flock, before>>

(* FileExistsError.                                                        *)
FindExisting(p) ==
    /\ At(p, "starting")
    /\ entry # None
    /\ GoTo(p, "inspecting")
    /\ UNCHANGED <<entry, size, flock, fd, before>>

(* The first lstat.                                                        *)
Inspect(p) ==
    /\ At(p, "inspecting")
    /\ IF entry # None /\ size[entry] = 1
       THEN /\ before' = [before EXCEPT ![p] = entry]
            /\ GoTo(p, "opening")
            /\ UNCHANGED <<fd, flock>>
       ELSE Quit(p)
    /\ UNCHANGED <<entry, size>>

OpenExisting(p) ==
    /\ At(p, "opening")
    /\ IF entry # None
       THEN /\ fd' = [fd EXCEPT ![p] = entry]
            /\ GoTo(p, "verifying")
            /\ UNCHANGED <<flock, before>>
       ELSE Quit(p)
    /\ UNCHANGED <<entry, size>>

(* fstat and the second lstat: the file that was inspected, the one that   *)
(* was opened and the one the path leads to are the same.                  *)
Verify(p) ==
    /\ At(p, "verifying")
    /\ IF entry # None /\ size[entry] = 1 /\ fd[p] = entry /\ before[p] = entry
       THEN GoTo(p, "locking") /\ UNCHANGED <<fd, flock, before>>
       ELSE Quit(p)
    /\ UNCHANGED <<entry, size>>

Initialize(p) ==
    /\ At(p, "initializing")
    /\ size' = [size EXCEPT ![fd[p]] = 1]
    /\ GoTo(p, "locking")
    /\ UNCHANGED <<entry, flock, fd, before>>

(* The byte could not be written: remember the inode, close.               *)
InitializeFails(p) ==
    /\ At(p, "initializing")
    /\ before' = [before EXCEPT ![p] = fd[p]]
    /\ Close(p)
    /\ GoTo(p, "undoing")
    /\ UNCHANGED <<entry, size>>

(* lstat, and the decision to unlink; an OSError leaves the file.          *)
Undo(p) ==
    /\ At(p, "undoing")
    /\ IF entry = before[p]
       THEN GoTo(p, "unlinking") /\ UNCHANGED <<fd, flock, before>>
       ELSE Quit(p)
    /\ UNCHANGED <<entry, size>>

Unlink(p) ==
    /\ At(p, "unlinking")
    /\ entry' = None
    /\ Quit(p)
    /\ UNCHANGED size

UnlinkFails(p) ==
    /\ pc[p] \in {"undoing", "unlinking"}
    /\ Quit(p)
    /\ UNCHANGED <<entry, size>>

\* Faulty: the lock is taken from whoever has it.
LockBlindly(p) ==
    /\ At(p, "locking")
    /\ flock' = [flock EXCEPT ![fd[p]] = p]
    /\ GoTo(p, "inside")
    /\ UNCHANGED <<entry, size, fd, before>>

(* flock with LOCK_EX and LOCK_NB succeeds.                                *)
Lock(p) ==
    /\ At(p, "locking")
    /\ flock[fd[p]] = Free
    /\ flock' = [flock EXCEPT ![fd[p]] = p]
    /\ GoTo(p, "inside")
    /\ UNCHANGED <<entry, size, fd, before>>

InUse(p) ==
    /\ At(p, "locking")
    /\ flock[fd[p]] # Free
    /\ Quit(p)
    /\ UNCHANGED <<entry, size>>

(* The body of the with statement ends: LOCK_UN, then close.               *)
Unlock(p) ==
    /\ At(p, "inside")
    /\ flock' = [flock EXCEPT ![fd[p]] = Free]
    /\ GoTo(p, "unlocking")
    /\ UNCHANGED <<entry, size, fd, before>>

\* Faulty: the lock file is removed on the way out.
CloseAndRemove(p) ==
    /\ At(p, "unlocking")
    /\ entry' = None
    /\ Quit(p)
    /\ UNCHANGED size

CloseUnlocked(p) ==
    /\ At(p, "unlocking")
    /\ Quit(p)
    /\ UNCHANGED <<entry, size>>

Crash(p) ==
    /\ ~At(p, "idle")
    /\ Quit(p)
    /\ UNCHANGED <<entry, size>>

(* Somebody removes a leftover lock file, while no process has it locked,  *)
(* is about to lock it or is making it; processes may be looking at it.    *)
Remove ==
    /\ entry # None
    /\ \A p \in Procs : pc[p] \notin Creating \cup Settled
    /\ entry' = None
    /\ UNCHANGED <<size, flock, pc, fd, before>>

Next ==
    \/ \E p \in Procs :
          \/ Start(p) \/ Create(p) \/ FindExisting(p)
          \/ Inspect(p) \/ OpenExisting(p) \/ Verify(p)
          \/ Initialize(p) \/ InitializeFails(p)
          \/ Undo(p) \/ Unlink(p) \/ UnlinkFails(p)
          \/ Lock(p) \/ InUse(p) \/ Unlock(p) \/ CloseUnlocked(p)
          \/ Crash(p)
    \/ Remove

Spec == Init /\ [][Next]_vars
-----------------------------------------------------------------------------
(* Every variable has its shape.                                           *)
TypeOK ==
    /\ entry \in Inodes \cup {None}
    /\ size \in [Inodes -> 0 .. 1]
    /\ flock \in [Inodes -> Procs \cup {Free}]
    /\ pc \in [Procs -> Places]
    /\ fd \in [Procs -> Inodes \cup {None}]
    /\ before \in [Procs -> Inodes \cup {None}]

(* All contenders meet at one file: whoever has taken the lock or is about *)
(* to take it has the file open that the path leads to.                    *)
OneLockFile ==
    \A p \in Procs : pc[p] \in Settled => entry # None /\ fd[p] = entry /\ size[entry] = 1

(* The lock file protocol implements a mutex.                              *)
Abstract == INSTANCE Mutex WITH inside <- {p \in Procs : pc[p] = "inside"}

MutexSpec == Abstract!Spec
=============================================================================
