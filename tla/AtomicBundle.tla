---------------------------- MODULE AtomicBundle ----------------------------
(***************************************************************************)
(* _atomic_write_bytes_bundle (persistence.py): several files replaced as  *)
(* one operation, with rollback.  Every file is staged, existing files are *)
(* moved to backups, the staged files are moved in, and on any exception   *)
(* the backups are moved back.  Each system call is a step; it may raise   *)
(* before or after it took effect, and the process may crash in between.   *)
(* AtomicJsonStore.save is the bundle of one file.  A writer makes one     *)
(* call; the names of its staging and backup files are its own.            *)
(***************************************************************************)
EXTENDS Integers

CONSTANTS
    Writers,    \* calls of the function, by one process after or beside another
    N,          \* files of the bundle
    MaxFaults,  \* bound on system calls that raise and processes that crash
    Old,        \* what a file held before
    Empty,      \* what a backup placeholder holds: nothing
    Missing     \* "there is no such file"

Files    == 1 .. N
Contents == Writers \cup {Old, Empty}
Cells    == Contents \cup {Missing}

ASSUME NAssumption      == N \in Nat \ {0}
ASSUME FaultsAssumption == MaxFaults \in Nat
ASSUME ContentsAssumption ==
    /\ Old \notin Writers /\ Empty \notin Writers \cup {Old}
    /\ Missing \notin Contents

VARIABLES
    dest,       \* [Files -> Cells]  the destinations
    temp,       \* [Writers -> [Files -> Cells]]  staged files
    backup,     \* [Writers -> [Files -> Cells]]  backup_placeholders
    pc,         \* [Writers -> Places]
    todo,       \* [Writers -> SUBSET Files]  what the loop at pc has left
    present,    \* [Writers -> SUBSET Files]  originally_present
    moved,      \* [Writers -> SUBSET Files]  backups_moved
    errors,     \* [Writers -> BOOLEAN]  is rollback_errors non-empty?
    faults

vars == <<dest, temp, backup, pc, todo, present, moved, errors, faults>>

Over   == {"saved", "raised", "crashed"}
Places == Over \cup {"idle", "staging", "validating", "backing", "moving", "suspecting",
                     "installing", "restoring", "cleaning", "dropping"}

NoFiles == [f \in Files |-> Missing]

Init ==
    /\ dest \in [Files -> {Old, Missing}]
    /\ temp = [w \in Writers |-> NoFiles]
    /\ backup = [w \in Writers |-> NoFiles]
    /\ pc = [w \in Writers |-> "idle"]
    /\ todo = [w \in Writers |-> {}]
    /\ present = [w \in Writers |-> {}]
    /\ moved = [w \in Writers |-> {}]
    /\ errors = [w \in Writers |-> FALSE]
    /\ faults = 0

First(S) == CHOOSE f \in S : \A g \in S : f <= g
Last(S)  == CHOOSE f \in S : \A g \in S : f >= g

At(w, place) == pc[w] = place

(* Go on with the files in work at place.                                  *)
GoTo(w, place, work) ==
    /\ pc' = [pc EXCEPT ![w] = place]
    /\ todo' = [todo EXCEPT ![w] = work]

(* File f is done: the next one is taken at again, or the loop is over.    *)
Continue(w, f, again, place, work) ==
    IF todo[w] = {f} THEN GoTo(w, place, work) ELSE GoTo(w, again, todo[w] \ {f})

(* A system call raises.                                                   *)
Fault == faults < MaxFaults /\ faults' = faults + 1

(* An exception ends the try block: roll back, in reverse order.           *)
Rollback(w) == GoTo(w, "restoring", Files)
-----------------------------------------------------------------------------
(* Which destinations exist, once and for all of this call.                *)
Begin(w) ==
    /\ At(w, "idle")
    /\ present' = [present EXCEPT ![w] = {f \in Files : dest[f] # Missing}]
    /\ GoTo(w, "staging", Files)
    /\ UNCHANGED <<dest, temp, backup, moved, errors, faults>>

Stage(w) ==
    LET f == First(todo[w]) IN
    /\ At(w, "staging")
    /\ temp' = [temp EXCEPT ![w][f] = w]
    /\ Continue(w, f, "staging", "validating", {})
    /\ UNCHANGED <<dest, backup, present, moved, errors, faults>>

\* Faulty: existing files are overwritten where they are.
ValidateWithoutBackup(w) ==
    /\ At(w, "validating")
    /\ GoTo(w, "installing", Files)
    /\ UNCHANGED <<dest, temp, backup, present, moved, errors, faults>>

Validate(w) ==
    /\ At(w, "validating")
    /\ IF present[w] = {} THEN GoTo(w, "installing", Files)
                          ELSE GoTo(w, "backing", present[w])
    /\ UNCHANGED <<dest, temp, backup, present, moved, errors, faults>>

(* The empty file a destination is going to be moved onto.                 *)
Backup(w) ==
    /\ At(w, "backing")
    /\ backup' = [backup EXCEPT ![w][First(todo[w])] = Empty]
    /\ GoTo(w, "moving", todo[w])
    /\ UNCHANGED <<dest, temp, present, moved, errors, faults>>

(* _stage_bytes removes its file when it fails, and a validator only reads.*)
StageOrValidateFails(w) ==
    /\ pc[w] \in {"staging", "validating", "backing"}
    /\ Fault
    /\ Rollback(w)
    /\ UNCHANGED <<dest, temp, backup, present, moved, errors>>

(* os.replace of a destination by its backup's name.                       *)
Moved(w, f) ==
    /\ backup' = [backup EXCEPT ![w][f] = dest[f]]
    /\ dest' = [dest EXCEPT ![f] = Missing]

MoveAway(w) ==
    LET f == First(todo[w]) IN
    /\ At(w, "moving")
    /\ dest[f] # Missing
    /\ Moved(w, f)
    /\ moved' = [moved EXCEPT ![w] = @ \cup {f}]
    /\ Continue(w, f, "backing", "installing", Files)
    /\ UNCHANGED <<temp, present, errors, faults>>

(* The destination is gone, or the call raises, having moved it or not.    *)
MoveRaises(w) ==
    LET f == First(todo[w]) IN
    /\ At(w, "moving")
    /\ \/ dest[f] = Missing /\ UNCHANGED <<dest, backup, faults>>
       \/ dest[f] # Missing /\ Fault /\ UNCHANGED <<dest, backup>>
       \/ dest[f] # Missing /\ Fault /\ Moved(w, f)
    /\ GoTo(w, "suspecting", todo[w])
    /\ UNCHANGED <<temp, present, moved, errors>>

\* Faulty: a move that raised is taken not to have happened.
SuspectNothing(w) ==
    /\ At(w, "suspecting")
    /\ Rollback(w)
    /\ UNCHANGED <<dest, temp, backup, present, moved, errors, faults>>

(* Was the destination moved although the call raised?                     *)
Suspect(w) ==
    LET f == First(todo[w]) IN
    /\ At(w, "suspecting")
    /\ moved' = IF dest[f] = Missing /\ backup[w][f] # Missing
                THEN [moved EXCEPT ![w] = @ \cup {f}] ELSE moved
    /\ Rollback(w)
    /\ UNCHANGED <<dest, temp, backup, present, errors, faults>>

Installed(w, f) ==
    /\ dest' = [dest EXCEPT ![f] = temp[w][f]]
    /\ temp' = [temp EXCEPT ![w][f] = Missing]

Install(w) ==
    LET f == First(todo[w]) IN
    /\ At(w, "installing")
    /\ Installed(w, f)
    /\ Continue(w, f, "installing", "dropping", Files)
    /\ UNCHANGED <<backup, present, moved, errors, faults>>

InstallRaises(w) ==
    /\ At(w, "installing")
    /\ Fault
    /\ Installed(w, First(todo[w])) \/ UNCHANGED <<dest, temp>>
    /\ Rollback(w)
    /\ UNCHANGED <<backup, present, moved, errors>>

Restorable(w, f) == f \in moved[w] /\ backup[w][f] # Missing
Removable(w, f)  == ~Restorable(w, f) /\ f \notin present[w] /\ dest[f] # Missing

Restored(w, f) ==
    /\ Restorable(w, f)
    /\ dest' = [dest EXCEPT ![f] = backup[w][f]]
    /\ backup' = [backup EXCEPT ![w][f] = Missing]

Removed(w, f) ==
    /\ Removable(w, f)
    /\ dest' = [dest EXCEPT ![f] = Missing]
    /\ UNCHANGED backup

(* One destination of the rollback.                                        *)
Restore(w) ==
    LET f == Last(todo[w]) IN
    /\ At(w, "restoring")
    /\ \/ Restored(w, f) /\ moved' = [moved EXCEPT ![w] = @ \ {f}]
       \/ Removed(w, f) /\ UNCHANGED moved
       \/ ~Restorable(w, f) /\ ~Removable(w, f) /\ UNCHANGED <<dest, backup, moved>>
    /\ Continue(w, f, "restoring", "cleaning", Files)
    /\ UNCHANGED <<temp, present, errors, faults>>

(* The rollback of one destination raises, done or not; it goes on.        *)
RestoreRaises(w) ==
    LET f == Last(todo[w]) IN
    /\ At(w, "restoring")
    /\ Restorable(w, f) \/ Removable(w, f)
    /\ Fault
    /\ Restored(w, f) \/ Removed(w, f) \/ UNCHANGED <<dest, backup>>
    /\ errors' = [errors EXCEPT ![w] = TRUE]
    /\ Continue(w, f, "restoring", "cleaning", Files)
    /\ UNCHANGED <<temp, present, moved>>

(* Unlink what is left of the staged and backup files of f; the loop over  *)
(* the former comes first in the code, and they are this call's alone.     *)
Clean(w) ==
    LET f == First(todo[w]) IN
    /\ At(w, "cleaning")
    /\ temp' = [temp EXCEPT ![w][f] = Missing]
    /\ backup' = [backup EXCEPT ![w][f] = Missing]
    /\ Continue(w, f, "cleaning", "raised", {})
    /\ UNCHANGED <<dest, present, moved, errors, faults>>

CleanRaises(w) ==
    LET f == First(todo[w]) IN
    /\ At(w, "cleaning")
    /\ Fault
    /\ \/ /\ temp[w][f] # Missing /\ UNCHANGED temp
          /\ backup' = [backup EXCEPT ![w][f] = Missing]
       \/ /\ backup[w][f] # Missing /\ UNCHANGED backup
          /\ temp' = [temp EXCEPT ![w][f] = Missing]
    /\ errors' = [errors EXCEPT ![w] = TRUE]
    /\ Continue(w, f, "cleaning", "raised", {})
    /\ UNCHANGED <<dest, present, moved>>

(* All is in place: the backups go, and one that cannot is left.           *)
Drop(w) ==
    LET f == First(todo[w]) IN
    /\ At(w, "dropping")
    /\ \/ backup' = [backup EXCEPT ![w][f] = Missing] /\ UNCHANGED faults
       \/ backup[w][f] # Missing /\ Fault /\ UNCHANGED backup
    /\ Continue(w, f, "dropping", "saved", {})
    /\ UNCHANGED <<dest, temp, present, moved, errors>>

Crash(w) ==
    /\ pc[w] \notin Over \cup {"idle"}
    /\ Fault
    /\ GoTo(w, "crashed", {})
    /\ UNCHANGED <<dest, temp, backup, present, moved, errors>>

Next ==
    \E w \in Writers :
        \/ Begin(w) \/ Stage(w) \/ Validate(w) \/ StageOrValidateFails(w)
        \/ Backup(w) \/ MoveAway(w) \/ MoveRaises(w) \/ Suspect(w)
        \/ Install(w) \/ InstallRaises(w)
        \/ Restore(w) \/ RestoreRaises(w) \/ Clean(w) \/ CleanRaises(w)
        \/ Drop(w) \/ Crash(w)

Spec == Init /\ [][Next]_vars
-----------------------------------------------------------------------------
(* What destination f held when the call of w began, with no other writer. *)
Before(w, f) == IF f \in present[w] THEN Old ELSE Missing

(* All or nothing, for a bundle nobody else writes: a call that returns    *)
(* has replaced every file, and one that raises without rollback errors    *)
(* has left every file, and every absence of a file, as it was.            *)
AllOrNothing ==
    \A w \in Writers : \A f \in Files :
        /\ At(w, "saved") => dest[f] = w
        /\ At(w, "raised") /\ ~errors[w] => dest[f] = Before(w, f)

(* Until the whole bundle is in place, and as long as the rollback itself  *)
(* has met no error, the old content of every file is in the file or in    *)
(* its backup; also after a crash.                                         *)
NothingLost ==
    \A w \in Writers : \A f \in present[w] :
        pc[w] \notin {"dropping", "saved"} /\ ~errors[w] =>
            dest[f] = Old \/ backup[w][f] = Old \/ (dest[f] = w /\ At(w, "crashed"))

(* The bundle is recoverable (docstring of the function): a call that does *)
(* not return leaves the old content of every file somewhere.              *)
Recoverable ==
    \A w \in Writers : \A f \in present[w] :
        At(w, "raised") => dest[f] = Old \/ backup[w][f] = Old
=============================================================================
