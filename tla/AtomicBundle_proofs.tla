------------------------ MODULE AtomicBundle_proofs ------------------------
(***************************************************************************)
(* A bundle of any number of files, written by one call of                 *)
(* _atomic_write_bytes_bundle beside no other, with any number of system   *)
(* calls that raise, done or not, and a crash anywhere: it is replaced as  *)
(* a whole or left as it was, and no old content is ever without a copy.   *)
(***************************************************************************)
EXTENDS AtomicBundle, WellFoundedInduction, TLAPS

(* Nobody else writes the bundle.                                          *)
SoleWriter == \A v, w \in Writers : v = w

Shape ==
    /\ dest \in [Files -> Cells]
    /\ temp \in [Writers -> [Files -> Cells]]
    /\ backup \in [Writers -> [Files -> Cells]]
    /\ pc \in [Writers -> Places]
    /\ todo \in [Writers -> SUBSET Files]
    /\ present \in [Writers -> SUBSET Files]
    /\ moved \in [Writers -> SUBSET Files]
    /\ errors \in [Writers -> BOOLEAN]
    /\ faults \in Nat

(* The loops, which have something left to do.                             *)
Looping == {"staging", "backing", "moving", "suspecting", "installing", "restoring",
            "cleaning", "dropping"}

(* What the loops say of a file they have done, or have left to do.        *)
Staged(w, f)    == f \notin todo[w] => temp[w][f] = w
Untouched(w, f) == dest[f] = Before(w, f) /\ f \notin moved[w]
MovedAway(w, f) == dest[f] = Missing /\ backup[w][f] = Old /\ f \in moved[w]

(* What the rollback can deal with: the old content is in its backup and   *)
(* known to be there, or the file was never moved.                         *)
CanRestore(w, f) ==
    IF f \in present[w]
    THEN \/ f \in moved[w] /\ backup[w][f] = Old
         \/ f \notin moved[w] /\ dest[f] = Old
    ELSE f \notin moved[w]

(* File f at each place of its writer.                                     *)
FileOK(w, f) ==
    LET here == pc[w] IN
    /\ here = "idle" => dest[f] \in {Old, Missing} /\ f \notin present[w] /\ f \notin moved[w]
    /\ here \in {"staging", "validating"} => Untouched(w, f) /\ Staged(w, f)
    /\ here \in {"backing", "moving", "suspecting"} =>
          /\ temp[w][f] = w
          /\ \/ f \in present[w] \ todo[w] /\ MovedAway(w, f)
             \/ f \notin present[w] /\ Untouched(w, f)
             \/ f \in todo[w] /\ f \in present[w] /\ here # "suspecting" /\ Untouched(w, f)
             \/ f \in todo[w] /\ f \in present[w] /\ here = "suspecting" /\ f \notin moved[w] /\
                  (dest[f] = Old \/ (dest[f] = Missing /\ backup[w][f] = Old))
    /\ here = "installing" =>
          /\ f \in present[w] => f \in moved[w] /\ backup[w][f] = Old
          /\ f \notin present[w] => f \notin moved[w]
          /\ IF f \in todo[w] THEN dest[f] = Missing /\ temp[w][f] = w ELSE dest[f] = w
    /\ here = "restoring" /\ ~errors[w] =>
          IF f \in todo[w] THEN CanRestore(w, f) ELSE dest[f] = Before(w, f)
    /\ here \in {"cleaning", "raised"} /\ ~errors[w] => dest[f] = Before(w, f)
    /\ here \in {"dropping", "saved"} => dest[f] = w
    /\ here = "crashed" /\ ~errors[w] /\ f \in present[w] =>
          dest[f] = Old \/ backup[w][f] = Old \/ dest[f] = w

WriterOK(w) ==
    /\ pc[w] \in Looping => todo[w] # {}
    /\ pc[w] \in {"backing", "moving", "suspecting"} => todo[w] \subseteq present[w]
    /\ pc[w] \in {"idle", "validating"} => todo[w] = {}
    /\ pc[w] = "suspecting" => \A f \in todo[w] : dest[f] # Old => f = First(todo[w])

Good(w) == Shape /\ WriterOK(w) /\ \A f \in Files : FileOK(w, f)

BundleInv == \A w \in Writers : Good(w)
-----------------------------------------------------------------------------
LEMMA ContentsDiffer ==
    /\ Old # Missing /\ Empty # Missing /\ Empty # Old
    /\ \A w \in Writers : w # Old /\ w # Missing /\ w # Empty
    /\ Old \in Cells /\ Empty \in Cells /\ Missing \in Cells /\ Writers \subseteq Cells
BY ContentsAssumption DEF Contents, Cells

(* Every set of natural numbers that is not empty has a least element.     *)
LEMMA LeastNatural ==
    ASSUME NEW T \in SUBSET Nat, T # {}
    PROVE  \E x \in T : \A y \in T : x <= y
<1>1. IsWellFoundedOn(OpToRel(<, Nat), Nat)
  BY NatLessThanWellFounded
<1>2. PICK x \in T : \A y \in T : <<y, x>> \notin OpToRel(<, Nat)
  BY <1>1, WFMin
<1>3. ASSUME NEW y \in T PROVE x <= y
  <2>1. x \in Nat /\ y \in Nat
    BY <1>2, <1>3
  <2>2. ~(y < x)
    BY <1>2, <2>1 DEF OpToRel
  <2> QED
    BY <2>1, <2>2
<1> QED
  BY <1>2, <1>3

(* The loops always find a file to go on with.                             *)
LEMMA FirstIn ==
    ASSUME NEW S \in SUBSET Files, S # {}
    PROVE  First(S) \in S
<1>1. S \in SUBSET Nat
  BY NAssumption DEF Files
<1>2. \E f \in S : \A g \in S : f <= g
  BY <1>1, LeastNatural
<1> QED
  BY <1>2 DEF First

LEMMA LastIn ==
    ASSUME NEW S \in SUBSET Files, S # {}
    PROVE  Last(S) \in S
<1> DEFINE T == {N - f : f \in S}
<1>1. S \subseteq 1 .. N
  BY DEF Files
<1>2. T \in SUBSET Nat /\ T # {}
  <2>1. \A f \in 1 .. N : N - f \in Nat
    BY NAssumption
  <2> QED
    BY <1>1, <2>1
<1>3. PICK x \in T : \A y \in T : x <= y
  BY <1>2, LeastNatural
<1>4. PICK f \in S : x = N - f
  BY <1>3
<1>5. ASSUME NEW g \in S PROVE f >= g
  <2>1. N - g \in T /\ g \in Int /\ f \in Int
    BY <1>1
  <2>2. N - f <= N - g
    BY <1>3, <1>4, <2>1
  <2> QED
    BY <2>1, <2>2, NAssumption
<1>6. \E h \in S : \A g \in S : h >= g
  BY <1>4, <1>5
<1> QED
  BY <1>6 DEF Last

(* One file of a loop is done: go on with the rest, or with the next loop. *)
LEMMA Continued ==
    ASSUME Shape, NEW w \in Writers, NEW f \in todo[w], NEW again \in Places, NEW place \in Places,
           NEW work \in SUBSET Files, Continue(w, f, again, place, work)
    PROVE  /\ \/ todo[w] = {f} /\ pc'[w] = place /\ todo'[w] = work
              \/ todo[w] # {f} /\ pc'[w] = again /\ todo'[w] = todo[w] \ {f} /\ todo'[w] # {}
           /\ pc' \in [Writers -> Places] /\ todo' \in [Writers -> SUBSET Files]
<1>1. CASE todo[w] = {f}
  BY <1>1 DEF Continue, GoTo, Shape
<1>2. CASE todo[w] # {f}
  <2>1. todo[w] \ {f} # {} /\ todo[w] \ {f} \in SUBSET Files
    BY <1>2 DEF Shape
  <2> QED
    BY <1>2, <2>1 DEF Continue, GoTo, Shape
<1> QED
  BY <1>1, <1>2

LEMMA WentTo ==
    ASSUME Shape, NEW w \in Writers, NEW place \in Places, NEW work \in SUBSET Files,
           GoTo(w, place, work)
    PROVE  /\ pc'[w] = place /\ todo'[w] = work
           /\ pc' \in [Writers -> Places] /\ todo' \in [Writers -> SUBSET Files]
BY DEF GoTo, Shape

(* A file of one writer's staged or backup files is changed.               *)
LEMMA SetCell ==
    ASSUME NEW cells \in [Writers -> [Files -> Cells]], NEW w \in Writers, NEW f \in Files,
           NEW v \in Cells, NEW after, after = [cells EXCEPT ![w][f] = v]
    PROVE  /\ after \in [Writers -> [Files -> Cells]]
           /\ \A g \in Files : after[w][g] = IF g = f THEN v ELSE cells[w][g]
OBVIOUS

LEMMA SetFile ==
    ASSUME NEW v \in Cells, NEW f \in Files, dest \in [Files -> Cells], dest' = [dest EXCEPT ![f] = v]
    PROVE  /\ dest' \in [Files -> Cells]
           /\ \A g \in Files : dest'[g] = IF g = f THEN v ELSE dest[g]
OBVIOUS

LEMMA FilesExist == Files # {} /\ Files \in SUBSET Files /\ {} \in SUBSET Files
<1>1. 1 \in 1 .. N
  BY NAssumption
<1> QED
  BY <1>1 DEF Files

LEMMA PlacesExist == \A place \in Looping \cup Over \cup {"idle", "validating"} : place \in Places
BY DEF Looping, Places

(* The actions, one by one.                                                *)
LEMMA BeginOK == ASSUME NEW w \in Writers, Good(w), Begin(w) PROVE Good(w)'
<1>1. /\ pc'[w] = "staging" /\ todo'[w] = Files /\ present'[w] = {f \in Files : dest[f] # Missing}
      /\ UNCHANGED <<dest, temp, backup, moved, errors, faults>> /\ pc[w] = "idle"
      /\ pc' \in [Writers -> Places] /\ todo' \in [Writers -> SUBSET Files]
      /\ present' \in [Writers -> SUBSET Files]
  BY WentTo DEF Begin, At, Good, Shape, Places
<1>2. Shape'
  BY <1>1 DEF Good, Shape
<1>3. Files # {}
  BY FilesExist
<1>4. \A f \in Files : FileOK(w, f)'
  BY <1>1 DEF Good, FileOK, Untouched, Staged, Before
<1> QED
  BY <1>1, <1>2, <1>3, <1>4 DEF Good, WriterOK, Looping

LEMMA StageOK == ASSUME NEW w \in Writers, Good(w), Stage(w) PROVE Good(w)'
<1> DEFINE f == First(todo[w])
<1>1. f \in todo[w] /\ f \in Files /\ pc[w] = "staging"
  BY FirstIn DEF Good, WriterOK, Looping, Stage, At, Shape
<1> HIDE DEF f
<1>2. /\ \/ todo[w] = {f} /\ pc'[w] = "validating" /\ todo'[w] = {}
         \/ todo[w] # {f} /\ pc'[w] = "staging" /\ todo'[w] = todo[w] \ {f} /\ todo'[w] # {}
      /\ pc' \in [Writers -> Places] /\ todo' \in [Writers -> SUBSET Files]
  <2>1. Continue(w, f, "staging", "validating", {})
    BY DEF Stage, f
  <2> QED
    BY <1>1, <2>1, Continued, FilesExist, PlacesExist DEF Good, Looping
<1>3. /\ temp' \in [Writers -> [Files -> Cells]]
      /\ \A g \in Files : temp'[w][g] = IF g = f THEN w ELSE temp[w][g]
  BY <1>1, SetCell, ContentsDiffer DEF Good, Shape, Stage, f
<1>4. UNCHANGED <<dest, backup, present, moved, errors, faults>>
  BY DEF Stage
<1>5. Shape'
  BY <1>2, <1>3, <1>4 DEF Good, Shape
<1>6. ASSUME NEW g \in Files PROVE FileOK(w, g)'
  BY <1>1, <1>2, <1>3, <1>4 DEF Good, FileOK, Untouched, Staged, Before
<1> QED
  BY <1>2, <1>5, <1>6 DEF Good, WriterOK, Looping

LEMMA ValidateOK == ASSUME NEW w \in Writers, Good(w), Validate(w) PROVE Good(w)'
<1>1. /\ pc[w] = "validating" /\ todo[w] = {}
      /\ UNCHANGED <<dest, temp, backup, present, moved, errors, faults>>
      /\ Files # {} /\ present[w] \in SUBSET Files
  BY FilesExist DEF Validate, At, Good, WriterOK, Shape
<1>2. /\ \/ present[w] = {} /\ pc'[w] = "installing" /\ todo'[w] = Files
         \/ present[w] # {} /\ pc'[w] = "backing" /\ todo'[w] = present[w]
      /\ pc' \in [Writers -> Places] /\ todo' \in [Writers -> SUBSET Files]
  BY <1>1, WentTo DEF Validate, Good, Places
<1>3. Shape'
  BY <1>1, <1>2 DEF Good, Shape
<1>4. ASSUME NEW g \in Files PROVE FileOK(w, g)'
  BY <1>1, <1>2 DEF Good, FileOK, Untouched, Staged, Before
<1> QED
  BY <1>1, <1>2, <1>3, <1>4 DEF Good, WriterOK, Looping

LEMMA BackupOK == ASSUME NEW w \in Writers, Good(w), Backup(w) PROVE Good(w)'
<1> DEFINE f == First(todo[w])
<1>1. f \in todo[w] /\ f \in Files /\ pc[w] = "backing" /\ todo[w] # {} /\ todo[w] \subseteq present[w]
  BY FirstIn DEF Good, WriterOK, Looping, Backup, At, Shape
<1>2. /\ pc'[w] = "moving" /\ todo'[w] = todo[w]
      /\ pc' \in [Writers -> Places] /\ todo' \in [Writers -> SUBSET Files]
  BY WentTo DEF Backup, Good, Shape, Places
<1>3. /\ backup' \in [Writers -> [Files -> Cells]]
      /\ \A g \in Files : backup'[w][g] = IF g = f THEN Empty ELSE backup[w][g]
  BY <1>1, SetCell, ContentsDiffer DEF Good, Shape, Backup
<1> HIDE DEF f
<1>4. UNCHANGED <<dest, temp, present, moved, errors, faults>>
  BY DEF Backup
<1>5. Shape'
  BY <1>2, <1>3, <1>4 DEF Good, Shape
<1>6. ASSUME NEW g \in Files PROVE FileOK(w, g)'
  BY <1>1, <1>2, <1>3, <1>4 DEF Good, FileOK, Untouched, MovedAway, Before
<1> QED
  BY <1>1, <1>2, <1>4, <1>5, <1>6 DEF Good, WriterOK, Looping

(* Wherever the rollback begins, it can restore every file.                *)
LEMMA RollbackOK ==
    ASSUME NEW w \in Writers, Good(w), Shape', Rollback(w), UNCHANGED present,
           \A g \in Files : CanRestore(w, g)'
    PROVE  Good(w)'
<1>1. pc'[w] = "restoring" /\ todo'[w] = Files /\ Files # {}
  BY WentTo, FilesExist, PlacesExist DEF Rollback, Good, Looping
<1>2. ASSUME NEW g \in Files PROVE FileOK(w, g)'
  BY <1>1 DEF FileOK
<1> QED
  BY <1>1, <1>2 DEF Good, WriterOK, Looping

LEMMA EarlyFailureOK == ASSUME NEW w \in Writers, Good(w), StageOrValidateFails(w) PROVE Good(w)'
<1>1. /\ pc[w] \in {"staging", "validating", "backing"} /\ Rollback(w) /\ faults' = faults + 1
      /\ UNCHANGED <<dest, temp, backup, present, moved, errors>>
  BY DEF StageOrValidateFails, Fault
<1>2. Shape'
  <2>1. pc' \in [Writers -> Places] /\ todo' \in [Writers -> SUBSET Files]
    BY <1>1, WentTo, FilesExist, PlacesExist DEF Rollback, Good, Looping
  <2> QED
    BY <1>1, <2>1 DEF Good, Shape
<1>3. ASSUME NEW g \in Files PROVE CanRestore(w, g)'
  BY <1>1 DEF Good, FileOK, Untouched, MovedAway, Before, CanRestore
<1> QED
  BY <1>1, <1>2, <1>3, RollbackOK

(* The file that is moved away is there: nobody else writes the bundle.    *)
LEMMA ToBeMoved ==
    ASSUME NEW w \in Writers, Good(w), pc[w] = "moving"
    PROVE  /\ First(todo[w]) \in todo[w] /\ First(todo[w]) \in Files /\ First(todo[w]) \in present[w]
           /\ dest[First(todo[w])] = Old /\ First(todo[w]) \notin moved[w]
           /\ todo[w] \subseteq present[w]
<1>1. First(todo[w]) \in todo[w] /\ First(todo[w]) \in Files /\ todo[w] \subseteq present[w]
  BY FirstIn DEF Good, WriterOK, Looping, Shape
<1>2. FileOK(w, First(todo[w]))
  BY <1>1 DEF Good
<1> QED
  BY <1>1, <1>2 DEF FileOK, Untouched, Before

LEMMA MovedEffect ==
    ASSUME NEW w \in Writers, Good(w), NEW f \in Files, Moved(w, f)
    PROVE  /\ backup' \in [Writers -> [Files -> Cells]] /\ dest' \in [Files -> Cells]
           /\ \A g \in Files : /\ backup'[w][g] = IF g = f THEN dest[f] ELSE backup[w][g]
                               /\ dest'[g] = IF g = f THEN Missing ELSE dest[g]
<1>1. dest[f] \in Cells
  BY DEF Good, Shape
<1> QED
  BY <1>1, SetCell, SetFile, ContentsDiffer DEF Good, Shape, Moved

LEMMA MoveAwayOK == ASSUME NEW w \in Writers, Good(w), MoveAway(w) PROVE Good(w)'
<1> DEFINE f == First(todo[w])
<1>1. /\ f \in todo[w] /\ f \in Files /\ f \in present[w] /\ dest[f] = Old /\ f \notin moved[w]
      /\ todo[w] \subseteq present[w] /\ pc[w] = "moving"
  BY ToBeMoved DEF MoveAway, At
<1>2. /\ backup' \in [Writers -> [Files -> Cells]] /\ dest' \in [Files -> Cells]
      /\ \A g \in Files : /\ backup'[w][g] = IF g = f THEN Old ELSE backup[w][g]
                          /\ dest'[g] = IF g = f THEN Missing ELSE dest[g]
  BY <1>1, MovedEffect DEF MoveAway
<1>3. moved' \in [Writers -> SUBSET Files] /\ moved'[w] = moved[w] \cup {f}
  BY <1>1 DEF MoveAway, Good, Shape
<1>4. /\ \/ todo[w] = {f} /\ pc'[w] = "installing" /\ todo'[w] = Files
         \/ todo[w] # {f} /\ pc'[w] = "backing" /\ todo'[w] = todo[w] \ {f} /\ todo'[w] # {}
      /\ pc' \in [Writers -> Places] /\ todo' \in [Writers -> SUBSET Files]
  <2>1. Continue(w, f, "backing", "installing", Files)
    BY DEF MoveAway
  <2> QED
    BY <1>1, <2>1, Continued, FilesExist, PlacesExist DEF Good, Looping
<1>5. UNCHANGED <<temp, present, errors, faults>>
  BY DEF MoveAway
<1> HIDE DEF f
<1>6. Shape'
  BY <1>2, <1>3, <1>4, <1>5 DEF Good, Shape
<1>7. ASSUME NEW g \in Files PROVE FileOK(w, g)'
  <2>1. FileOK(w, g)
    BY DEF Good
  <2>2. CASE todo[w] = {f}
    BY <1>1, <1>2, <1>3, <1>4, <1>5, <2>1, <2>2 DEF FileOK, Untouched, MovedAway, Before
  <2>3. CASE todo[w] # {f}
    BY <1>1, <1>2, <1>3, <1>4, <1>5, <2>1, <2>3 DEF FileOK, Untouched, MovedAway, Before
  <2> QED
    BY <2>2, <2>3
<1> QED
  BY <1>1, <1>4, <1>5, <1>6, <1>7, FilesExist DEF Good, WriterOK, Looping

LEMMA MoveRaisesOK == ASSUME NEW w \in Writers, Good(w), MoveRaises(w) PROVE Good(w)'
<1> DEFINE f == First(todo[w])
<1>1. /\ f \in todo[w] /\ f \in Files /\ f \in present[w] /\ dest[f] = Old /\ f \notin moved[w]
      /\ todo[w] \subseteq present[w] /\ pc[w] = "moving" /\ dest[f] # Missing
  BY ToBeMoved, ContentsDiffer DEF MoveRaises, At
<1>2. /\ backup' \in [Writers -> [Files -> Cells]] /\ dest' \in [Files -> Cells]
      /\ \A g \in Files \ {f} : backup'[w][g] = backup[w][g] /\ dest'[g] = dest[g]
      /\ dest'[f] = Old \/ (dest'[f] = Missing /\ backup'[w][f] = Old)
  <2>1. CASE UNCHANGED <<dest, backup>>
    BY <1>1, <2>1 DEF Good, Shape
  <2>2. CASE Moved(w, f)
    BY <1>1, <2>2, MovedEffect
  <2> QED
    BY <1>1, <2>1, <2>2 DEF MoveRaises
<1>3. pc'[w] = "suspecting" /\ todo'[w] = todo[w]
      /\ pc' \in [Writers -> Places] /\ todo' \in [Writers -> SUBSET Files]
  <2>1. GoTo(w, "suspecting", todo[w])
    BY DEF MoveRaises
  <2> QED
    BY <2>1, WentTo, PlacesExist DEF Good, Shape, Looping
<1>4. UNCHANGED <<temp, present, moved, errors>> /\ faults' \in Nat
  BY <1>1 DEF MoveRaises, Fault, Good, Shape
<1> HIDE DEF f
<1>5. Shape'
  BY <1>2, <1>3, <1>4 DEF Good, Shape
<1>6. ASSUME NEW g \in Files PROVE FileOK(w, g)'
  <2>1. FileOK(w, g)
    BY DEF Good
  <2>2. CASE g = f
    BY <1>1, <1>2, <1>3, <1>4, <2>1, <2>2 DEF FileOK, Untouched, MovedAway, Before
  <2>3. CASE g # f
    BY <1>1, <1>2, <1>3, <1>4, <2>1, <2>3 DEF FileOK, Untouched, MovedAway, Before
  <2> QED
    BY <2>2, <2>3
<1>7. ASSUME NEW g \in todo[w], dest'[g] # Old PROVE g = f
  BY <1>1, <1>2, <1>7 DEF Good, FileOK, Untouched, Before, Shape, MovedAway
<1> QED
  BY <1>1, <1>3, <1>4, <1>5, <1>6, <1>7 DEF Good, WriterOK, Looping, f

LEMMA SuspectOK == ASSUME NEW w \in Writers, Good(w), Suspect(w) PROVE Good(w)'
<1> DEFINE f == First(todo[w])
<1>1. /\ pc[w] = "suspecting" /\ Rollback(w) /\ UNCHANGED <<dest, temp, backup, present, errors, faults>>
      /\ f \in todo[w] /\ f \in Files /\ todo[w] \subseteq present[w]
      /\ \A g \in todo[w] : dest[g] # Old => g = f
  BY FirstIn DEF Suspect, At, Good, WriterOK, Looping, Shape
<1>2. /\ moved' \in [Writers -> SUBSET Files]
      /\ moved'[w] = IF dest[f] = Missing /\ backup[w][f] # Missing THEN moved[w] \cup {f} ELSE moved[w]
  BY <1>1 DEF Suspect, Good, Shape
<1>3. Shape'
  <2>1. pc' \in [Writers -> Places] /\ todo' \in [Writers -> SUBSET Files]
    BY <1>1, WentTo, FilesExist, PlacesExist DEF Rollback, Good, Looping
  <2> QED
    BY <1>1, <1>2, <2>1 DEF Good, Shape
<1> HIDE DEF f
<1>4. ASSUME NEW g \in Files PROVE CanRestore(w, g)'
  <2>1. FileOK(w, g)
    BY DEF Good
  <2>2. CASE g = f
    BY <1>1, <1>2, <2>1, <2>2, ContentsDiffer DEF FileOK, Untouched, MovedAway, Before, CanRestore
  <2>3. CASE g # f
    BY <1>1, <1>2, <2>1, <2>3 DEF FileOK, Untouched, MovedAway, Before, CanRestore
  <2> QED
    BY <2>2, <2>3
<1> QED
  BY <1>1, <1>3, <1>4, RollbackOK

LEMMA InstalledEffect ==
    ASSUME NEW w \in Writers, Good(w), NEW f \in Files, Installed(w, f)
    PROVE  /\ temp' \in [Writers -> [Files -> Cells]] /\ dest' \in [Files -> Cells]
           /\ \A g \in Files : /\ temp'[w][g] = IF g = f THEN Missing ELSE temp[w][g]
                               /\ dest'[g] = IF g = f THEN temp[w][f] ELSE dest[g]
<1>1. temp[w][f] \in Cells
  BY DEF Good, Shape
<1> QED
  BY <1>1, SetCell, SetFile, ContentsDiffer DEF Good, Shape, Installed

LEMMA InstallOK == ASSUME NEW w \in Writers, Good(w), Install(w) PROVE Good(w)'
<1> DEFINE f == First(todo[w])
<1>1. f \in todo[w] /\ f \in Files /\ pc[w] = "installing" /\ temp[w][f] = w
  <2>1. f \in todo[w] /\ f \in Files /\ pc[w] = "installing"
    BY FirstIn DEF Good, WriterOK, Looping, Install, At, Shape
  <2> QED
    BY <2>1 DEF Good, FileOK
<1>2. /\ temp' \in [Writers -> [Files -> Cells]] /\ dest' \in [Files -> Cells]
      /\ \A g \in Files : /\ temp'[w][g] = IF g = f THEN Missing ELSE temp[w][g]
                          /\ dest'[g] = IF g = f THEN w ELSE dest[g]
  BY <1>1, InstalledEffect DEF Install
<1>3. /\ \/ todo[w] = {f} /\ pc'[w] = "dropping" /\ todo'[w] = Files
         \/ todo[w] # {f} /\ pc'[w] = "installing" /\ todo'[w] = todo[w] \ {f} /\ todo'[w] # {}
      /\ pc' \in [Writers -> Places] /\ todo' \in [Writers -> SUBSET Files]
  <2>1. Continue(w, f, "installing", "dropping", Files)
    BY DEF Install
  <2> QED
    BY <1>1, <2>1, Continued, FilesExist, PlacesExist DEF Good, Looping
<1>4. UNCHANGED <<backup, present, moved, errors, faults>>
  BY DEF Install
<1> HIDE DEF f
<1>5. Shape'
  BY <1>2, <1>3, <1>4 DEF Good, Shape
<1>6. ASSUME NEW g \in Files PROVE FileOK(w, g)'
  BY <1>1, <1>2, <1>3, <1>4 DEF Good, FileOK
<1> QED
  BY <1>3, <1>5, <1>6, FilesExist DEF Good, WriterOK, Looping

LEMMA InstallRaisesOK == ASSUME NEW w \in Writers, Good(w), InstallRaises(w) PROVE Good(w)'
<1> DEFINE f == First(todo[w])
<1>1. /\ f \in todo[w] /\ f \in Files /\ pc[w] = "installing" /\ Rollback(w) /\ faults' \in Nat
      /\ UNCHANGED <<backup, present, moved, errors>>
  BY FirstIn DEF Good, WriterOK, Looping, InstallRaises, At, Shape, Fault
<1>2. temp' \in [Writers -> [Files -> Cells]] /\ dest' \in [Files -> Cells]
  <2>1. CASE Installed(w, f)
    BY <1>1, <2>1, InstalledEffect
  <2>2. CASE UNCHANGED <<dest, temp>>
    BY <2>2 DEF Good, Shape
  <2> QED
    BY <2>1, <2>2 DEF InstallRaises
<1> HIDE DEF f
<1>3. Shape'
  <2>1. pc' \in [Writers -> Places] /\ todo' \in [Writers -> SUBSET Files]
    BY <1>1, WentTo, FilesExist, PlacesExist DEF Rollback, Good, Looping
  <2> QED
    BY <1>1, <1>2, <2>1 DEF Good, Shape
<1>4. \A g \in Files : CanRestore(w, g)'
  BY <1>1 DEF Good, FileOK, CanRestore
<1> QED
  BY <1>1, <1>3, <1>4, RollbackOK

(* What a step of the rollback may do to the file it is about.             *)
LEMMA RestoreEffect ==
    ASSUME NEW w \in Writers, Good(w), NEW f \in Files,
           Restored(w, f) \/ Removed(w, f) \/ UNCHANGED <<dest, backup>>
    PROVE  /\ backup' \in [Writers -> [Files -> Cells]] /\ dest' \in [Files -> Cells]
           /\ \A g \in Files : g # f => backup'[w][g] = backup[w][g] /\ dest'[g] = dest[g]
           /\ Restored(w, f) => dest'[f] = backup[w][f]
           /\ Removed(w, f) => dest'[f] = Missing
<1>1. CASE Restored(w, f)
  <2>1. backup[w][f] \in Cells
    BY DEF Good, Shape
  <2>2. ~Removed(w, f)
    BY <1>1 DEF Restored, Removed, Removable
  <2> QED
    BY <1>1, <2>1, <2>2, SetCell, SetFile, ContentsDiffer DEF Good, Shape, Restored
<1>2. CASE Removed(w, f)
  <2>1. ~Restored(w, f)
    BY <1>2 DEF Restored, Removed, Removable
  <2> QED
    BY <1>2, <2>1, SetFile, ContentsDiffer DEF Good, Shape, Removed
<1>3. CASE UNCHANGED <<dest, backup>> /\ ~Restored(w, f) /\ ~Removed(w, f)
  BY <1>3 DEF Good, Shape
<1> QED
  BY <1>1, <1>2, <1>3

LEMMA RestoreOK == ASSUME NEW w \in Writers, Good(w), Restore(w) PROVE Good(w)'
<1> DEFINE f == Last(todo[w])
<1>1. f \in todo[w] /\ f \in Files /\ pc[w] = "restoring"
  BY LastIn DEF Good, WriterOK, Looping, Restore, At, Shape
<1>2. /\ backup' \in [Writers -> [Files -> Cells]] /\ dest' \in [Files -> Cells]
      /\ \A g \in Files : g # f => backup'[w][g] = backup[w][g] /\ dest'[g] = dest[g]
      /\ Restored(w, f) => dest'[f] = backup[w][f]
      /\ Removed(w, f) => dest'[f] = Missing
  BY <1>1, RestoreEffect DEF Restore
<1>3. /\ moved' \in [Writers -> SUBSET Files]
      /\ \A g \in Files : g # f => (g \in moved'[w] <=> g \in moved[w])
  BY <1>1 DEF Restore, Good, Shape
<1>4. /\ \/ todo[w] = {f} /\ pc'[w] = "cleaning" /\ todo'[w] = Files
         \/ todo[w] # {f} /\ pc'[w] = "restoring" /\ todo'[w] = todo[w] \ {f} /\ todo'[w] # {}
      /\ pc' \in [Writers -> Places] /\ todo' \in [Writers -> SUBSET Files]
  <2>1. Continue(w, f, "restoring", "cleaning", Files)
    BY DEF Restore
  <2> QED
    BY <1>1, <2>1, Continued, FilesExist, PlacesExist DEF Good, Looping
<1>5. UNCHANGED <<temp, present, errors, faults>>
  BY DEF Restore
<1>6. ASSUME ~errors[w] PROVE dest'[f] = Before(w, f)
  <2>1. CanRestore(w, f)
    BY <1>1, <1>6 DEF Good, FileOK
  <2>2. CASE Restored(w, f)
    BY <1>2, <2>1, <2>2 DEF Restored, Restorable, CanRestore, Before
  <2>3. CASE Removed(w, f)
    BY <1>2, <2>1, <2>3 DEF Removed, Removable, Before
  <2>4. CASE ~Restorable(w, f) /\ ~Removable(w, f) /\ UNCHANGED dest
    BY <2>1, <2>4, ContentsDiffer DEF Restorable, Removable, CanRestore, Before
  <2> QED
    BY <2>2, <2>3, <2>4 DEF Restore
<1> HIDE DEF f
<1>7. Shape'
  BY <1>2, <1>3, <1>4, <1>5 DEF Good, Shape
<1>8. ASSUME NEW g \in Files PROVE FileOK(w, g)'
  <2>1. FileOK(w, g)
    BY DEF Good
  <2>2. CASE g = f
    BY <1>1, <1>4, <1>5, <1>6, <2>2 DEF FileOK, Before
  <2>3. CASE g # f
    BY <1>1, <1>2, <1>3, <1>4, <1>5, <2>1, <2>3 DEF FileOK, CanRestore, Before
  <2> QED
    BY <2>2, <2>3
<1> QED
  BY <1>4, <1>7, <1>8, FilesExist DEF Good, WriterOK, Looping

(* After an error of the rollback nothing is promised any more.            *)
LEMMA ErrorOK ==
    ASSUME NEW w \in Writers, Shape', errors'[w], pc'[w] \in {"restoring", "cleaning", "raised"},
           pc'[w] \in Looping => todo'[w] # {}
    PROVE  Good(w)'
<1>1. \A g \in Files : FileOK(w, g)'
  BY DEF FileOK
<1> QED
  BY <1>1 DEF Good, WriterOK

LEMMA RestoreRaisesOK == ASSUME NEW w \in Writers, Good(w), RestoreRaises(w) PROVE Good(w)'
<1> DEFINE f == Last(todo[w])
<1>1. f \in todo[w] /\ f \in Files /\ pc[w] = "restoring"
  BY LastIn DEF Good, WriterOK, Looping, RestoreRaises, At, Shape
<1>2. backup' \in [Writers -> [Files -> Cells]] /\ dest' \in [Files -> Cells]
  BY <1>1, RestoreEffect DEF RestoreRaises
<1>3. /\ \/ todo[w] = {f} /\ pc'[w] = "cleaning" /\ todo'[w] = Files
         \/ todo[w] # {f} /\ pc'[w] = "restoring" /\ todo'[w] = todo[w] \ {f} /\ todo'[w] # {}
      /\ pc' \in [Writers -> Places] /\ todo' \in [Writers -> SUBSET Files]
  <2>1. Continue(w, f, "restoring", "cleaning", Files)
    BY DEF RestoreRaises
  <2> QED
    BY <1>1, <2>1, Continued, FilesExist, PlacesExist DEF Good, Looping
<1>4. /\ UNCHANGED <<temp, present, moved>> /\ errors' \in [Writers -> BOOLEAN] /\ errors'[w]
      /\ faults' \in Nat
  BY DEF RestoreRaises, Fault, Good, Shape
<1> HIDE DEF f
<1>5. Shape'
  BY <1>2, <1>3, <1>4 DEF Good, Shape
<1> QED
  BY <1>3, <1>4, <1>5, FilesExist, ErrorOK

LEMMA CleanOK == ASSUME NEW w \in Writers, Good(w), Clean(w) PROVE Good(w)'
<1> DEFINE f == First(todo[w])
<1>1. f \in todo[w] /\ f \in Files /\ pc[w] = "cleaning"
  BY FirstIn DEF Good, WriterOK, Looping, Clean, At, Shape
<1>2. temp' \in [Writers -> [Files -> Cells]] /\ backup' \in [Writers -> [Files -> Cells]]
  BY <1>1, SetCell, ContentsDiffer DEF Good, Shape, Clean
<1>3. /\ \/ todo[w] = {f} /\ pc'[w] = "raised" /\ todo'[w] = {}
         \/ todo[w] # {f} /\ pc'[w] = "cleaning" /\ todo'[w] = todo[w] \ {f} /\ todo'[w] # {}
      /\ pc' \in [Writers -> Places] /\ todo' \in [Writers -> SUBSET Files]
  <2>1. Continue(w, f, "cleaning", "raised", {})
    BY DEF Clean
  <2> QED
    BY <1>1, <2>1, Continued, FilesExist, PlacesExist DEF Good, Looping, Over
<1>4. UNCHANGED <<dest, present, moved, errors, faults>>
  BY DEF Clean
<1> HIDE DEF f
<1>5. Shape'
  BY <1>2, <1>3, <1>4 DEF Good, Shape
<1>6. ASSUME NEW g \in Files PROVE FileOK(w, g)'
  BY <1>1, <1>3, <1>4 DEF Good, FileOK, Before
<1> QED
  BY <1>3, <1>5, <1>6 DEF Good, WriterOK, Looping

LEMMA CleanRaisesOK == ASSUME NEW w \in Writers, Good(w), CleanRaises(w) PROVE Good(w)'
<1> DEFINE f == First(todo[w])
<1>1. f \in todo[w] /\ f \in Files /\ pc[w] = "cleaning"
  BY FirstIn DEF Good, WriterOK, Looping, CleanRaises, At, Shape
<1>2. temp' \in [Writers -> [Files -> Cells]] /\ backup' \in [Writers -> [Files -> Cells]]
  <2>1. CASE UNCHANGED temp /\ backup' = [backup EXCEPT ![w][f] = Missing]
    BY <1>1, <2>1, SetCell, ContentsDiffer DEF Good, Shape
  <2>2. CASE UNCHANGED backup /\ temp' = [temp EXCEPT ![w][f] = Missing]
    BY <1>1, <2>2, SetCell, ContentsDiffer DEF Good, Shape
  <2> QED
    BY <2>1, <2>2 DEF CleanRaises
<1>3. /\ \/ todo[w] = {f} /\ pc'[w] = "raised" /\ todo'[w] = {}
         \/ todo[w] # {f} /\ pc'[w] = "cleaning" /\ todo'[w] = todo[w] \ {f} /\ todo'[w] # {}
      /\ pc' \in [Writers -> Places] /\ todo' \in [Writers -> SUBSET Files]
  <2>1. Continue(w, f, "cleaning", "raised", {})
    BY DEF CleanRaises
  <2> QED
    BY <1>1, <2>1, Continued, FilesExist, PlacesExist DEF Good, Looping, Over
<1>4. /\ UNCHANGED <<dest, present, moved>> /\ errors' \in [Writers -> BOOLEAN] /\ errors'[w]
      /\ faults' \in Nat
  BY DEF CleanRaises, Fault, Good, Shape
<1> HIDE DEF f
<1>5. Shape'
  BY <1>2, <1>3, <1>4 DEF Good, Shape
<1> QED
  BY <1>3, <1>4, <1>5, ErrorOK DEF Looping

LEMMA DropOK == ASSUME NEW w \in Writers, Good(w), Drop(w) PROVE Good(w)'
<1> DEFINE f == First(todo[w])
<1>1. f \in todo[w] /\ f \in Files /\ pc[w] = "dropping"
  BY FirstIn DEF Good, WriterOK, Looping, Drop, At, Shape
<1>2. backup' \in [Writers -> [Files -> Cells]]
  <2>1. CASE backup' = [backup EXCEPT ![w][f] = Missing]
    BY <1>1, <2>1, SetCell, ContentsDiffer DEF Good, Shape
  <2>2. CASE UNCHANGED backup
    BY <2>2 DEF Good, Shape
  <2> QED
    BY <2>1, <2>2 DEF Drop
<1>3. /\ \/ todo[w] = {f} /\ pc'[w] = "saved" /\ todo'[w] = {}
         \/ todo[w] # {f} /\ pc'[w] = "dropping" /\ todo'[w] = todo[w] \ {f} /\ todo'[w] # {}
      /\ pc' \in [Writers -> Places] /\ todo' \in [Writers -> SUBSET Files]
  <2>1. Continue(w, f, "dropping", "saved", {})
    BY DEF Drop
  <2> QED
    BY <1>1, <2>1, Continued, FilesExist, PlacesExist DEF Good, Looping, Over
<1>4. UNCHANGED <<dest, temp, present, moved, errors>> /\ faults' \in Nat
  BY DEF Drop, Fault, Good, Shape
<1> HIDE DEF f
<1>5. Shape'
  BY <1>2, <1>3, <1>4 DEF Good, Shape
<1>6. ASSUME NEW g \in Files PROVE FileOK(w, g)'
  BY <1>1, <1>3, <1>4 DEF Good, FileOK
<1> QED
  BY <1>3, <1>5, <1>6 DEF Good, WriterOK, Looping

(* Wherever the process crashes, an old file or a copy of it is left.      *)
LEMMA CrashOK == ASSUME NEW w \in Writers, Good(w), Crash(w) PROVE Good(w)'
<1>1. /\ pc[w] \notin Over \cup {"idle"} /\ GoTo(w, "crashed", {}) /\ faults' \in Nat
      /\ UNCHANGED <<dest, temp, backup, present, moved, errors>>
  BY DEF Crash, Fault, Good, Shape
<1>2. /\ pc'[w] = "crashed" /\ todo'[w] = {}
      /\ pc' \in [Writers -> Places] /\ todo' \in [Writers -> SUBSET Files]
  BY <1>1, WentTo, FilesExist, PlacesExist DEF Good, Over
<1>3. Shape'
  BY <1>1, <1>2 DEF Good, Shape
<1>4. pc[w] \in Looping \cup {"validating"}
  BY <1>1 DEF Good, Shape, Places, Looping
<1>5. ASSUME NEW g \in Files, g \in present[w], ~errors[w]
      PROVE  dest[g] = Old \/ backup[w][g] = Old \/ dest[g] = w
  BY <1>4, <1>5 DEF Good, FileOK, Looping, Untouched, MovedAway, Before, CanRestore
<1>6. ASSUME NEW g \in Files PROVE FileOK(w, g)'
  BY <1>1, <1>2, <1>5 DEF FileOK
<1> QED
  BY <1>2, <1>3, <1>6 DEF Good, WriterOK, Looping

LEMMA GoodInit == ASSUME Init, NEW w \in Writers PROVE Good(w)
<1>1. Shape
  BY FilesExist, PlacesExist, ContentsDiffer DEF Init, Shape, NoFiles, Cells, Contents
<1> QED
  BY <1>1 DEF Init, Good, WriterOK, FileOK, Looping

LEMMA GoodStep == ASSUME SoleWriter, NEW w \in Writers, Good(w), [Next]_vars PROVE Good(w)'
<1>1. CASE UNCHANGED vars
  BY <1>1 DEF vars, Good, Shape, WriterOK, FileOK, Untouched, Staged, MovedAway, Before, CanRestore
<1>2. ASSUME NEW v \in Writers,
             \/ Begin(v) \/ Stage(v) \/ Validate(v) \/ StageOrValidateFails(v)
             \/ Backup(v) \/ MoveAway(v) \/ MoveRaises(v) \/ Suspect(v)
             \/ Install(v) \/ InstallRaises(v)
             \/ Restore(v) \/ RestoreRaises(v) \/ Clean(v) \/ CleanRaises(v)
             \/ Drop(v) \/ Crash(v)
      PROVE  Good(w)'
  <2>1. v = w
    BY DEF SoleWriter
  <2> QED
    BY <1>2, <2>1, BeginOK, StageOK, ValidateOK, EarlyFailureOK, BackupOK, MoveAwayOK, MoveRaisesOK,
       SuspectOK, InstallOK, InstallRaisesOK, RestoreOK, RestoreRaisesOK, CleanOK, CleanRaisesOK,
       DropOK, CrashOK
<1> QED
  BY <1>1, <1>2 DEF Next

(* The inductive invariant: every file is as its writer's loop has left    *)
(* it, and the writer knows enough to bring it back.                       *)
THEOREM BundleInvariant == SoleWriter => (Spec => []BundleInv)
<1> SUFFICES ASSUME SoleWriter PROVE Spec => []BundleInv
  OBVIOUS
<1>1. Init => BundleInv
  BY GoodInit DEF BundleInv
<1>2. BundleInv /\ [Next]_vars => BundleInv'
  BY GoodStep DEF BundleInv
<1> QED
  BY <1>1, <1>2, PTL DEF Spec

(* AllOrNothing: a call of _atomic_write_bytes_bundle that returns has     *)
(* replaced every file, and one that raises without rollback errors has    *)
(* left every file as it was.                                              *)
THEOREM BundlesAllOrNothing == SoleWriter => (Spec => []AllOrNothing)
<1>1. BundleInv => AllOrNothing
  <2> SUFFICES ASSUME BundleInv, NEW w \in Writers, NEW f \in Files
               PROVE  /\ At(w, "saved") => dest[f] = w
                      /\ At(w, "raised") /\ ~errors[w] => dest[f] = Before(w, f)
    BY DEF AllOrNothing
  <2> QED
    BY DEF BundleInv, Good, FileOK, At
<1> QED
  BY <1>1, BundleInvariant, PTL

(* NothingLost: until the bundle is in place, and as long as the rollback  *)
(* meets no error, the old content of every file is in the file or in its  *)
(* backup, also when the process crashes between two system calls.         *)
THEOREM NothingIsLost == SoleWriter => (Spec => []NothingLost)
<1>1. BundleInv => NothingLost
  <2> SUFFICES ASSUME BundleInv, NEW w \in Writers, NEW f \in present[w],
                      pc[w] \notin {"dropping", "saved"}, ~errors[w]
               PROVE  dest[f] = Old \/ backup[w][f] = Old \/ (dest[f] = w /\ At(w, "crashed"))
    BY DEF NothingLost
  <2>1. f \in Files /\ FileOK(w, f) /\ pc[w] \in Places
    BY DEF BundleInv, Good, Shape
  <2> QED
    BY <2>1 DEF FileOK, At, Places, Over, Untouched, MovedAway, Before, CanRestore
<1> QED
  BY <1>1, BundleInvariant, PTL
=============================================================================
