----------------------- MODULE ExperimentFiles_proofs -----------------------
(***************************************************************************)
(* The commands of the experiments, for any number of processes, commands, *)
(* edits and faults, and for whatever the files hold.                      *)
(***************************************************************************)
EXTENDS ExperimentFiles, SequenceTheorems, FiniteSetTheorems, WellFoundedInduction, TLAPS

FieldNames == {"command", "pc", "args", "read", "at", "result"}

ProcShape == DOMAIN proc = Procs /\ \A p \in Procs : DOMAIN proc[p] = FieldNames

Splitting == {"opening", "filling", "checking", "naming", "signing"}
Sweeping  == {"hitting", "moving", "installing"}
(* All has been read.                                                      *)
Later == Splitting \cup Sweeping \cup {"computing", "creating", "done"}

(* Embeddings that could be loaded, by their identifiers.                  *)
IsVectors(v) ==
    DOMAIN v # {} /\ DOMAIN v \subseteq Nat /\ \A id \in DOMAIN v : v[id] \in 0..Unit

Plan(p) == ReadBy(proc[p].command, proc[p].args)

(* What a process has read so far.                                         *)
ReadOK(p) ==
    /\ \E S : proc[p].read \in Seq(S)
    /\ Len(proc[p].read) <= Len(Plan(p))
    /\ proc[p].pc = "reading" => Len(proc[p].read) < Len(Plan(p))
    /\ proc[p].pc \in Later => Len(proc[p].read) = Len(Plan(p))
    /\ proc[p].command = "exclude" =>
          \A i \in 2 .. Len(proc[p].read) : IsVectors(proc[p].read[i])

FilesShape ==
    /\ DOMAIN file = Files
    /\ \A f \in {"training", "evaluation"} : file[f] \in {Absent, Torn} \/ IsVectors(file[f])

CountsOK == disturbed \subseteq Procs /\ commands \in 0..MaxCommands /\ upsets \in 0..MaxUpsets

Shape ==
    /\ ProcShape /\ FilesShape /\ CountsOK
    /\ \A p \in Procs : proc[p].at \in 1..3 /\ ReadOK(p)
-----------------------------------------------------------------------------
(* All that process p may do between two readings.                         *)
Work(p) ==
    \/ Compute(p)
    \/ OpenPartition(p) \/ FillPartition(p) \/ CheckPartition(p) \/ OpenManifest(p) \/ FillManifest(p)
    \/ Lookup(p) \/ HitEntry(p) \/ MoveEntryAway(p) \/ InstallEntry(p) \/ InstallEntryFails(p)
    \/ CreateExclusions(p) \/ Stop(p)

(* A step that keeps to process p, its command and what it has read.       *)
Keeps(p) ==
    /\ ProcShape'
    /\ \A q \in Procs \ {p} : proc'[q] = proc[q]
    /\ proc'[p].command = proc[p].command /\ proc'[p].args = proc[p].args
    /\ proc'[p].read = proc[p].read

LEMMA GoKeeps ==
    ASSUME ProcShape, NEW p \in Procs, NEW pc, NEW result, Go(p, pc, result)
    PROVE  /\ Keeps(p) /\ proc'[p].at = proc[p].at
           /\ proc'[p].pc = pc /\ proc'[p].result = result
BY DEF ProcShape, FieldNames, Go, Keeps

LEMMA StartEffect ==
    ASSUME ProcShape, NEW p \in Procs, Start(p)
    PROVE  /\ ProcShape' /\ \A q \in Procs \ {p} : proc'[q] = proc[q]
           /\ proc'[p].pc = "reading" /\ proc'[p].result = None
           /\ proc'[p].read = <<>> /\ proc'[p].at = 1
           /\ proc'[p].command \in {"split", "calibrate", "similarity", "factorization", "sweep",
                                    "exclude", "audit"}
BY DEF ProcShape, FieldNames, Idle, Start

LEMMA ReadEffect ==
    ASSUME ProcShape, NEW p \in Procs, Read(p)
    PROVE  /\ ProcShape' /\ \A q \in Procs \ {p} : proc'[q] = proc[q]
           /\ proc'[p].command = proc[p].command /\ proc'[p].args = proc[p].args
           /\ proc'[p].at = proc[p].at
           /\ \/ proc'[p].pc = "refused" /\ proc'[p].read = proc[p].read
              \/ LET content == file[Plan(p)[Len(proc[p].read) + 1]] IN
                 /\ content \notin {Absent, Torn} /\ proc'[p].read = Append(proc[p].read, content)
                 /\ proc'[p].pc = IF Len(proc[p].read) + 1 = Len(Plan(p)) THEN "computing" ELSE "reading"
BY DEF ProcShape, FieldNames, Read, Refuse, Go, At, Plan

(* Where the steps lead.                                                   *)
Leads(p, pcs) == proc'[p].pc \in pcs \cup {"refused", "stopped"} /\ proc'[p].at \in 1..3

LEMMA ComputeKeeps ==
    ASSUME ProcShape, NEW p \in Procs, proc[p].at \in 1..3, Compute(p)
    PROVE  Keeps(p) /\ Leads(p, {"opening", "creating", "done"})
BY GoKeeps DEF Compute, Conclude, Refuse, Leads

LEMMA SplittingKeeps ==
    ASSUME ProcShape, NEW p \in Procs, proc[p].at \in 1..3,
           OpenPartition(p) \/ FillPartition(p) \/ CheckPartition(p) \/ OpenManifest(p) \/ FillManifest(p)
    PROVE  /\ Keeps(p) /\ Leads(p, Splitting \cup {"done"})
           /\ proc'[p].pc \in {"refused", "stopped"} \/ proc'[p].result = proc[p].result
<1>1. CASE CheckPartition(p) /\ file[Partition(p)] # proc[p].result[Partition(p)]
  BY <1>1, GoKeeps DEF CheckPartition, Refuse, Leads
<1>2. CASE CheckPartition(p) /\ file[Partition(p)] = proc[p].result[Partition(p)]
  <2>1. CASE proc[p].at < 3
    <3>1. proc' = [proc EXCEPT ![p].at = @ + 1] /\ proc[p].pc = "checking"
      BY <1>2, <2>1 DEF CheckPartition, At
    <3> QED
      BY <2>1, <3>1 DEF Keeps, ProcShape, FieldNames, Leads, Splitting
  <2>2. CASE ~(proc[p].at < 3)
    <3>1. proc' = [proc EXCEPT ![p].pc = "naming"]
      BY <1>2, <2>2 DEF CheckPartition, At
    <3> QED
      BY <3>1 DEF Keeps, ProcShape, FieldNames, Leads, Splitting
  <2> QED
    BY <2>1, <2>2
<1>3. CASE OpenPartition(p)
  BY <1>3 DEF OpenPartition, Keeps, ProcShape, FieldNames, Leads, Splitting
<1>4. CASE FillPartition(p)
  BY <1>4 DEF FillPartition, Keeps, ProcShape, FieldNames, Leads, Splitting
<1>5. CASE OpenManifest(p)
  BY <1>5 DEF OpenManifest, Keeps, ProcShape, FieldNames, Leads, Splitting
<1>6. CASE FillManifest(p)
  BY <1>6 DEF FillManifest, Keeps, ProcShape, FieldNames, Leads, Splitting
<1> QED
  BY <1>1, <1>2, <1>3, <1>4, <1>5, <1>6

LEMMA SweepingKeeps ==
    ASSUME ProcShape, NEW p \in Procs, proc[p].at \in 1..3,
           Lookup(p) \/ HitEntry(p) \/ MoveEntryAway(p) \/ InstallEntry(p) \/ InstallEntryFails(p)
    PROVE  Keeps(p) /\ Leads(p, Sweeping \cup {"done"})
<1>1. CASE Lookup(p)
  BY <1>1, GoKeeps DEF Lookup, Look, Refuse, Leads, Sweeping
<1>2. CASE HitEntry(p)
  BY <1>2, GoKeeps DEF HitEntry, Refuse, Leads
<1>3. CASE MoveEntryAway(p)
  BY <1>3 DEF MoveEntryAway, Keeps, ProcShape, FieldNames, Leads, Sweeping
<1>4. CASE InstallEntry(p)
  BY <1>4, GoKeeps DEF InstallEntry, Leads
<1>5. CASE InstallEntryFails(p)
  BY <1>5, GoKeeps DEF InstallEntryFails, Leads
<1> QED
  BY <1>1, <1>2, <1>3, <1>4, <1>5

LEMMA WorkKeeps ==
    ASSUME ProcShape, NEW p \in Procs, proc[p].at \in 1..3, Work(p)
    PROVE  /\ Keeps(p) /\ proc'[p].at \in 1..3
           /\ proc'[p].pc \in {"refused", "stopped"} \/ (proc[p].pc \in Later /\ proc'[p].pc \in Later)
<1>1. CASE Compute(p)
  BY <1>1, ComputeKeeps DEF Compute, At, Leads, Later, Splitting, Sweeping
<1>2. CASE OpenPartition(p) \/ FillPartition(p) \/ CheckPartition(p) \/ OpenManifest(p) \/ FillManifest(p)
  <2>1. proc[p].pc \in Splitting
    BY <1>2 DEF OpenPartition, FillPartition, CheckPartition, OpenManifest, FillManifest, At, Splitting
  <2> QED
    BY <1>2, <2>1, SplittingKeeps DEF Leads, Later
<1>3. CASE Lookup(p) \/ HitEntry(p) \/ MoveEntryAway(p) \/ InstallEntry(p) \/ InstallEntryFails(p)
  <2>1. proc[p].pc \in Sweeping \cup {"computing"}
    BY <1>3 DEF Lookup, HitEntry, MoveEntryAway, InstallEntry, InstallEntryFails, At, Sweeping
  <2> QED
    BY <1>3, <2>1, SweepingKeeps DEF Leads, Later
<1>4. CASE CreateExclusions(p)
  BY <1>4, GoKeeps DEF CreateExclusions, Refuse, At, Later
<1>5. CASE Stop(p)
  BY <1>5, GoKeeps DEF Stop
<1> QED
  BY <1>1, <1>2, <1>3, <1>4, <1>5 DEF Work
-----------------------------------------------------------------------------
(* Commands write the files that are not the owner's.                      *)
LEMMA NamesAre == Names = {"train", "calibration", "test"}
BY DEF Names, Partitions, ToSet

LEMMA PartitionIn ==
    ASSUME NEW p \in Procs, proc[p].at \in 1..3
    PROVE  Partition(p) \in Names
BY NamesAre DEF Partition, Partitions

LEMMA WriteKeepsOwned ==
    ASSUME NEW p \in Procs, NEW f \in Names \cup {"manifest"}, NEW content, Write(p, f, content)
    PROVE  /\ DOMAIN file' = DOMAIN file /\ \A g \in Edited : file'[g] = file[g]
           /\ disturbed' \subseteq disturbed \cup Procs /\ commands' = commands
<1>1. f \notin Edited
  BY NamesAre, FilesAssumption
<1> QED
  BY <1>1 DEF Write

LEMMA WorkKeepsOwned ==
    ASSUME NEW p \in Procs, proc[p].at \in 1..3, Work(p)
    PROVE  /\ DOMAIN file' = DOMAIN file /\ \A g \in Edited : file'[g] = file[g]
           /\ disturbed' \subseteq disturbed \cup Procs /\ commands' = commands
           /\ upsets' = upsets \/ (upsets < MaxUpsets /\ upsets' = upsets + 1)
<1>1. CASE OpenPartition(p) \/ FillPartition(p) \/ OpenManifest(p) \/ FillManifest(p)
  <2>1. upsets' = upsets /\ \E f \in Names \cup {"manifest"} : \E content : Write(p, f, content)
    BY <1>1, PartitionIn DEF OpenPartition, FillPartition, OpenManifest, FillManifest
  <2> QED
    BY <2>1, WriteKeepsOwned
<1>2. CASE CreateExclusions(p)
  <2>1. "exclusions" \notin Edited
    BY FilesAssumption
  <2>2. /\ UNCHANGED <<commands, upsets, disturbed>>
        /\ file' = file \/ file' = [file EXCEPT !["exclusions"] = proc[p].result.prompts]
    BY <1>2 DEF CreateExclusions
  <2>3. DOMAIN file' = DOMAIN file /\ \A g \in Edited : file'[g] = file[g]
    <3>1. CASE file' = file
      BY <3>1
    <3>2. CASE file' = [file EXCEPT !["exclusions"] = proc[p].result.prompts]
      BY <2>1, <3>2
    <3> QED
      BY <2>2, <3>1, <3>2
  <2> QED
    BY <2>2, <2>3
<1>3. CASE Stop(p)
  <2>1. upsets < MaxUpsets /\ upsets' = upsets + 1
    BY <1>3 DEF Stop
  <2>2. \/ UNCHANGED <<file, commands, disturbed>>
        \/ \E f \in Names \cup {"manifest"} : \E content : Write(p, f, content)
    BY <1>3, PartitionIn DEF Stop
  <2> QED
    BY <2>1, <2>2, WriteKeepsOwned
<1>4. CASE Compute(p) \/ CheckPartition(p) \/ Lookup(p) \/ HitEntry(p) \/ MoveEntryAway(p)
            \/ InstallEntry(p) \/ InstallEntryFails(p)
  BY <1>4 DEF Compute, CheckPartition, Lookup, HitEntry, MoveEntryAway, InstallEntry, InstallEntryFails
<1> QED
  BY <1>1, <1>2, <1>3, <1>4 DEF Work

LEMMA OwnedAre == {"training", "evaluation"} \subseteq Edited /\ Edited \subseteq Files
BY FilesAssumption DEF Files

LEMMA PlanLength ==
    ASSUME NEW command, NEW args
    PROVE  /\ Len(ReadBy(command, args)) \in 0..4
           /\ command \in {"split", "calibrate", "similarity", "factorization", "sweep", "exclude", "audit"}
                 => Len(ReadBy(command, args)) > 0
           /\ command = "exclude" =>
                 ReadBy(command, args) = <<"examples", "training", "evaluation", "evaluation">>
BY DEF ReadBy

LEMMA Appended ==
    ASSUME NEW s, \E S : s \in Seq(S), NEW x
    PROVE  /\ \E S : Append(s, x) \in Seq(S)
           /\ Len(s) \in Nat /\ Len(Append(s, x)) = Len(s) + 1
           /\ \A i \in 1 .. Len(s) : Append(s, x)[i] = s[i]
           /\ Append(s, x)[Len(s) + 1] = x
<1>1. PICK S : s \in Seq(S)
  OBVIOUS
<1>2. s \in Seq(S \cup {x}) /\ x \in S \cup {x}
  BY <1>1
<1> QED
  BY <1>2, AppendProperties

LEMMA ReadOKAfterStart ==
    ASSUME Shape, NEW p \in Procs, Start(p)
    PROVE  ReadOK(p)'
<1>1. /\ proc'[p].pc = "reading" /\ proc'[p].read = <<>>
      /\ proc'[p].command \in {"split", "calibrate", "similarity", "factorization", "sweep",
                               "exclude", "audit"}
  BY StartEffect DEF Shape
<1>2. Len(Plan(p)') > 0 /\ Len(Plan(p)') \in Nat
  BY <1>1, PlanLength DEF Plan
<1>3. \E S : <<>> \in Seq(S)
  OBVIOUS
<1> QED
  BY <1>1, <1>2, <1>3 DEF ReadOK, Later, Splitting, Sweeping

LEMMA ReadOKAfterRead ==
    ASSUME Shape, NEW p \in Procs, Read(p)
    PROVE  ReadOK(p)'
<1> DEFINE content == file[Plan(p)[Len(proc[p].read) + 1]]
<1>1. /\ proc'[p].command = proc[p].command /\ proc'[p].args = proc[p].args
      /\ \/ proc'[p].pc = "refused" /\ proc'[p].read = proc[p].read
         \/ /\ content \notin {Absent, Torn} /\ proc'[p].read = Append(proc[p].read, content)
            /\ proc'[p].pc = IF Len(proc[p].read) + 1 = Len(Plan(p)) THEN "computing" ELSE "reading"
  BY ReadEffect DEF Shape
<1>2. Plan(p)' = Plan(p) /\ ReadOK(p) /\ proc[p].pc = "reading"
  BY <1>1 DEF Plan, Shape, Read, At
<1>3. CASE proc'[p].pc = "refused" /\ proc'[p].read = proc[p].read
  BY <1>1, <1>2, <1>3 DEF ReadOK, Later, Splitting, Sweeping
<1>4. CASE /\ content \notin {Absent, Torn} /\ proc'[p].read = Append(proc[p].read, content)
           /\ proc'[p].pc = IF Len(proc[p].read) + 1 = Len(Plan(p)) THEN "computing" ELSE "reading"
  <2>1. /\ \E S : proc'[p].read \in Seq(S)
        /\ Len(proc[p].read) \in Nat /\ Len(proc'[p].read) = Len(proc[p].read) + 1
        /\ \A i \in 1 .. Len(proc[p].read) : proc'[p].read[i] = proc[p].read[i]
        /\ proc'[p].read[Len(proc[p].read) + 1] = content
    <3>1. \E S : proc[p].read \in Seq(S)
      BY <1>2 DEF ReadOK
    <3> HIDE DEF content
    <3>2. proc'[p].read = Append(proc[p].read, content)
      BY <1>4
    <3>3. /\ \E S : Append(proc[p].read, content) \in Seq(S)
          /\ Len(proc[p].read) \in Nat
          /\ Len(Append(proc[p].read, content)) = Len(proc[p].read) + 1
          /\ \A i \in 1 .. Len(proc[p].read) : Append(proc[p].read, content)[i] = proc[p].read[i]
          /\ Append(proc[p].read, content)[Len(proc[p].read) + 1] = content
      BY <3>1, Appended
    <3> QED
      BY <3>2, <3>3
  <2>2. Len(Plan(p)) \in Nat /\ Len(proc[p].read) < Len(Plan(p))
    BY <1>2, PlanLength DEF ReadOK, Plan
  <2>3. ASSUME proc[p].command = "exclude", NEW i \in 2 .. Len(proc'[p].read)
        PROVE  IsVectors(proc'[p].read[i])
    <3>1. CASE i <= Len(proc[p].read)
      BY <1>2, <2>1, <2>3, <3>1 DEF ReadOK
    <3>2. CASE i = Len(proc[p].read) + 1
      <4>1. Plan(p) = <<"examples", "training", "evaluation", "evaluation">>
        BY <2>3, PlanLength DEF Plan
      <4>2. i \in 2..4
        BY <2>1, <2>2, <3>2, <4>1
      <4>3. content \in {file["training"], file["evaluation"]}
        BY <3>2, <4>1, <4>2
      <4> QED
        BY <1>4, <2>1, <3>2, <4>3 DEF Shape, FilesShape
    <3> QED
      BY <2>1, <2>3, <3>1, <3>2
  <2>4. proc'[p].pc = "reading" => Len(proc'[p].read) < Len(Plan(p))
    BY <1>4, <2>1, <2>2
  <2>5. proc'[p].pc \in Later => Len(proc'[p].read) = Len(Plan(p))
    BY <1>4, <2>1, <2>2 DEF Later, Splitting, Sweeping
  <2> QED
    BY <1>1, <1>2, <2>1, <2>2, <2>3, <2>4, <2>5 DEF ReadOK
<1> QED
  BY <1>1, <1>3, <1>4

LEMMA ReadOKAfterWork ==
    ASSUME Shape, NEW p \in Procs, Work(p)
    PROVE  ReadOK(p)'
<1>1. /\ Keeps(p)
      /\ proc'[p].pc \in {"refused", "stopped"} \/ (proc[p].pc \in Later /\ proc'[p].pc \in Later)
  BY WorkKeeps DEF Shape
<1>2. Plan(p)' = Plan(p) /\ ReadOK(p)
  BY <1>1 DEF Plan, Shape, Keeps
<1> QED
  BY <1>1, <1>2 DEF ReadOK, Keeps, Later, Splitting, Sweeping

(* What another process does, or the owner, changes nothing of p.          *)
LEMMA ReadOKKept ==
    ASSUME NEW p \in Procs, ReadOK(p), proc'[p] = proc[p]
    PROVE  ReadOK(p)'
BY DEF ReadOK, Plan

LEMMA FilesShapeKept ==
    ASSUME FilesShape, DOMAIN file' = DOMAIN file, \A g \in Edited : file'[g] = file[g]
    PROVE  FilesShape'
BY OwnedAre DEF FilesShape

LEMMA ShapeInit == ASSUME Init PROVE Shape
<1>1. PICK study \in Studies \cup {<<>>} :
          /\ file = [f \in Files |-> IF f \in DOMAIN study THEN study[f]
                                    ELSE IF f \in DOMAIN Original THEN Original[f] ELSE Absent]
          /\ disturbed = {} /\ proc = [p \in Procs |-> Idle]
          /\ commands = IF study = <<>> THEN 0 ELSE MaxCommands - 1
          /\ upsets = IF study = <<>> THEN 0 ELSE MaxUpsets
  BY DEF Init
<1>2. ProcShape
  BY <1>1 DEF ProcShape, FieldNames, Idle
<1>3. CountsOK
  BY <1>1, BoundsAssumption DEF CountsOK
<1>4. FilesShape
  <2>1. DOMAIN file = Files
    BY <1>1
  <2>2. ASSUME NEW f \in {"training", "evaluation"}, file[f] \notin {Absent, Torn} PROVE IsVectors(file[f])
    <3>1. f \in Files
      BY OwnedAre
    <3>2. file[f] = IF f \in DOMAIN study THEN study[f]
                    ELSE IF f \in DOMAIN Original THEN Original[f] ELSE Absent
      BY <1>1, <3>1
    <3>3. ASSUME study = <<>> PROVE f \notin DOMAIN study
      BY <3>3
    <3>4. file[f] \in Given(f)
      BY <2>2, <3>2, <3>3 DEF Given
    <3>5. file[f] \in (Given("training") \cup Given("evaluation")) \ {Absent, Torn}
      BY <2>2, <3>4
    <3> QED
      BY <3>5, VectorsAssumption DEF IsVectors
  <2> QED
    BY <2>1, <2>2 DEF FilesShape
<1>5. ASSUME NEW p \in Procs PROVE proc[p].at \in 1..3 /\ ReadOK(p)
  <2>1. proc[p] = Idle
    BY <1>1
  <2>2. proc[p].at = 1 /\ proc[p].read = <<>> /\ proc[p].pc = "idle" /\ proc[p].command = "none"
    BY <2>1 DEF Idle
  <2>3. Len(Plan(p)) \in Nat /\ Len(<<>>) = 0
    BY PlanLength DEF Plan
  <2>4. \E S : <<>> \in Seq(S)
    OBVIOUS
  <2> QED
    BY <2>2, <2>3, <2>4 DEF ReadOK, Later, Splitting, Sweeping
<1> QED
  BY <1>2, <1>3, <1>4, <1>5 DEF Shape

LEMMA ShapeStep == ASSUME Shape, [Next]_vars PROVE Shape'
<1>1. CASE UNCHANGED vars
  BY <1>1, ReadOKKept DEF vars, Shape, ProcShape, FilesShape, CountsOK
<1>2. ASSUME NEW p \in Procs, Start(p) PROVE Shape'
  <2>1. /\ ProcShape' /\ \A q \in Procs \ {p} : proc'[q] = proc[q]
        /\ proc'[p].at = 1
    BY <1>2, StartEffect DEF Shape
  <2>2. FilesShape' /\ CountsOK'
    BY <1>2, BoundsAssumption DEF Start, Shape, FilesShape, CountsOK
  <2>3. ReadOK(p)' /\ \A q \in Procs \ {p} : ReadOK(q)'
    BY <1>2, <2>1, ReadOKAfterStart, ReadOKKept DEF Shape
  <2> QED
    BY <2>1, <2>2, <2>3 DEF Shape
<1>3. ASSUME NEW p \in Procs, Read(p) PROVE Shape'
  <2>1. /\ ProcShape' /\ \A q \in Procs \ {p} : proc'[q] = proc[q]
        /\ proc'[p].at = proc[p].at
    BY <1>3, ReadEffect DEF Shape
  <2>2. FilesShape' /\ CountsOK'
    BY <1>3 DEF Read, Shape, FilesShape, CountsOK
  <2>3. ReadOK(p)' /\ \A q \in Procs \ {p} : ReadOK(q)'
    BY <1>3, <2>1, ReadOKAfterRead, ReadOKKept DEF Shape
  <2> QED
    BY <2>1, <2>2, <2>3 DEF Shape
<1>4. ASSUME NEW p \in Procs, Work(p) PROVE Shape'
  <2>1. Keeps(p) /\ proc'[p].at \in 1..3
    BY <1>4, WorkKeeps DEF Shape
  <2>2. FilesShape' /\ CountsOK'
    <3>1. /\ DOMAIN file' = DOMAIN file /\ \A g \in Edited : file'[g] = file[g]
          /\ disturbed' \subseteq disturbed \cup Procs /\ commands' = commands
          /\ upsets' = upsets \/ (upsets < MaxUpsets /\ upsets' = upsets + 1)
      BY <1>4, WorkKeepsOwned DEF Shape
    <3>2. CountsOK'
      BY <3>1, BoundsAssumption DEF Shape, CountsOK
    <3> QED
      BY <3>1, <3>2, FilesShapeKept DEF Shape
  <2>3. ReadOK(p)' /\ \A q \in Procs \ {p} : ReadOK(q)'
    BY <1>4, <2>1, ReadOKAfterWork, ReadOKKept DEF Shape, Keeps
  <2> QED
    BY <2>1, <2>2, <2>3 DEF Shape, Keeps
<1>5. CASE Spoil \/ Edit
  <2>1. UNCHANGED proc /\ UNCHANGED <<commands, disturbed>>
        /\ upsets < MaxUpsets /\ upsets' = upsets + 1
    BY <1>5 DEF Spoil, Edit
  <2>2. ProcShape' /\ CountsOK' /\ \A p \in Procs : proc'[p].at \in 1..3 /\ ReadOK(p)'
    BY <2>1, ReadOKKept, BoundsAssumption DEF Shape, ProcShape, CountsOK
  <2>3. CASE Spoil
    BY <2>2, <2>3 DEF Spoil, Shape, FilesShape
  <2>4. CASE Edit
    <3>1. PICK f \in Edited : \E content \in Contents[f] : file' = [file EXCEPT ![f] = content]
      BY <2>4 DEF Edit
    <3>2. PICK content \in Contents[f] : file' = [file EXCEPT ![f] = content]
      BY <3>1
    <3>3. f \in {"training", "evaluation"} /\ content \notin {Absent, Torn} => IsVectors(content)
      <4>1. content \in Given(f)
        BY <3>2 DEF Given
      <4> QED
        BY <4>1, VectorsAssumption DEF IsVectors
    <3>4. FilesShape'
      BY <3>2, <3>3, OwnedAre DEF Shape, FilesShape
    <3> QED
      BY <2>2, <3>4 DEF Shape
  <2> QED
    BY <1>5, <2>3, <2>4
<1> QED
  BY <1>1, <1>2, <1>3, <1>4, <1>5 DEF Next, Work

THEOREM ShapeInvariant == Spec => []Shape
<1>1. Init => Shape
  BY ShapeInit
<1>2. Shape /\ [Next]_vars => Shape'
  BY ShapeStep
<1> QED
  BY <1>1, <1>2, PTL DEF Spec

(* ExperimentsTypeOK: no process is past its third partition or has read   *)
(* more than its four files.                                               *)
THEOREM ExperimentsTypeCorrect == Spec => []ExperimentsTypeOK
<1>1. Shape => ExperimentsTypeOK
  <2> SUFFICES ASSUME Shape PROVE ExperimentsTypeOK
    OBVIOUS
  <2>1. ASSUME NEW p \in Procs PROVE Len(proc[p].read) <= 4
    <3>1. ReadOK(p) /\ Len(Plan(p)) \in 0..4
      BY PlanLength DEF Shape, Plan
    <3>2. Len(proc[p].read) \in Nat
      BY <3>1 DEF ReadOK
    <3>3. Len(proc[p].read) <= Len(Plan(p))
      BY <3>1 DEF ReadOK
    <3>4. \A n \in Nat, m \in 0..4 : n <= m => n <= 4
      OBVIOUS
    <3>5. Len(Plan(p)) \in 0..4
      BY <3>1
    <3> QED
      BY <3>2, <3>3, <3>4, <3>5
  <2> QED
    BY <2>1 DEF ExperimentsTypeOK, Shape, FilesShape, CountsOK
<1> QED
  BY <1>1, ShapeInvariant, PTL
-----------------------------------------------------------------------------
(* A command that has gone on holds what it computed, and no error.        *)
Holds(p) == proc[p].result = Computed(p) /\ proc[p].result # Error

Computes(command) == command \in {"split", "calibrate", "similarity", "factorization", "exclude", "audit"}

ResultOK(p) ==
    /\ proc[p].pc \in Splitting \cup {"creating"} => Holds(p)
    /\ proc[p].pc = "done" /\ Computes(proc[p].command) => Holds(p)
    /\ proc[p].pc \in Splitting => proc[p].command = "split"
    /\ proc[p].pc = "creating" => proc[p].command = "exclude"
    /\ proc[p].pc \in Sweeping => proc[p].command = "sweep"

LEMMA HoldsKept ==
    ASSUME NEW p \in Procs, Holds(p), Keeps(p), proc'[p].result = proc[p].result
    PROVE  Holds(p)'
BY DEF Holds, Computed, Keeps

LEMMA ResultInit == ASSUME Init, NEW p \in Procs PROVE ResultOK(p)
<1>1. proc[p].pc = "idle"
  BY DEF Init, Idle
<1> QED
  BY <1>1 DEF ResultOK, Splitting, Sweeping

LEMMA ResultAfterWork == ASSUME Shape, NEW p \in Procs, ResultOK(p), Work(p) PROVE ResultOK(p)'
<1> USE DEF Shape
<1>1. CASE proc'[p].pc \in {"refused", "stopped"}
  BY <1>1 DEF ResultOK, Splitting, Sweeping
<1>2. CASE Compute(p) /\ proc'[p].pc \notin {"refused", "stopped"}
  <2> DEFINE next == CASE proc[p].command = "split" -> "opening"
                       [] proc[p].command = "exclude" -> "creating"
                       [] OTHER -> "done"
  <2>1. Computed(p) # Error /\ Go(p, next, Computed(p)) /\ proc[p].command # "sweep"
    BY <1>2, GoKeeps DEF Compute, Conclude, Refuse
  <2>2. Keeps(p) /\ proc'[p].pc = next /\ proc'[p].result = Computed(p)
    BY <2>1, GoKeeps
  <2>3. Holds(p)'
    BY <2>1, <2>2 DEF Holds, Computed, Keeps
  <2> QED
    BY <2>1, <2>2, <2>3 DEF ResultOK, Keeps, Splitting, Sweeping
<1>3. CASE /\ OpenPartition(p) \/ FillPartition(p) \/ CheckPartition(p) \/ OpenManifest(p) \/ FillManifest(p)
           /\ proc'[p].pc \notin {"refused", "stopped"}
  <2>1. Keeps(p) /\ proc'[p].pc \in Splitting \cup {"done"} /\ proc'[p].result = proc[p].result
    BY <1>3, SplittingKeeps DEF Leads
  <2>2. proc[p].pc \in Splitting
    BY <1>3 DEF OpenPartition, FillPartition, CheckPartition, OpenManifest, FillManifest, At, Splitting
  <2>3. Holds(p)' /\ proc'[p].command = "split"
    BY <2>1, <2>2, HoldsKept DEF ResultOK, Keeps
  <2> QED
    BY <2>1, <2>3 DEF ResultOK, Splitting, Sweeping
<1>4. CASE /\ Lookup(p) \/ HitEntry(p) \/ MoveEntryAway(p) \/ InstallEntry(p) \/ InstallEntryFails(p)
           /\ proc'[p].pc \notin {"refused", "stopped"}
  <2>1. Keeps(p) /\ proc'[p].pc \in Sweeping \cup {"done"}
    BY <1>4, SweepingKeeps DEF Leads
  <2>2. proc[p].command = "sweep"
    BY <1>4 DEF Lookup, HitEntry, MoveEntryAway, InstallEntry, InstallEntryFails, At, Sweeping, ResultOK
  <2> QED
    BY <2>1, <2>2 DEF ResultOK, Keeps, Splitting, Sweeping, Computes
<1>5. CASE CreateExclusions(p) /\ proc'[p].pc \notin {"refused", "stopped"}
  <2>1. Go(p, "done", proc[p].result) /\ proc[p].pc = "creating"
    BY <1>5, GoKeeps DEF CreateExclusions, Refuse, At
  <2>2. Keeps(p) /\ proc'[p].pc = "done" /\ proc'[p].result = proc[p].result
    BY <2>1, GoKeeps
  <2> QED
    BY <2>1, <2>2, HoldsKept DEF ResultOK, Splitting, Sweeping
<1>6. CASE Stop(p)
  BY <1>6, <1>1, GoKeeps DEF Stop
<1> QED
  BY <1>1, <1>2, <1>3, <1>4, <1>5, <1>6 DEF Work

LEMMA ResultStep ==
    ASSUME Shape, NEW p \in Procs, ResultOK(p), [Next]_vars
    PROVE  ResultOK(p)'
<1>1. ASSUME proc'[p] = proc[p] PROVE ResultOK(p)'
  BY <1>1 DEF ResultOK, Holds, Computed
<1>2. CASE UNCHANGED vars \/ Spoil \/ Edit
  BY <1>1, <1>2 DEF vars, Spoil, Edit
<1>3. ASSUME NEW q \in Procs, Start(q) PROVE ResultOK(p)'
  <2>1. CASE q = p
    BY <1>3, <2>1, StartEffect DEF Shape, ResultOK, Splitting, Sweeping
  <2>2. CASE q # p
    BY <1>1, <1>3, <2>2, StartEffect DEF Shape
  <2> QED
    BY <2>1, <2>2
<1>4. ASSUME NEW q \in Procs, Read(q) PROVE ResultOK(p)'
  <2>1. CASE q = p
    <3>1. proc'[p].pc \in {"refused", "computing", "reading"}
      BY <1>4, <2>1, ReadEffect DEF Shape
    <3> QED
      BY <3>1 DEF ResultOK, Splitting, Sweeping
  <2>2. CASE q # p
    BY <1>1, <1>4, <2>2, ReadEffect DEF Shape
  <2> QED
    BY <2>1, <2>2
<1>5. ASSUME NEW q \in Procs, Work(q) PROVE ResultOK(p)'
  BY <1>1, <1>5, ResultAfterWork, WorkKeeps DEF Keeps, Shape
<1> QED
  BY <1>2, <1>3, <1>4, <1>5 DEF Next, Work

ResultsInv == \A p \in Procs : ResultOK(p)

THEOREM ResultsInvariant == Spec => []ResultsInv
<1>1. Init => ResultsInv
  BY ResultInit DEF ResultsInv
<1>2. Shape /\ ResultsInv /\ [Next]_vars => ResultsInv'
  BY ResultStep DEF ResultsInv
<1> QED
  BY <1>1, <1>2, ShapeInvariant, PTL DEF Spec
-----------------------------------------------------------------------------
(* What is loaded is what is in the file.                                  *)
LEMMA LoadedIsRead == ASSUME NEW lines, Loaded(lines) # Error PROVE Loaded(lines) = lines
BY DEF Loaded

LEMMA CalibratedOfRead ==
    ASSUME NEW train, NEW test, NEW by, NEW bounds,
           OfLoaded([train |-> train, test |-> test],
                    LAMBDA d : Calibrated(d.train, d.test, by, bounds)) # Error
    PROVE  Calibrated(train, test, by, bounds) # Error
<1> DEFINE parts == [train |-> train, test |-> test]
<1> DEFINE loaded == [a \in DOMAIN parts |-> Loaded(parts[a])]
<1>1. ~(\E a \in DOMAIN loaded : loaded[a] = Error)
      /\ Calibrated(loaded.train, loaded.test, by, bounds) # Error
  BY DEF OfLoaded
<1>2. loaded.train = train /\ loaded.test = test
  BY <1>1, LoadedIsRead
<1> QED
  BY <1>1, <1>2

LEMMA FittedOfRead ==
    ASSUME NEW train, NEW calibration, NEW test, NEW by, NEW coverage,
           OfLoaded([train |-> train, calibration |-> calibration, test |-> test],
                    LAMBDA d : Fitted(d, by, coverage)) # Error
    PROVE  Fitted([train |-> train, calibration |-> calibration, test |-> test], by, coverage) # Error
<1> DEFINE parts == [train |-> train, calibration |-> calibration, test |-> test]
<1> DEFINE loaded == [a \in DOMAIN parts |-> Loaded(parts[a])]
<1>1. ~(\E a \in DOMAIN loaded : loaded[a] = Error) /\ Fitted(loaded, by, coverage) # Error
  BY DEF OfLoaded
<1>2. loaded = parts
  BY <1>1, LoadedIsRead
<1> QED
  BY <1>1, <1>2

LEMMA FactoredOfRead ==
    ASSUME NEW train, NEW test, NEW by, NEW scores,
           OfLoaded([train |-> train, test |-> test], LAMBDA d : Factored(d, by, scores)) # Error
    PROVE  Factored([train |-> train, test |-> test], by, scores) # Error
<1> DEFINE parts == [train |-> train, test |-> test]
<1> DEFINE loaded == [a \in DOMAIN parts |-> Loaded(parts[a])]
<1>1. ~(\E a \in DOMAIN loaded : loaded[a] = Error) /\ Factored(loaded, by, scores) # Error
  BY DEF OfLoaded
<1>2. loaded = parts
  BY <1>1, LoadedIsRead
<1> QED
  BY <1>1, <1>2

(* No group, and so no record, is in two data sets with no key in common.  *)
Unseen(heldOut, other, by) ==
    \A t \in ToSet(heldOut), u \in ToSet(other) : t # u /\ GroupKey(t, by) # GroupKey(u, by)

LEMMA DisjointUnseen ==
    ASSUME NEW heldOut, NEW other, NEW by, Keys(other, by) \cap Keys(heldOut, by) = {}
    PROVE  Unseen(heldOut, other, by)
<1> SUFFICES ASSUME NEW i \in DOMAIN heldOut, NEW j \in DOMAIN other
             PROVE  GroupKey(heldOut[i], by) # GroupKey(other[j], by)
  BY DEF Unseen, ToSet
<1>1. GroupKey(heldOut[i], by) \in Keys(heldOut, by) /\ GroupKey(other[j], by) \in Keys(other, by)
  BY DEF Keys
<1> QED
  BY <1>1

LEMMA ApartUnseen ==
    ASSUME NEW parts, NEW by, Apart(parts, by), NEW a \in DOMAIN parts, NEW b \in DOMAIN parts, a # b
    PROVE  Unseen(parts[a], parts[b], by)
BY DisjointUnseen DEF Apart

LEMMA CalibratedUnseen ==
    ASSUME NEW train, NEW test, NEW by, NEW bounds, Calibrated(train, test, by, bounds) # Error
    PROVE  Unseen(test, train, by)
<1>1. Keys(train, by) \cap Keys(test, by) = {}
  BY DEF Calibrated
<1> QED
  BY <1>1, DisjointUnseen

(* HeldOutIsUnseen: no report of calibrate, train-similarity or            *)
(* train-factorization is about records or groups it was fitted to, also   *)
(* when the files change between the readings.                             *)
THEOREM HeldOutStaysUnseen == Spec => []HeldOutIsUnseen
<1>1. ASSUME Shape, ResultsInv,
             NEW p \in Done("calibrate") \cup Done("similarity") \cup Done("factorization")
      PROVE  LET heldOut == ToSet(Last(proc[p].read))
                 others == UNION {ToSet(proc[p].read[i]) : i \in 1..(Len(proc[p].read) - 1)}
             IN \A t \in heldOut, u \in others :
                   t # u /\ GroupKey(t, proc[p].args[1]) # GroupKey(u, proc[p].args[1])
  <2> DEFINE read == proc[p].read
             args == proc[p].args
             n == Len(read)
  <2>1. /\ p \in Procs /\ proc[p].pc = "done" /\ n = Len(ReadBy(proc[p].command, args))
        /\ ComputedOf(proc[p].command, read, args) # Error
        /\ proc[p].command \in {"calibrate", "similarity", "factorization"}
    BY <1>1 DEF Done, At, Shape, ReadOK, Later, ResultsInv, ResultOK, Holds, Computes, Computed, Plan
  <2>2. CASE proc[p].command = "calibrate"
    <3>1. n = 2
      BY <2>1, <2>2 DEF ReadBy
    <3>2. Calibrated(read[1], read[2], args[1], args[2]) # Error
      BY <2>1, <2>2, CalibratedOfRead DEF ComputedOf
    <3>3. Unseen(read[2], read[1], args[1])
      BY <3>2, CalibratedUnseen
    <3> QED
      BY <3>1, <3>3 DEF Last, Unseen
  <2>3. CASE proc[p].command = "similarity"
    <3> DEFINE parts == [train |-> read[1], calibration |-> read[2], test |-> read[3]]
    <3>1. n = 3
      BY <2>1, <2>3 DEF ReadBy
    <3>2. Fitted(parts, args[1], args[2]) # Error
      BY <2>1, <2>3, FittedOfRead DEF ComputedOf
    <3>3. Apart(parts, args[1])
      BY <3>2 DEF Fitted
    <3>4. /\ Unseen(parts["test"], parts["train"], args[1])
          /\ Unseen(parts["test"], parts["calibration"], args[1])
      BY <3>3, ApartUnseen
    <3>5. Unseen(read[3], read[1], args[1]) /\ Unseen(read[3], read[2], args[1])
      BY <3>4
    <3> QED
      BY <3>1, <3>5 DEF Last, Unseen
  <2>4. CASE proc[p].command = "factorization"
    <3> DEFINE parts == [train |-> read[1], test |-> read[2]]
    <3>1. n = 2
      BY <2>1, <2>4 DEF ReadBy
    <3>2. Factored(parts, args[1], args[2]) # Error
      BY <2>1, <2>4, FactoredOfRead DEF ComputedOf
    <3>3. Apart(parts, args[1])
      BY <3>2 DEF Factored
    <3>4. Unseen(parts["test"], parts["train"], args[1])
      BY <3>3, ApartUnseen
    <3>5. Unseen(read[2], read[1], args[1])
      BY <3>4
    <3> QED
      BY <3>1, <3>5 DEF Last, Unseen
  <2> QED
    BY <2>1, <2>2, <2>3, <2>4
<1>2. Shape /\ ResultsInv => HeldOutIsUnseen
  BY <1>1 DEF HeldOutIsUnseen
<1> QED
  BY <1>2, ShapeInvariant, ResultsInvariant, PTL
-----------------------------------------------------------------------------
(* The sweep cache: every entry is damaged, or what its key determines.    *)
ReportOf(manifest) == SweptOf(manifest.catalog, manifest.source, manifest.config)

CacheOK == \A key \in DOMAIN cache : cache[key] \in {Torn, ReportOf(key)}

(* What a sweep carries from one step to the next.                         *)
SweepOK(p) ==
    LET result == proc[p].result IN
    /\ proc[p].pc = "hitting" => result = Manifest(p)
    /\ proc[p].pc \in {"moving", "installing"} =>
          /\ DOMAIN result = {"manifest", "report", "backup"}
          /\ result.manifest = Manifest(p) /\ result.report = SweepOf(p)
    /\ proc[p].pc = "installing" => result.backup \in {Absent, Torn, SweepOf(p)}
    /\ proc[p].pc = "done" /\ proc[p].command = "sweep" =>
          result = [manifest |-> Manifest(p), report |-> SweepOf(p)]

CacheInv == CacheOK /\ \A p \in Procs : SweepOK(p)

LEMMA ReportOfManifest == \A p \in Procs : ReportOf(Manifest(p)) = SweepOf(p)
BY DEF ReportOf, Manifest, SweepOf

LEMMA InputsKept ==
    ASSUME NEW p \in Procs, Keeps(p)
    PROVE  Manifest(p)' = Manifest(p) /\ SweepOf(p)' = SweepOf(p)
BY DEF Keeps, Manifest, SweepOf

LEMMA SweepOKKept == ASSUME NEW p \in Procs, SweepOK(p), proc'[p] = proc[p] PROVE SweepOK(p)'
BY DEF SweepOK, Manifest, SweepOf

(* Away from the cache.                                                    *)
LEMMA SweepOKElsewhere ==
    ASSUME NEW p \in Procs, proc'[p].pc \notin Sweeping,
           proc'[p].pc = "done" => proc'[p].command # "sweep"
    PROVE  SweepOK(p)'
BY DEF SweepOK, Sweeping

LEMMA LookupOK == ASSUME Shape, CacheInv, NEW p \in Procs, Lookup(p) PROVE CacheOK' /\ SweepOK(p)'
<1>1. UNCHANGED cache /\ Look(p, Manifest(p), SweepOf(p))
  BY DEF Lookup
<1>2. ASSUME Refuse(p) PROVE SweepOK(p)'
  BY <1>2, GoKeeps, SweepOKElsewhere DEF Refuse, Shape, Sweeping
<1>3. ASSUME Go(p, "hitting", Manifest(p)) PROVE SweepOK(p)'
  <2>1. Keeps(p) /\ proc'[p].pc = "hitting" /\ proc'[p].result = Manifest(p)
    BY <1>3, GoKeeps DEF Shape
  <2> QED
    BY <2>1, InputsKept DEF SweepOK
<1>4. ASSUME Go(p, "moving", [manifest |-> Manifest(p), report |-> SweepOf(p), backup |-> Absent])
      PROVE  SweepOK(p)'
  <2>1. /\ Keeps(p) /\ proc'[p].pc = "moving"
        /\ proc'[p].result = [manifest |-> Manifest(p), report |-> SweepOf(p), backup |-> Absent]
    BY <1>4, GoKeeps DEF Shape
  <2> QED
    BY <2>1, InputsKept DEF SweepOK
<1>5. CacheOK'
  BY <1>1 DEF CacheInv, CacheOK
<1> QED
  BY <1>1, <1>2, <1>3, <1>4, <1>5 DEF Look

LEMMA HitEntryOK == ASSUME Shape, CacheInv, NEW p \in Procs, HitEntry(p) PROVE CacheOK' /\ SweepOK(p)'
<1> DEFINE key == proc[p].result
<1>1. UNCHANGED cache /\ key = Manifest(p)
  BY DEF HitEntry, At, CacheInv, SweepOK
<1>2. ASSUME Refuse(p) PROVE SweepOK(p)'
  BY <1>2, GoKeeps, SweepOKElsewhere DEF Refuse, Shape, Sweeping
<1>3. ASSUME /\ key \in DOMAIN cache /\ cache[key] # Torn
             /\ Go(p, "done", [manifest |-> key, report |-> cache[key]]) PROVE SweepOK(p)'
  <2>1. cache[key] = SweepOf(p)
    BY <1>1, <1>3, ReportOfManifest DEF CacheInv, CacheOK
  <2>2. /\ Keeps(p) /\ proc'[p].pc = "done"
        /\ proc'[p].result = [manifest |-> Manifest(p), report |-> SweepOf(p)]
    BY <1>1, <1>3, <2>1, GoKeeps DEF Shape
  <2> QED
    BY <2>2, InputsKept DEF SweepOK
<1>4. CacheOK'
  BY <1>1 DEF CacheInv, CacheOK
<1> QED
  BY <1>2, <1>3, <1>4 DEF HitEntry

LEMMA MoveEntryAwayOK ==
    ASSUME Shape, CacheInv, NEW p \in Procs, MoveEntryAway(p)
    PROVE  CacheOK' /\ SweepOK(p)'
<1> DEFINE key == proc[p].result.manifest
           backup == IF key \in DOMAIN cache THEN cache[key] ELSE Absent
<1>1. /\ DOMAIN proc[p].result = {"manifest", "report", "backup"}
      /\ key = Manifest(p) /\ proc[p].result.report = SweepOf(p)
      /\ cache' = Without(key)
      /\ proc' = [proc EXCEPT ![p].pc = "installing", ![p].result.backup = backup]
  BY DEF MoveEntryAway, At, CacheInv, SweepOK
<1>2. backup \in {Absent, Torn, SweepOf(p)}
  BY <1>1, ReportOfManifest DEF CacheInv, CacheOK
<1>3. CacheOK'
  BY <1>1 DEF CacheInv, CacheOK, Without
<1>4. Keeps(p)
  BY SweepingKeeps DEF Shape
<1> HIDE DEF backup
<1>5. /\ proc'[p].pc = "installing" /\ DOMAIN proc'[p].result = {"manifest", "report", "backup"}
      /\ proc'[p].result.manifest = proc[p].result.manifest
      /\ proc'[p].result.report = proc[p].result.report
      /\ proc'[p].result.backup = backup
  BY <1>1 DEF Shape, ProcShape, FieldNames
<1> QED
  BY <1>1, <1>2, <1>3, <1>4, <1>5, InputsKept DEF SweepOK

LEMMA WithOK ==
    ASSUME CacheOK, NEW key, NEW entry \in {Torn, ReportOf(key)}, cache' = With(key, entry)
    PROVE  CacheOK'
BY DEF CacheOK, With

LEMMA InstallEntryOK ==
    ASSUME Shape, CacheInv, NEW p \in Procs, InstallEntry(p)
    PROVE  CacheOK' /\ SweepOK(p)'
<1>1. proc[p].result.manifest = Manifest(p) /\ proc[p].result.report = SweepOf(p)
  BY DEF InstallEntry, At, CacheInv, SweepOK
<1>2. CacheOK'
  BY <1>1, WithOK, ReportOfManifest DEF InstallEntry, CacheInv
<1>3. /\ Keeps(p) /\ proc'[p].pc = "done"
      /\ proc'[p].result = [manifest |-> Manifest(p), report |-> SweepOf(p)]
  BY <1>1, GoKeeps DEF InstallEntry, Shape
<1> QED
  BY <1>2, <1>3, InputsKept DEF SweepOK

LEMMA InstallEntryFailsOK ==
    ASSUME Shape, CacheInv, NEW p \in Procs, InstallEntryFails(p)
    PROVE  CacheOK' /\ SweepOK(p)'
<1> DEFINE new == proc[p].result
<1>1. new.manifest = Manifest(p) /\ new.backup \in {Absent, Torn, SweepOf(p)}
  BY DEF InstallEntryFails, At, CacheInv, SweepOK
<1>2. cache' = IF new.backup = Absent THEN cache ELSE With(new.manifest, new.backup)
  BY DEF InstallEntryFails
<1>3. ASSUME new.backup = Absent PROVE CacheOK'
  BY <1>2, <1>3 DEF CacheInv, CacheOK
<1>4. ASSUME new.backup # Absent PROVE CacheOK'
  BY <1>1, <1>2, <1>4, WithOK, ReportOfManifest DEF CacheInv
<1>5. SweepOK(p)'
  BY GoKeeps, SweepOKElsewhere DEF InstallEntryFails, Shape, Sweeping
<1> QED
  BY <1>3, <1>4, <1>5

LEMMA OtherWorkOK ==
    ASSUME Shape, ResultsInv, CacheInv, NEW p \in Procs,
           \/ Compute(p) \/ CreateExclusions(p) \/ Stop(p)
           \/ OpenPartition(p) \/ FillPartition(p) \/ CheckPartition(p)
           \/ OpenManifest(p) \/ FillManifest(p)
    PROVE  CacheOK' /\ SweepOK(p)'
<1>1. UNCHANGED cache
  BY DEF Compute, CreateExclusions, Stop, OpenPartition, FillPartition, CheckPartition, OpenManifest,
         FillManifest, Write
<1>2. ASSUME Compute(p) PROVE SweepOK(p)'
  BY <1>2, ComputeKeeps, SweepOKElsewhere DEF Compute, Leads, Keeps, Shape, Sweeping
<1>3. ASSUME OpenPartition(p) \/ FillPartition(p) \/ CheckPartition(p) \/ OpenManifest(p) \/ FillManifest(p)
      PROVE  SweepOK(p)'
  <2>1. proc[p].command = "split"
    BY <1>3 DEF OpenPartition, FillPartition, CheckPartition, OpenManifest, FillManifest, At, Splitting,
                ResultsInv, ResultOK
  <2> QED
    BY <1>3, <2>1, SplittingKeeps, SweepOKElsewhere DEF Leads, Keeps, Shape, Splitting, Sweeping
<1>4. ASSUME CreateExclusions(p) PROVE SweepOK(p)'
  <2>1. proc[p].command = "exclude"
    BY <1>4 DEF CreateExclusions, At, ResultsInv, ResultOK
  <2>2. Keeps(p) /\ proc'[p].pc \in {"done", "refused"}
    BY <1>4, GoKeeps DEF CreateExclusions, Refuse, Shape
  <2> QED
    BY <1>4, <2>1, <2>2, SweepOKElsewhere DEF Keeps, Sweeping
<1>5. ASSUME Stop(p) PROVE SweepOK(p)'
  BY <1>5, GoKeeps, SweepOKElsewhere DEF Stop, Shape, Sweeping
<1>6. CacheOK'
  BY <1>1 DEF CacheInv, CacheOK
<1> QED
  BY <1>2, <1>3, <1>4, <1>5, <1>6

LEMMA CacheStep == ASSUME Shape, ResultsInv, CacheInv, [Next]_vars PROVE CacheInv'
<1>1. ASSUME CacheOK', UNCHANGED proc PROVE CacheInv'
  BY <1>1, SweepOKKept DEF CacheInv
<1>2. ASSUME NEW p \in Procs, \A q \in Procs \ {p} : proc'[q] = proc[q], CacheOK', SweepOK(p)'
      PROVE  CacheInv'
  BY <1>2, SweepOKKept DEF CacheInv
<1>3. CASE UNCHANGED vars \/ Edit
  BY <1>1, <1>3 DEF vars, Edit, CacheInv, CacheOK
<1>4. CASE Spoil
  <2>1. PICK key \in DOMAIN cache : cache' = [cache EXCEPT ![key] = Torn]
    BY <1>4 DEF Spoil
  <2>2. CacheOK'
    BY <2>1 DEF CacheInv, CacheOK
  <2> QED
    BY <1>1, <1>4, <2>2 DEF Spoil
<1>5. ASSUME NEW p \in Procs, Start(p) \/ Read(p) PROVE CacheInv'
  <2>1. /\ \A q \in Procs \ {p} : proc'[q] = proc[q]
        /\ proc'[p].pc \in {"reading", "computing", "refused"}
    BY <1>5, StartEffect, ReadEffect DEF Shape
  <2>2. UNCHANGED cache
    BY <1>5 DEF Start, Read
  <2>3. CacheOK' /\ SweepOK(p)'
    BY <2>1, <2>2, SweepOKElsewhere DEF CacheInv, CacheOK, Sweeping
  <2> QED
    BY <1>2, <2>1, <2>3
<1>6. ASSUME NEW p \in Procs, Work(p) PROVE CacheInv'
  <2>1. \A q \in Procs \ {p} : proc'[q] = proc[q]
    BY <1>6, WorkKeeps DEF Keeps, Shape
  <2>2. CacheOK' /\ SweepOK(p)'
    BY <1>6, LookupOK, HitEntryOK, MoveEntryAwayOK, InstallEntryOK, InstallEntryFailsOK, OtherWorkOK
       DEF Work
  <2> QED
    BY <1>2, <2>1, <2>2
<1> QED
  BY <1>3, <1>4, <1>5, <1>6 DEF Next, Work

THEOREM CacheInvariant == Spec => []CacheInv
<1>1. Init => CacheInv
  <2> SUFFICES ASSUME Init PROVE CacheInv
    OBVIOUS
  <2>1. CacheOK
    BY DEF Init, CacheOK
  <2>2. ASSUME NEW p \in Procs PROVE proc[p].pc = "idle"
    BY <2>2 DEF Init, Idle
  <2> QED
    BY <2>1, <2>2 DEF CacheInv, SweepOK
<1>2. Shape /\ ResultsInv /\ CacheInv /\ [Next]_vars => CacheInv'
  BY CacheStep
<1> QED
  BY <1>1, <1>2, ShapeInvariant, ResultsInvariant, PTL DEF Spec

(* ReportsAreOfTheirInputs: from the cache or not, while other commands    *)
(* replace its entries and something damages them, cached_threshold_sweep  *)
(* reports what a fresh computation of the records it read would.          *)
THEOREM ReportsOfTheirInputs == Spec => []ReportsAreOfTheirInputs
<1>1. CacheInv => ReportsAreOfTheirInputs
  BY DEF CacheInv, SweepOK, ReportsAreOfTheirInputs, Done, At
<1> QED
  BY <1>1, CacheInvariant, PTL
-----------------------------------------------------------------------------
(* The partitions and their manifest.                                      *)

(* The partitions that p has written, and that nobody has written since.   *)
Kept(p) ==
    /\ proc[p].pc \in {"opening", "filling"} =>
          \A i \in 1 .. (proc[p].at - 1) : file[Partitions[i]] = proc[p].result[Partitions[i]]
    /\ proc[p].pc \in {"checking", "naming", "signing"} =>
          \A i \in 1..3 : file[Partitions[i]] = proc[p].result[Partitions[i]]

IsManifest(manifest) ==
    /\ Loaded(manifest.source) # Error
    /\ manifest.parts = Split(manifest.source, manifest.config)

ManifestInv ==
    /\ file["manifest"] \in {Absent, Torn} \/ IsManifest(file["manifest"])
    /\ current => \A name \in Names : file[name] = file["manifest"].parts[name]
    /\ \A p \in Procs : p \notin disturbed => Kept(p)
    /\ \A p \in Procs : proc[p].pc \in {"reading", "computing"} => proc[p].at = 1

LEMMA SplitOfSource ==
    ASSUME NEW first, NEW second, NEW config, SplitTwice(first, second, config) # Error
    PROVE  /\ Loaded(second) # Error
           /\ SplitTwice(first, second, config) = Split(second, config)
<1> DEFINE parts == <<first, second>>
           loaded == [a \in DOMAIN parts |-> Loaded(parts[a])]
           splits == [i \in 1..2 |-> Split(loaded[i], config)]
<1>1. /\ ~(\E a \in DOMAIN loaded : loaded[a] = Error)
      /\ SplitTwice(first, second, config) = IF splits[1] = splits[2] THEN splits[1] ELSE Error
  BY DEF SplitTwice, OfLoaded
<1>2. DOMAIN loaded = 1..2 /\ loaded[2] = Loaded(second)
  OBVIOUS
<1>3. Loaded(second) # Error /\ Loaded(second) = second
  BY <1>1, <1>2, LoadedIsRead
<1>4. splits[2] = Split(second, config)
  BY <1>2, <1>3
<1> QED
  BY <1>1, <1>3, <1>4

LEMMA KeptSame ==
    ASSUME NEW q \in Procs, proc[q].at \in 1..3, Kept(q), proc'[q] = proc[q],
           \A name \in Names : file'[name] = file[name]
    PROVE  Kept(q)'
<1>1. \A i \in 1..3 : Partitions[i] \in Names
  BY NamesAre DEF Partitions
<1>2. CASE proc[q].pc \in {"opening", "filling"}
  <2>1. \A i \in 1 .. (proc[q].at - 1) : i \in 1..3
    OBVIOUS
  <2>2. \A i \in 1 .. (proc[q].at - 1) : file'[Partitions[i]] = proc[q].result[Partitions[i]]
    BY <1>1, <1>2, <2>1 DEF Kept
  <2> QED
    BY <1>2, <2>2 DEF Kept
<1>3. CASE proc[q].pc \notin {"opening", "filling"}
  BY <1>1, <1>3 DEF Kept
<1> QED
  BY <1>2, <1>3

(* A step of p that writes neither a partition nor the manifest.           *)
LEMMA ManifestElsewhere ==
    ASSUME Shape, ManifestInv, NEW p \in Procs, \A q \in Procs \ {p} : proc'[q] = proc[q],
           \A f \in Names \cup {"manifest"} : file'[f] = file[f],
           UNCHANGED current, disturbed' \cup {p} = disturbed \cup {p},
           p \notin disturbed' => Kept(p)',
           proc'[p].pc \in {"reading", "computing"} => proc'[p].at = 1
    PROVE  ManifestInv'
<1>1. ASSUME NEW q \in Procs, q # p, q \notin disturbed' PROVE Kept(q)'
  BY <1>1, KeptSame DEF ManifestInv, Shape
<1> QED
  BY <1>1 DEF ManifestInv, IsManifest

LEMMA NamesAreFiles == Names \cup {"manifest", "exclusions"} \subseteq Files
BY DEF Files, Written

(* A write disturbs every other split that has written something.          *)
LEMMA OthersDisturbed ==
    ASSUME Shape, NEW p \in Procs, NEW f, NEW content, Write(p, f, content),
           NEW q \in Procs \ {p}, proc'[q] = proc[q], q \notin disturbed'
    PROVE  Kept(q)'
<1>1. ~Writing(q) /\ proc[q].at \in 1..3
  BY DEF Write, Shape
<1>2. proc[q].pc \notin {"filling", "checking", "naming", "signing"}
      /\ (proc[q].pc = "opening" => proc[q].at = 1)
  BY <1>1 DEF Writing, At
<1> QED
  BY <1>2 DEF Kept

(* A step of p that writes a partition.                                    *)
LEMMA PartitionWritten ==
    ASSUME Shape, ManifestInv, NEW p \in Procs, NEW f \in Names, NEW content, Write(p, f, content),
           \A q \in Procs \ {p} : proc'[q] = proc[q],
           p \notin disturbed' => Kept(p)',
           proc'[p].pc \notin {"reading", "computing"}
    PROVE  ManifestInv'
<1>1. ~current' /\ file'["manifest"] = file["manifest"]
  <2>1. f # "manifest"
    BY NamesAre
  <2>2. ~current'
    BY <2>1 DEF Write
  <2>3. file' = [file EXCEPT ![f] = content] /\ "manifest" \in DOMAIN file
    BY NamesAreFiles DEF Write, Shape, FilesShape
  <2> QED
    BY <2>1, <2>2, <2>3
<1>2. \A q \in Procs : q \notin disturbed' => Kept(q)'
  BY OthersDisturbed
<1> QED
  BY <1>1, <1>2 DEF ManifestInv, IsManifest

LEMMA OpenPartitionOK ==
    ASSUME Shape, ManifestInv, NEW p \in Procs, OpenPartition(p) PROVE ManifestInv'
<1>1. /\ Write(p, Partition(p), <<>>) /\ Partition(p) \in Names /\ proc[p].pc = "opening"
      /\ proc[p].at \in 1..3
  BY PartitionIn DEF OpenPartition, Shape, At
<1>2. /\ \A q \in Procs \ {p} : proc'[q] = proc[q]
      /\ proc'[p].pc = "filling" /\ proc'[p].at = proc[p].at /\ proc'[p].result = proc[p].result
  BY DEF OpenPartition, Shape, ProcShape, FieldNames
<1>3. ASSUME p \notin disturbed' PROVE Kept(p)'
  <2>1. p \notin disturbed
    BY <1>1, <1>3 DEF Write
  <2>2. ASSUME NEW i \in 1 .. (proc[p].at - 1)
        PROVE  file'[Partitions[i]] = proc[p].result[Partitions[i]]
    <3>1. i \in 1..3 /\ i # proc[p].at
      BY <1>1
    <3>2. Partitions[i] # Partition(p)
      BY <1>1, <3>1 DEF Partition, Partitions
    <3>3. file[Partitions[i]] = proc[p].result[Partitions[i]] /\ Partitions[i] \in Files
      BY <1>1, <2>1, <2>2, <3>1, NamesAre, NamesAreFiles DEF ManifestInv, Kept, Partitions
    <3> QED
      BY <1>1, <3>2, <3>3 DEF Write, Shape, FilesShape
  <2> QED
    BY <1>2, <2>2 DEF Kept
<1> QED
  BY <1>1, <1>2, <1>3, PartitionWritten

LEMMA FillPartitionOK ==
    ASSUME Shape, ManifestInv, NEW p \in Procs, FillPartition(p) PROVE ManifestInv'
<1> DEFINE content == proc[p].result[Partition(p)]
<1>1. /\ Write(p, Partition(p), content) /\ Partition(p) \in Names /\ proc[p].pc = "filling"
      /\ proc[p].at \in 1..3
  BY PartitionIn DEF FillPartition, Shape, At
<1>2. /\ \A q \in Procs \ {p} : proc'[q] = proc[q]
      /\ proc'[p].result = proc[p].result
      /\ IF proc[p].at < 3 THEN proc'[p].pc = "opening" /\ proc'[p].at = proc[p].at + 1
                           ELSE proc'[p].pc = "checking" /\ proc'[p].at = 1
  BY DEF FillPartition, Shape, ProcShape, FieldNames
<1>3. ASSUME p \notin disturbed' PROVE Kept(p)'
  <2>1. p \notin disturbed
    BY <1>1, <1>3 DEF Write
  <2>2. ASSUME NEW i \in 1 .. proc[p].at
        PROVE  file'[Partitions[i]] = proc[p].result[Partitions[i]]
    <3>1. i \in 1..3 /\ Partitions[i] \in Files
      BY <1>1, NamesAre, NamesAreFiles DEF Partitions
    <3>2. CASE i = proc[p].at
      BY <1>1, <3>1, <3>2 DEF Write, Shape, FilesShape, Partition
    <3>3. CASE i # proc[p].at
      <4>1. Partitions[i] # Partition(p)
        BY <1>1, <3>1, <3>3 DEF Partition, Partitions
      <4>2. file[Partitions[i]] = proc[p].result[Partitions[i]]
        BY <1>1, <2>1, <3>1, <3>3 DEF ManifestInv, Kept
      <4> QED
        BY <1>1, <3>1, <4>1, <4>2 DEF Write, Shape, FilesShape
    <3> QED
      BY <3>2, <3>3
  <2> QED
    BY <1>1, <1>2, <2>2 DEF Kept
<1> QED
  BY <1>1, <1>2, <1>3, PartitionWritten

LEMMA CheckPartitionOK ==
    ASSUME Shape, ManifestInv, NEW p \in Procs, CheckPartition(p) PROVE ManifestInv'
<1>1. /\ UNCHANGED <<file, current, disturbed>> /\ Keeps(p) /\ proc[p].pc = "checking"
      /\ proc'[p].pc \in {"checking", "naming", "refused"}
      /\ proc'[p].pc # "refused" => proc'[p].result = proc[p].result
  <2>1. UNCHANGED <<file, current, disturbed>> /\ proc[p].pc = "checking"
    BY DEF CheckPartition, At
  <2>2. /\ Keeps(p) /\ Leads(p, Splitting \cup {"done"})
        /\ proc'[p].pc \in {"refused", "stopped"} \/ proc'[p].result = proc[p].result
    BY SplittingKeeps DEF Shape
  <2>3. proc'[p].pc \in {"checking", "naming", "refused"}
    <3>1. CASE Refuse(p)
      BY <3>1, GoKeeps DEF Refuse, Shape
    <3>2. CASE proc' = [proc EXCEPT ![p].at = @ + 1]
      BY <2>1, <3>2 DEF Shape, ProcShape, FieldNames
    <3>3. CASE proc' = [proc EXCEPT ![p].pc = "naming"]
      BY <3>3 DEF Shape, ProcShape, FieldNames
    <3> QED
      BY <3>1, <3>2, <3>3 DEF CheckPartition
  <2> QED
    BY <2>1, <2>2, <2>3
<1>2. p \notin disturbed' => Kept(p)'
  BY <1>1 DEF ManifestInv, Kept
<1> QED
  BY <1>1, <1>2, ManifestElsewhere DEF Keeps

(* A step of p that writes the manifest.                                   *)
LEMMA OpenManifestOK ==
    ASSUME Shape, ManifestInv, NEW p \in Procs, OpenManifest(p) PROVE ManifestInv'
<1>1. /\ Write(p, "manifest", Torn) /\ proc[p].pc = "naming"
      /\ \A q \in Procs \ {p} : proc'[q] = proc[q]
      /\ proc'[p].pc = "signing" /\ proc'[p].result = proc[p].result
  BY DEF OpenManifest, At, Shape, ProcShape, FieldNames
<1>2. ~current' /\ file'["manifest"] = Torn /\ \A name \in Names : file'[name] = file[name]
  <2>1. ~current' /\ file' = [file EXCEPT !["manifest"] = Torn]
    BY <1>1 DEF Write
  <2> QED
    BY <2>1, NamesAre, NamesAreFiles DEF Shape, FilesShape
<1>3. p \notin disturbed' => Kept(p)'
  <2>1. \A i \in 1..3 : Partitions[i] \in Names
    BY NamesAre DEF Partitions
  <2>2. p \notin disturbed' => p \notin disturbed
    BY <1>1 DEF Write
  <2> QED
    BY <1>1, <1>2, <2>1, <2>2 DEF ManifestInv, Kept
<1>4. \A q \in Procs : q \notin disturbed' => Kept(q)'
  BY <1>1, <1>3, OthersDisturbed
<1> QED
  BY <1>1, <1>2, <1>4 DEF ManifestInv

LEMMA FillManifestOK ==
    ASSUME Shape, ResultsInv, ManifestInv, NEW p \in Procs, FillManifest(p) PROVE ManifestInv'
<1> DEFINE manifest == [source |-> proc[p].read[2], config |-> proc[p].args, parts |-> proc[p].result]
<1>1. /\ Write(p, "manifest", manifest) /\ proc[p].pc = "signing"
      /\ \A q \in Procs \ {p} : proc'[q] = proc[q]
      /\ proc'[p].pc = "done"
  BY DEF FillManifest, At, Shape, ProcShape, FieldNames
<1>2. /\ Loaded(manifest.source) # Error
      /\ manifest.parts = Split(manifest.source, manifest.config)
  <2>1. Holds(p) /\ proc[p].command = "split"
    BY <1>1 DEF ResultsInv, ResultOK, Splitting
  <2>2. /\ proc[p].result = SplitTwice(proc[p].read[1], proc[p].read[2], proc[p].args)
        /\ proc[p].result # Error
    BY <2>1 DEF Holds, Computed, ComputedOf
  <2> QED
    BY <2>2, SplitOfSource
<1> HIDE DEF manifest
<1>3. file'["manifest"] = manifest /\ \A name \in Names : file'[name] = file[name]
  <2>1. file' = [file EXCEPT !["manifest"] = manifest]
    BY <1>1 DEF Write
  <2> QED
    BY <2>1, NamesAre, NamesAreFiles DEF Shape, FilesShape
<1>4. ASSUME current', NEW name \in Names PROVE file'[name] = file'["manifest"].parts[name]
  <2>1. p \notin disturbed
    BY <1>1, <1>4 DEF Write
  <2>2. \A i \in 1..3 : file[Partitions[i]] = proc[p].result[Partitions[i]]
    BY <1>1, <2>1 DEF ManifestInv, Kept
  <2>3. \E i \in 1..3 : name = Partitions[i]
    BY <1>4, NamesAre DEF Partitions
  <2>4. manifest.parts = proc[p].result
    BY DEF manifest
  <2> QED
    BY <1>3, <1>4, <2>2, <2>3, <2>4
<1>5. \A q \in Procs : q \notin disturbed' => Kept(q)'
  <2>1. Kept(p)'
    BY <1>1 DEF Kept
  <2> QED
    BY <1>1, <2>1, OthersDisturbed
<1> QED
  BY <1>1, <1>2, <1>3, <1>4, <1>5 DEF ManifestInv, IsManifest

LEMMA ComputeOK == ASSUME Shape, ManifestInv, NEW p \in Procs, Compute(p) PROVE ManifestInv'
<1>1. UNCHANGED <<file, current, disturbed>> /\ proc[p].at = 1
  BY DEF Compute, At, ManifestInv
<1>2. Keeps(p) /\ proc'[p].pc \in {"opening", "creating", "done", "refused", "stopped"}
  BY ComputeKeeps DEF Shape, Leads
<1>3. proc'[p].at = proc[p].at
  BY GoKeeps DEF Compute, Conclude, Refuse, Shape
<1>4. Kept(p)'
  BY <1>1, <1>2, <1>3 DEF Kept
<1> QED
  BY <1>1, <1>2, <1>4, ManifestElsewhere DEF Keeps

LEMMA SweepingOK ==
    ASSUME Shape, ManifestInv, NEW p \in Procs,
           Lookup(p) \/ HitEntry(p) \/ MoveEntryAway(p) \/ InstallEntry(p) \/ InstallEntryFails(p)
    PROVE  ManifestInv'
<1>1. UNCHANGED <<file, current, disturbed>>
  BY DEF Lookup, HitEntry, MoveEntryAway, InstallEntry, InstallEntryFails
<1>2. Keeps(p) /\ proc'[p].pc \in Sweeping \cup {"done", "refused", "stopped"}
  BY SweepingKeeps DEF Shape, Leads
<1>3. Kept(p)'
  BY <1>2 DEF Kept, Sweeping
<1> QED
  BY <1>1, <1>2, <1>3, ManifestElsewhere DEF Keeps, Sweeping

LEMMA CreateExclusionsOK ==
    ASSUME Shape, ManifestInv, NEW p \in Procs, CreateExclusions(p) PROVE ManifestInv'
<1>1. UNCHANGED <<current, disturbed>> /\ \A f \in Names \cup {"manifest"} : file'[f] = file[f]
  <2>1. CASE file["exclusions"] = Absent
    BY <2>1, NamesAre, NamesAreFiles DEF CreateExclusions, Shape, FilesShape
  <2>2. CASE file["exclusions"] # Absent
    BY <2>2 DEF CreateExclusions
  <2> QED
    BY <2>1, <2>2
<1>2. Keeps(p) /\ proc'[p].pc \in {"done", "refused"}
  BY GoKeeps DEF CreateExclusions, Refuse, Shape
<1>3. Kept(p)'
  BY <1>2 DEF Kept
<1> QED
  BY <1>1, <1>2, <1>3, ManifestElsewhere DEF Keeps

LEMMA StopOK == ASSUME Shape, ManifestInv, NEW p \in Procs, Stop(p) PROVE ManifestInv'
<1>1. Keeps(p) /\ proc'[p].pc = "stopped"
  BY GoKeeps DEF Stop, Shape
<1>2. Kept(p)'
  BY <1>1 DEF Kept
<1>3. CASE UNCHANGED <<file, current, disturbed>>
  BY <1>1, <1>2, <1>3, ManifestElsewhere DEF Keeps
<1>4. CASE \E piece : Write(p, Partition(p), piece)
  BY <1>1, <1>2, <1>4, PartitionIn, PartitionWritten DEF Keeps, Shape
<1> QED
  BY <1>3, <1>4 DEF Stop

LEMMA ManifestStep == ASSUME Shape, ResultsInv, ManifestInv, [Next]_vars PROVE ManifestInv'
<1>1. CASE UNCHANGED <<file, proc, current, disturbed>>
  BY <1>1 DEF ManifestInv, IsManifest, Kept
<1>2. CASE Edit
  <2>1. UNCHANGED <<proc, current, disturbed>>
        /\ \A f \in Names \cup {"manifest"} : file'[f] = file[f]
    <3>1. PICK f \in Edited : \E content \in Contents[f] : file' = [file EXCEPT ![f] = content]
      BY <1>2 DEF Edit
    <3>2. f \notin Names \cup {"manifest"}
      BY <3>1, FilesAssumption, NamesAre
    <3> QED
      BY <1>2, <3>1, <3>2, NamesAreFiles DEF Edit, Shape, FilesShape
  <2>2. ASSUME NEW p \in Procs, p \notin disturbed' PROVE Kept(p)'
    BY <2>1, <2>2, KeptSame DEF ManifestInv, Shape
  <2> QED
    BY <2>1, <2>2 DEF ManifestInv, IsManifest
<1>3. ASSUME NEW p \in Procs, Start(p) PROVE ManifestInv'
  <2>1. /\ \A q \in Procs \ {p} : proc'[q] = proc[q]
        /\ proc'[p].pc = "reading" /\ proc'[p].at = 1
    BY <1>3, StartEffect DEF Shape
  <2>2. UNCHANGED <<file, current>> /\ disturbed' \cup {p} = disturbed \cup {p}
    BY <1>3 DEF Start
  <2>3. Kept(p)'
    BY <2>1 DEF Kept
  <2> QED
    BY <2>1, <2>2, <2>3, ManifestElsewhere
<1>4. ASSUME NEW p \in Procs, Read(p) PROVE ManifestInv'
  <2>1. /\ \A q \in Procs \ {p} : proc'[q] = proc[q]
        /\ proc'[p].pc \in {"reading", "computing", "refused"} /\ proc'[p].at = proc[p].at
    BY <1>4, ReadEffect DEF Shape
  <2>2. UNCHANGED <<file, current, disturbed>> /\ proc[p].at = 1
    BY <1>4 DEF Read, At, ManifestInv
  <2>3. Kept(p)'
    BY <2>1 DEF Kept
  <2> QED
    BY <2>1, <2>2, <2>3, ManifestElsewhere
<1>5. ASSUME NEW p \in Procs, Work(p) PROVE ManifestInv'
  BY <1>5, ComputeOK, OpenPartitionOK, FillPartitionOK, CheckPartitionOK, OpenManifestOK, FillManifestOK,
     SweepingOK, CreateExclusionsOK, StopOK DEF Work
<1> QED
  BY <1>1, <1>2, <1>3, <1>4, <1>5 DEF Next, Work, Spoil, vars

LEMMA ManifestInit == ASSUME Init PROVE ManifestInv
<1>1. ASSUME NEW p \in Procs PROVE proc[p].pc = "idle"
  BY <1>1 DEF Init, Idle
<1>2. ~current
  BY DEF Init
<1>3. file["manifest"] = Absent
  <2>1. PICK study \in Studies \cup {<<>>} :
            file = [f \in Files |-> IF f \in DOMAIN study THEN study[f]
                                   ELSE IF f \in DOMAIN Original THEN Original[f] ELSE Absent]
    BY DEF Init
  <2>2. "manifest" \notin DOMAIN study
    BY FilesAssumption
  <2>3. "manifest" \notin DOMAIN Original
    BY FilesAssumption
  <2> QED
    BY <2>1, <2>2, <2>3, NamesAreFiles
<1> QED
  BY <1>1, <1>2, <1>3 DEF ManifestInv, Kept

THEOREM ManifestInvariant == Spec => []ManifestInv
<1>1. Init => ManifestInv
  BY ManifestInit
<1>2. Shape /\ ResultsInv /\ ManifestInv /\ [Next]_vars => ManifestInv'
  BY ManifestStep
<1> QED
  BY <1>1, <1>2, ShapeInvariant, ResultsInvariant, PTL DEF Spec

(* ManifestDescribes: a complete manifest names a source and the split of  *)
(* it, and, no other split writing beside, the files that are there        *)
(* (write_trace_partitions, with edits and crashes at any moment).         *)
THEOREM ManifestsDescribe == Spec => []ManifestDescribes
<1>1. ManifestInv => ManifestDescribes
  BY DEF ManifestInv, IsManifest, ManifestDescribes
<1> QED
  BY <1>1, ManifestInvariant, PTL
-----------------------------------------------------------------------------
(* Sets in order.                                                          *)

(* Every set of natural numbers that is not empty has a least element.     *)
LEMMA LeastNatural ==
    ASSUME NEW T \in SUBSET Nat, T # {}
    PROVE  \E x \in T : \A y \in T : x <= y
<1>1. IsWellFoundedOn(OpToRel(<, Nat), Nat)
  BY NatLessThanWellFounded
<1>2. PICK x \in T : \A y \in T : <<y, x>> \notin OpToRel(<, Nat)
  BY <1>1, WFMin
<1>3. ASSUME NEW y \in T PROVE x <= y
  <2>1. x \in Nat /\ y \in Nat
    BY <1>2, <1>3
  <2>2. ~(y < x)
    BY <1>2, <2>1 DEF OpToRel
  <2> QED
    BY <2>1, <2>2
<1> QED
  BY <1>2, <1>3

(* Where elements are strictly ahead of each other, and of any two one is, *)
(* Ordered lists all of them once, each behind those ahead of it.          *)
LEMMA OrderedLists ==
    ASSUME NEW S, IsFiniteSet(S), NEW ahead \in [S -> SUBSET S],
           \A x \in S : x \notin ahead[x],
           \A x, y \in S : x \in ahead[y] => ahead[x] \subseteq ahead[y],
           \A x, y \in S : x # y => x \in ahead[y] \/ y \in ahead[x]
    PROVE  LET list == Ordered(S, ahead) IN
           /\ list \in [1..Cardinality(S) -> S]
           /\ \A x \in S : \E i \in 1..Cardinality(S) : list[i] = x
           /\ \A i, j \in 1..Cardinality(S) : i < j => list[i] # list[j] /\ list[i] \in ahead[list[j]]
<1> DEFINE list == Ordered(S, ahead)
           n == Cardinality(S)
           rank == [x \in S |-> Cardinality(ahead[x])]
<1>1. n \in Nat /\ IsFiniteSet(0 .. (n - 1)) /\ Cardinality(0 .. (n - 1)) = n
  <2>1. n \in Nat
    BY FS_CardinalityType
  <2>2. IsFiniteSet(0 .. (n - 1)) /\ Cardinality(0 .. (n - 1)) = IF 0 > n - 1 THEN 0 ELSE (n - 1) - 0 + 1
    BY <2>1, FS_Interval
  <2> QED
    BY <2>1, <2>2
<1>2. ASSUME NEW x \in S PROVE IsFiniteSet(ahead[x]) /\ rank[x] \in 0 .. (n - 1)
  <2>1. ahead[x] \in SUBSET S /\ ahead[x] # S
    OBVIOUS
  <2>2. IsFiniteSet(ahead[x]) /\ Cardinality(ahead[x]) <= n /\ Cardinality(ahead[x]) # n
    BY <2>1, FS_Subset
  <2>3. Cardinality(ahead[x]) \in Nat
    BY <2>2, FS_CardinalityType
  <2> QED
    BY <1>1, <2>2, <2>3
<1>3. ASSUME NEW x \in S, NEW y \in S, x \in ahead[y] PROVE rank[x] < rank[y]
  <2>1. ahead[x] \in SUBSET ahead[y] /\ ahead[x] # ahead[y]
    BY <1>3
  <2>2. Cardinality(ahead[x]) <= Cardinality(ahead[y]) /\ Cardinality(ahead[x]) # Cardinality(ahead[y])
    BY <1>2, <2>1, FS_Subset
  <2> QED
    BY <1>1, <1>2, <2>2
<1>4. ASSUME NEW x \in S, NEW y \in S, rank[x] = rank[y] PROVE x = y
  BY <1>1, <1>2, <1>3, <1>4
<1>5. ASSUME NEW i \in 0 .. (n - 1) PROVE \E x \in S : rank[x] = i
  <2>1. rank \in Injection(S, 0 .. (n - 1))
    BY <1>2, <1>4 DEF Injection, IsInjective
  <2>2. rank \in Surjection(S, 0 .. (n - 1))
    BY <1>1, <2>1, FS_Injection
  <2> QED
    BY <2>2 DEF Surjection
<1>6. ASSUME NEW i \in 1..n PROVE list[i] \in S /\ rank[list[i]] = i - 1
  <2>1. \E x \in S : rank[x] = i - 1
    BY <1>1, <1>5
  <2>2. list[i] = CHOOSE x \in S : Cardinality(ahead[x]) = i - 1
    BY DEF Ordered
  <2> QED
    BY <2>1, <2>2
<1>7. list \in [1..n -> S]
  BY <1>6 DEF Ordered
<1>8. ASSUME NEW x \in S PROVE \E i \in 1..n : list[i] = x
  <2>1. rank[x] + 1 \in 1..n
    BY <1>1, <1>2
  <2>2. rank[list[rank[x] + 1]] = rank[x] /\ list[rank[x] + 1] \in S
    BY <1>1, <1>2, <1>6, <2>1
  <2>3. list[rank[x] + 1] = x
    BY <1>4, <2>2
  <2> QED
    BY <2>1, <2>3
<1>9. ASSUME NEW i \in 1..n, NEW j \in 1..n, i < j PROVE list[i] # list[j] /\ list[i] \in ahead[list[j]]
  <2>1. /\ list[i] \in S /\ list[j] \in S
        /\ rank[list[i]] = i - 1 /\ rank[list[j]] = j - 1
    BY <1>6
  <2>2. list[i] # list[j]
    BY <1>9, <2>1
  <2>3. ~(rank[list[j]] < rank[list[i]])
    BY <1>1, <1>9, <2>1
  <2> QED
    BY <1>3, <2>1, <2>2, <2>3
<1> QED
  BY <1>7, <1>8, <1>9

LEMMA AscendingLists ==
    ASSUME NEW S \in SUBSET Nat, IsFiniteSet(S)
    PROVE  LET list == Ascending(S) IN
           /\ list \in [1..Cardinality(S) -> S]
           /\ \A x \in S : \E i \in 1..Cardinality(S) : list[i] = x
           /\ \A i, j \in 1..Cardinality(S) : i < j => list[i] < list[j]
<1> DEFINE ahead == [x \in S |-> {y \in S : y < x}]
<1>1. /\ ahead \in [S -> SUBSET S]
      /\ \A x \in S : x \notin ahead[x]
      /\ \A x, y \in S : x \in ahead[y] => ahead[x] \subseteq ahead[y]
      /\ \A x, y \in S : x # y => x \in ahead[y] \/ y \in ahead[x]
  <2>1. \A x \in S : x \in Nat /\ ahead[x] = {y \in S : y < x}
    OBVIOUS
  <2>2. \A x \in S : ~(x < x)
    BY <2>1
  <2>3. \A x, y, z \in S : z < x /\ x < y => z < y
    BY <2>1
  <2>4. \A x, y \in S : x # y => x < y \/ y < x
    BY <2>1
  <2>5. ahead \in [S -> SUBSET S]
    OBVIOUS
  <2> HIDE DEF ahead
  <2>6. \A x \in S : x \notin ahead[x]
    BY <2>1, <2>2
  <2>7. ASSUME NEW x \in S, NEW y \in S, x \in ahead[y] PROVE ahead[x] \subseteq ahead[y]
    BY <2>1, <2>3, <2>7
  <2>8. \A x, y \in S : x # y => x \in ahead[y] \/ y \in ahead[x]
    BY <2>1, <2>4
  <2> QED
    BY <2>5, <2>6, <2>7, <2>8
<1>2. Ascending(S) = Ordered(S, ahead)
  BY DEF Ascending
<1>3. \A x, y \in S : x \in ahead[y] => x < y
  OBVIOUS
<1> HIDE DEF ahead
<1>4. LET list == Ordered(S, ahead) IN
      /\ list \in [1..Cardinality(S) -> S]
      /\ \A x \in S : \E i \in 1..Cardinality(S) : list[i] = x
      /\ \A i, j \in 1..Cardinality(S) : i < j => list[i] # list[j] /\ list[i] \in ahead[list[j]]
  BY <1>1, OrderedLists
<1> QED
  BY <1>2, <1>3, <1>4

-----------------------------------------------------------------------------
(* What the splitting is given: records of their own, with groups that have *)
(* digests, and fractions that are numbers.                                 *)
Splittable(traces, config) ==
    /\ traces \in Seq(ToSet(traces)) /\ Loaded(traces) # Error
    /\ {config.train, config.calibration} \subseteq Int
    /\ Keys(traces, config.by) \subseteq DOMAIN DigestOrder \cup {None}
    /\ LegalSplit(traces, config)

LEMMA SplittableIs ==
    ASSUME NEW traces, NEW config, Splittable(traces, config)
    PROVE  /\ Len(traces) \in Nat /\ DOMAIN traces = 1..Len(traces) /\ IsFiniteSet(DOMAIN traces)
           /\ \A i \in DOMAIN traces : GroupKey(traces[i], config.by) \in Keys(traces, config.by)
           /\ IsFiniteSet(Keys(traces, config.by)) /\ Cardinality(Keys(traces, config.by)) \in Nat
           /\ Cardinality(Keys(traces, config.by)) >= 3 /\ None \notin Keys(traces, config.by)
           /\ \A i, j \in DOMAIN traces : traces[i].id = traces[j].id => i = j
           /\ \A name \in Names : Target(traces, config, name) \in Int
<1> DEFINE keys == Keys(traces, config.by)
<1>1. Len(traces) \in Nat /\ DOMAIN traces = 1..Len(traces)
  BY DEF Splittable
<1>2. IsFiniteSet(DOMAIN traces)
  BY <1>1, FS_Interval
<1>3. \A i \in DOMAIN traces : GroupKey(traces[i], config.by) \in keys
  BY DEF Keys
<1>4. IsFiniteSet(keys)
  <2> DEFINE f == [i \in DOMAIN traces |-> GroupKey(traces[i], config.by)]
  <2>1. f \in Surjection(DOMAIN traces, keys)
    BY DEF Keys, Surjection
  <2> QED
    BY <1>2, <2>1, FS_Surjection
<1>5. Cardinality(keys) \in Nat
  BY <1>4, FS_CardinalityType
<1>6. Cardinality(keys) >= 3 /\ None \notin keys
  BY DEF Splittable, LegalSplit
<1>7. \A i, j \in DOMAIN traces : traces[i].id = traces[j].id => i = j
  BY DEF Splittable, Loaded
<1>8. \A name \in Names : Target(traces, config, name) \in Int
  BY <1>1 DEF Splittable, Target
<1> QED
  BY <1>1, <1>2, <1>3, <1>4, <1>5, <1>6, <1>7, <1>8

(* The groups in their order: each once, and there are three or more.      *)
LEMMA GroupsAre ==
    ASSUME NEW traces, NEW config, Splittable(traces, config)
    PROVE  LET groups == OrderedGroups(traces, config.by)
               keys == Keys(traces, config.by)
           IN /\ Len(groups) = Cardinality(keys) /\ groups \in [1..Len(groups) -> keys]
              /\ \A key \in keys : \E i \in 1..Len(groups) : groups[i] = key
              /\ \A i, j \in 1..Len(groups) : i < j => groups[i] # groups[j]
<1> DEFINE keys == Keys(traces, config.by)
           size == [key \in keys |-> Cardinality({i \in DOMAIN traces : GroupKey(traces[i], config.by) = key})]
           before(b, a) == size[b] > size[a] \/ (size[b] = size[a] /\ DigestOrder[b] < DigestOrder[a])
           ahead == [a \in keys |-> {b \in keys : before(b, a)}]
           groups == OrderedGroups(traces, config.by)
<1>1. groups = Ordered(keys, ahead)
  BY DEF OrderedGroups
<1>2. ASSUME NEW a \in keys PROVE size[a] \in Nat
  <2>1. {i \in DOMAIN traces : GroupKey(traces[i], config.by) = a} \in SUBSET DOMAIN traces
    OBVIOUS
  <2>2. IsFiniteSet({i \in DOMAIN traces : GroupKey(traces[i], config.by) = a})
    BY <2>1, SplittableIs, FS_Subset
  <2> QED
    BY <2>2, FS_CardinalityType
<1>3. \A a \in keys : a \in DOMAIN DigestOrder /\ DigestOrder[a] \in Int
  <2>1. keys \subseteq DOMAIN DigestOrder
    BY SplittableIs DEF Splittable
  <2> QED
    BY <2>1, ExperimentsAssumption
<1>4. \A a, b \in keys : DigestOrder[a] = DigestOrder[b] => a = b
  BY <1>3, ExperimentsAssumption
<1> HIDE DEF keys, size
<1>5. \A a \in keys : ~before(a, a)
  BY <1>2, <1>3
<1>6. \A a, b, c \in keys : before(a, b) /\ before(b, c) => before(a, c)
  BY <1>2, <1>3
<1>7. \A a, b \in keys : a # b => before(a, b) \/ before(b, a)
  BY <1>2, <1>3, <1>4
<1> HIDE DEF before
<1>8. /\ ahead \in [keys -> SUBSET keys]
      /\ \A x \in keys : x \notin ahead[x]
      /\ \A x, y \in keys : x \in ahead[y] => ahead[x] \subseteq ahead[y]
      /\ \A x, y \in keys : x # y => x \in ahead[y] \/ y \in ahead[x]
  BY <1>5, <1>6, <1>7
<1>9. IsFiniteSet(keys) /\ Cardinality(keys) \in Nat
  BY SplittableIs DEF keys
<1> HIDE DEF ahead, groups
<1>10. /\ groups \in [1..Cardinality(keys) -> keys]
       /\ \A x \in keys : \E i \in 1..Cardinality(keys) : groups[i] = x
       /\ \A i, j \in 1..Cardinality(keys) : i < j => groups[i] # groups[j]
  BY <1>1, <1>8, <1>9, OrderedLists
<1>11. Len(groups) = Cardinality(keys)
  BY <1>9, <1>10
<1> QED
  BY <1>10, <1>11 DEF keys, groups

(* Of the partitions that are open one is preferred.                       *)
LEMMA PreferredIsOpen ==
    ASSUME NEW error \in [Names -> Int], NEW missing \in [Names -> Int],
           NEW open \in SUBSET Names, open # {}
    PROVE  Preferred(error, missing, open) \in open
<1> DEFINE better(a, b) == \/ error[a] < error[b]
                           \/ error[a] = error[b] /\ missing[a] > missing[b]
                           \/ error[a] = error[b] /\ missing[a] = missing[b] /\ (a = "train" \/ b = "test")
<1>1. \A a, b \in Names : a # b => better(a, b) \/ better(b, a)
  BY NamesAre
<1>2. \A a, b, c \in Names : a # c /\ better(a, b) /\ better(b, c) => better(a, c)
  BY NamesAre
<1> HIDE DEF better
<1>3. \E a \in open : \A b \in open \ {a} : better(a, b)
  <2> DEFINE first(a, b, c) == a \in open /\ (better(a, b) \/ b \notin open) /\ (better(a, c) \/ c \notin open)
  <2>1. ASSUME NEW a \in Names, NEW b \in Names, NEW c \in Names, Names = {a, b, c}, first(a, b, c)
        PROVE  \A x \in open \ {a} : better(a, x)
    <3>1. \A x \in open \ {a} : x \in {b, c}
      BY <2>1
    <3> QED
      BY <2>1, <3>1
  <2>2. \/ first("train", "calibration", "test")
        \/ first("calibration", "train", "test")
        \/ first("test", "train", "calibration")
    <3>1. "train" \in open \/ "calibration" \in open \/ "test" \in open
      BY NamesAre
    <3>2. /\ better("train", "calibration") \/ better("calibration", "train")
          /\ better("train", "test") \/ better("test", "train")
          /\ better("calibration", "test") \/ better("test", "calibration")
      BY <1>1, NamesAre
    <3>3. /\ better("train", "calibration") /\ better("calibration", "test") => better("train", "test")
          /\ better("test", "calibration") /\ better("calibration", "train") => better("test", "train")
      BY <1>2, NamesAre
    <3> QED
      BY <3>1, <3>2, <3>3
  <2> HIDE DEF first
  <2>3. CASE first("train", "calibration", "test")
    <3>1. Names = {"train", "calibration", "test"}
      BY NamesAre
    <3>2. \A x \in open \ {"train"} : better("train", x)
      BY <2>1, <2>3, <3>1
    <3> QED
      BY <2>3, <3>2 DEF first
  <2>4. CASE first("calibration", "train", "test")
    <3>1. Names = {"calibration", "train", "test"}
      BY NamesAre
    <3>2. \A x \in open \ {"calibration"} : better("calibration", x)
      BY <2>1, <2>4, <3>1
    <3> QED
      BY <2>4, <3>2 DEF first
  <2>5. CASE first("test", "train", "calibration")
    <3>1. Names = {"test", "train", "calibration"}
      BY NamesAre
    <3>2. \A x \in open \ {"test"} : better("test", x)
      BY <2>1, <2>5, <3>1
    <3> QED
      BY <2>5, <3>2 DEF first
  <2> QED
    BY <2>2, <2>3, <2>4, <2>5
<1>4. \E a \in open : \A b \in open \ {a} :
        \/ error[a] < error[b]
        \/ error[a] = error[b] /\ missing[a] > missing[b]
        \/ error[a] = error[b] /\ missing[a] = missing[b] /\ (a = "train" \/ b = "test")
  BY <1>3 DEF better
<1> QED
  BY <1>4 DEF Preferred

LEMMA CountedTyped ==
    ASSUME NEW traces, NEW config, Splittable(traces, config), NEW of, NEW name
    PROVE  Counted(traces, config, of, name) \in Nat
<1> DEFINE set == {i \in DOMAIN traces : GroupKey(traces[i], config.by) \in DOMAIN of
                                         /\ of[GroupKey(traces[i], config.by)] = name}
<1>1. set \in SUBSET DOMAIN traces
  OBVIOUS
<1>2. IsFiniteSet(set)
  BY <1>1, SplittableIs, FS_Subset
<1>3. Counted(traces, config, of, name) = Cardinality(set)
  BY DEF Counted
<1> QED
  BY <1>2, <1>3, FS_CardinalityType

LEMMA ErrorTyped ==
    ASSUME NEW traces, NEW config, Splittable(traces, config), NEW of
    PROVE  SquaredError(traces, config, of) \in Int
<1> DEFINE off(name) == 100 * Counted(traces, config, of, name) - Target(traces, config, name)
<1>1. \A name \in Names : off(name) \in Int
  BY CountedTyped, SplittableIs
<1>2. off("train") \in Int /\ off("calibration") \in Int /\ off("test") \in Int
  BY <1>1, NamesAre
<1>3. SquaredError(traces, config, of) =
         off("train") * off("train") + off("calibration") * off("calibration") + off("test") * off("test")
  BY DEF SquaredError
<1> HIDE DEF off
<1>4. \A x \in Int : x * x \in Int
  OBVIOUS
<1> QED
  BY <1>2, <1>3, <1>4

(* The partitions that no group is in yet.                                 *)
Empty(of) == Names \ {of[key] : key \in DOMAIN of}

LEMMA EmptyFinite == ASSUME NEW of PROVE IsFiniteSet(Empty(of)) /\ Cardinality(Empty(of)) \in 0..3
<1>1. IsFiniteSet(Names) /\ Cardinality(Names) = 3
  <2>1. IsFiniteSet({"train"}) /\ Cardinality({"train"}) = 1
    BY FS_Singleton
  <2>2. IsFiniteSet({"train"} \cup {"calibration"}) /\ Cardinality({"train"} \cup {"calibration"}) = 2
    BY <2>1, FS_AddElement
  <2>3. IsFiniteSet(({"train"} \cup {"calibration"}) \cup {"test"})
        /\ Cardinality(({"train"} \cup {"calibration"}) \cup {"test"}) = 3
    BY <2>2, FS_AddElement
  <2>4. Names = ({"train"} \cup {"calibration"}) \cup {"test"}
    BY NamesAre
  <2> QED
    BY <2>3, <2>4
<1>2. Empty(of) \in SUBSET Names
  BY DEF Empty
<1>3. IsFiniteSet(Empty(of)) /\ Cardinality(Empty(of)) <= 3
  BY <1>1, <1>2, FS_Subset
<1> QED
  BY <1>3, FS_CardinalityType

(* A group is placed where there is room for it, and never takes the last  *)
(* group a partition that is still empty could get.                        *)
LEMMA PlaceKeepsRoom ==
    ASSUME NEW traces, NEW config, Splittable(traces, config),
           NEW keys, NEW of \in [keys -> Names], NEW key, key \notin keys,
           NEW after \in Nat, Cardinality(Empty(of)) <= after + 1
    PROVE  LET next == Place(traces, config, of, key, after) IN
           next \in [keys \cup {key} -> Names] /\ Cardinality(Empty(next)) <= after
<1> DEFINE error == [name \in Names |-> SquaredError(traces, config, Placed(of, key, name))]
           missing == [name \in Names |-> Target(traces, config, name) - 100 * Counted(traces, config, of, name)]
           open == Open(of, after)
           name == Preferred(error, missing, open)
           next == Place(traces, config, of, key, after)
<1>1. error \in [Names -> Int]
  BY ErrorTyped
<1>2. missing \in [Names -> Int]
  BY SplittableIs, CountedTyped
<1>3. open = IF after < Cardinality(Empty(of)) THEN Empty(of) ELSE Names
  BY DEF Open, Empty
<1>4. Cardinality(Empty(of)) \in Nat /\ IsFiniteSet(Empty(of))
  BY EmptyFinite
<1>5. open \in SUBSET Names /\ open # {}
  <2>1. Empty(of) \subseteq Names
    BY DEF Empty
  <2>2. after < Cardinality(Empty(of)) => Empty(of) # {}
    BY <1>4, FS_EmptySet
  <2> QED
    BY <1>3, <2>1, <2>2, NamesAre
<1>6. next = Placed(of, key, name)
  BY DEF Place
<1> HIDE DEF error, missing, open
<1>7. name \in open
  BY <1>1, <1>2, <1>5, PreferredIsOpen
<1> HIDE DEF name, next
<1>8. next \in [keys \cup {key} -> Names] /\ next[key] = name /\ \A k \in keys : next[k] = of[k]
  BY <1>5, <1>6, <1>7 DEF Placed
<1>9. Empty(next) = Empty(of) \ {name}
  <2>1. \A n : (\E k \in DOMAIN next : next[k] = n) <=> (n = name \/ \E k \in DOMAIN of : of[k] = n)
    BY <1>8
  <2> QED
    BY <2>1 DEF Empty
<1>10. Cardinality(Empty(next)) = IF name \in Empty(of) THEN Cardinality(Empty(of)) - 1 ELSE Cardinality(Empty(of))
  BY <1>4, <1>9, FS_RemoveElement
<1>11. Cardinality(Empty(next)) <= after
  BY <1>3, <1>4, <1>7, <1>10
<1> QED
  BY <1>8, <1>11 DEF next

(* The recursion that places one group after the other has a solution.     *)
LEMMA AssignFollows ==
    ASSUME NEW traces, NEW config, Len(OrderedGroups(traces, config.by)) \in Nat
    PROVE  LET groups == OrderedGroups(traces, config.by) IN
           \E first : /\ Assign(traces, config) = first[Len(groups)]
                      /\ first[0] = <<>>
                      /\ \A n \in 1..Len(groups) :
                            first[n] = Place(traces, config, first[n - 1], groups[n], Len(groups) - n)
<1> DEFINE groups == OrderedGroups(traces, config.by)
           N == Len(groups)
           step(x, n) == Place(traces, config, x, groups[n], N - n)
           solves(f, m) == f = [n \in 0..m |-> IF n = 0 THEN <<>> ELSE step(f[n - 1], n)]
           T == {m \in Nat : ~\E f : solves(f, m)}
<1>1. Assign(traces, config) = (CHOOSE f : solves(f, N))[N]
  BY DEF Assign
<1> HIDE DEF N, step
<1>2. T = {}
  <2> SUFFICES ASSUME T # {} PROVE FALSE
    OBVIOUS
  <2>1. PICK m \in T : \A y \in T : m <= y
    <3>1. T \in SUBSET Nat
      OBVIOUS
    <3> QED
      BY <3>1, LeastNatural
  <2>2. m \in Nat /\ ~\E f : solves(f, m)
    BY <2>1
  <2>3. m # 0
    <3>1. solves([n \in 0..0 |-> <<>>], 0)
      OBVIOUS
    <3> QED
      BY <2>2, <3>1
  <2>4. m - 1 \in Nat /\ m - 1 \notin T
    <3>1. m - 1 \in Nat /\ ~(m <= m - 1)
      BY <2>2, <2>3
    <3> HIDE DEF T
    <3> QED
      BY <2>1, <3>1
  <2>5. PICK g : solves(g, m - 1)
    BY <2>4
  <2> DEFINE f == [n \in 0..m |-> IF n = m THEN step(g[m - 1], m) ELSE g[n]]
  <2>6. \A n \in 0 .. (m - 1) : f[n] = g[n] /\ g[n] = IF n = 0 THEN <<>> ELSE step(g[n - 1], n)
    BY <2>2, <2>5
  <2>7. ASSUME NEW n \in 0..m PROVE f[n] = IF n = 0 THEN <<>> ELSE step(f[n - 1], n)
    <3>1. CASE n = m
      <4>1. m - 1 \in 0 .. (m - 1) /\ n \in 0..m
        BY <2>2, <2>3, <3>1
      <4>2. f[m - 1] = g[m - 1]
        BY <2>6, <4>1
      <4>3. f[m] = step(g[m - 1], m)
        BY <3>1
      <4> QED
        BY <2>3, <3>1, <4>2, <4>3
    <3>2. CASE n # m /\ n # 0
      <4>1. n \in 0 .. (m - 1) /\ n - 1 \in 0 .. (m - 1)
        BY <2>2, <3>2
      <4> QED
        BY <2>6, <3>2, <4>1
    <3>3. CASE n # m /\ n = 0
      <4>1. n \in 0 .. (m - 1)
        BY <2>2, <3>3
      <4> QED
        BY <2>6, <3>3, <4>1
    <3> QED
      BY <3>1, <3>2, <3>3
  <2>8. solves(f, m)
    <3>1. f = [n \in 0..m |-> f[n]]
      OBVIOUS
    <3>2. f = [n \in 0..m |-> IF n = 0 THEN <<>> ELSE step(f[n - 1], n)]
      <4> HIDE DEF f
      <4> QED
        BY <2>7, <3>1
    <3> QED
      BY <3>2
  <2> QED
    BY <2>2, <2>8
<1>3. N \in Nat
  BY DEF N
<1>4. PICK f : solves(f, N) /\ Assign(traces, config) = f[N]
  BY <1>1, <1>2, <1>3
<1>5. f[0] = <<>> /\ \A n \in 1..N : f[n] = step(f[n - 1], n)
  BY <1>3, <1>4
<1> QED
  BY <1>4, <1>5 DEF N, step

(* Every group has a partition, and every partition a group.               *)
LEMMA AssignIsOnto ==
    ASSUME NEW traces, NEW config, Splittable(traces, config)
    PROVE  /\ Assign(traces, config) \in [Keys(traces, config.by) -> Names]
           /\ \A name \in Names : \E key \in Keys(traces, config.by) : Assign(traces, config)[key] = name
<1> DEFINE groups == OrderedGroups(traces, config.by)
           keys == Keys(traces, config.by)
           N == Len(groups)
           upTo(m) == {groups[i] : i \in 1..m}
<1>1. /\ N \in Nat /\ N >= 3 /\ groups \in [1..N -> keys]
      /\ \A key \in keys : \E i \in 1..N : groups[i] = key
      /\ \A i, j \in 1..N : i < j => groups[i] # groups[j]
  BY SplittableIs, GroupsAre
<1>2. PICK first : /\ Assign(traces, config) = first[N] /\ first[0] = <<>>
                   /\ \A n \in 1..N : first[n] = Place(traces, config, first[n - 1], groups[n], N - n)
  BY <1>1, AssignFollows
<1> DEFINE fits(m) == first[m] \in [upTo(m) -> Names] /\ Cardinality(Empty(first[m])) <= N - m
           T == {m \in Nat : m <= N /\ ~fits(m)}
<1> HIDE DEF groups, keys, N
<1>3. T = {}
  <2> SUFFICES ASSUME T # {} PROVE FALSE
    OBVIOUS
  <2>1. PICK m \in T : \A y \in T : m <= y
    <3>1. T \in SUBSET Nat
      OBVIOUS
    <3> QED
      BY <3>1, LeastNatural
  <2>2. m \in Nat /\ m <= N /\ ~fits(m)
    BY <2>1
  <2>3. fits(0)
    <3>1. upTo(0) = {}
      OBVIOUS
    <3>2. first[0] \in [upTo(0) -> Names]
      BY <1>2, <3>1
    <3>3. Cardinality(Empty(first[0])) <= N
      BY <1>1, EmptyFinite
    <3> QED
      BY <1>1, <3>2, <3>3
  <2>4. m - 1 \in Nat /\ m \in 1..N /\ fits(m - 1)
    <3>1. m # 0
      BY <2>2, <2>3
    <3>2. m - 1 \in Nat /\ m \in 1..N /\ m - 1 <= N /\ ~(m <= m - 1)
      BY <1>1, <2>2, <3>1
    <3>3. m - 1 \notin T
      <4> HIDE DEF T
      <4> QED
        BY <2>1, <3>2
    <3> HIDE DEF fits
    <3> QED
      BY <3>2, <3>3
  <2>5. groups[m] \notin upTo(m - 1)
    BY <1>1, <2>4
  <2>6. upTo(m) = upTo(m - 1) \cup {groups[m]}
    <3>1. 1..m = 1..(m - 1) \cup {m}
      BY <2>4
    <3> QED
      BY <3>1
  <2>7. N - m \in Nat /\ N - (m - 1) = (N - m) + 1
    BY <1>1, <2>4
  <2> HIDE DEF upTo
  <2>8. Place(traces, config, first[m - 1], groups[m], N - m) \in [upTo(m - 1) \cup {groups[m]} -> Names]
        /\ Cardinality(Empty(Place(traces, config, first[m - 1], groups[m], N - m))) <= N - m
    BY <2>4, <2>5, <2>7, PlaceKeepsRoom
  <2>9. first[m] = Place(traces, config, first[m - 1], groups[m], N - m)
    BY <1>2, <2>4
  <2> QED
    BY <2>2, <2>6, <2>8, <2>9
<1>4. fits(N)
  <2> HIDE DEF fits
  <2> QED
    BY <1>1, <1>3
<1>5. upTo(N) = keys
  BY <1>1
<1> HIDE DEF upTo
<1>6. Assign(traces, config) \in [keys -> Names]
  BY <1>2, <1>4, <1>5
<1>7. Empty(Assign(traces, config)) = {}
  <2>1. Cardinality(Empty(Assign(traces, config))) <= 0
    BY <1>1, <1>2, <1>4
  <2>2. IsFiniteSet(Empty(Assign(traces, config))) /\ Cardinality(Empty(Assign(traces, config))) = 0
    BY <2>1, EmptyFinite
  <2> QED
    BY <2>2, FS_EmptySet
<1>8. ASSUME NEW name \in Names PROVE \E key \in keys : Assign(traces, config)[key] = name
  BY <1>6, <1>7 DEF Empty
<1> QED
  BY <1>6, <1>8 DEF keys

(* The members of a part stand in it as they stand in the source.          *)
InOrderOf(part, source) ==
    \A m, n \in DOMAIN part : m < n =>
       \E i, j \in DOMAIN source : i < j /\ part[m] = source[i] /\ part[n] = source[j]

(* What a legal split is: all partitions get some, in order, no group two, *)
(* and none of the records is left out.                                    *)
LEMMA SplitFits ==
    ASSUME NEW traces, NEW config, Splittable(traces, config)
    PROVE  LET parts == Partitioned(traces, config.by, Assign(traces, config))
           IN /\ parts \in [Names -> Seq(ToSet(traces))]
              /\ ValidPartitions(parts, config.by)
              /\ \A name \in Names : InOrderOf(parts[name], traces)
              /\ UNION {ToSet(parts[name]) : name \in Names} = ToSet(traces)
<1> DEFINE by == config.by
           of == Assign(traces, config)
           keys == Keys(traces, by)
           records(name) == {i \in DOMAIN traces : of[GroupKey(traces[i], by)] = name}
           list(name) == Ascending(records(name))
           size(name) == Cardinality(records(name))
           parts == Partitioned(traces, by, of)
<1>1. /\ DOMAIN traces \subseteq Nat /\ IsFiniteSet(DOMAIN traces)
      /\ \A i \in DOMAIN traces : GroupKey(traces[i], by) \in keys
      /\ None \notin keys
      /\ \A i, j \in DOMAIN traces : traces[i].id = traces[j].id => i = j
  BY SplittableIs
<1>2. of \in [keys -> Names] /\ \A name \in Names : \E key \in keys : of[key] = name
  BY AssignIsOnto
<1>3. parts = [name \in Names |-> [k \in DOMAIN list(name) |-> traces[list(name)[k]]]]
  BY DEF Partitioned
<1> HIDE DEF of, parts
<1>4. ASSUME NEW name \in Names
      PROVE  /\ size(name) \in Nat /\ list(name) \in [1..size(name) -> records(name)]
             /\ \A i \in records(name) : \E k \in 1..size(name) : list(name)[k] = i
             /\ \A m, n \in 1..size(name) : m < n => list(name)[m] < list(name)[n]
  <2>1. records(name) \in SUBSET DOMAIN traces
    OBVIOUS
  <2>2. IsFiniteSet(records(name)) /\ records(name) \in SUBSET Nat
    BY <1>1, <2>1, FS_Subset
  <2> HIDE DEF records
  <2>3. size(name) \in Nat
    BY <2>2, FS_CardinalityType
  <2> QED
    BY <2>2, <2>3, AscendingLists
<1> HIDE DEF list, size
<1>5. ASSUME NEW name \in Names
      PROVE  /\ parts[name] = [k \in DOMAIN parts[name] |-> parts[name][k]]
             /\ DOMAIN parts[name] = 1..size(name)
             /\ \A k \in 1..size(name) : parts[name][k] = traces[list(name)[k]]
  <2>1. parts[name] = [k \in 1..size(name) |-> traces[list(name)[k]]]
    BY <1>3, <1>4
  <2> QED
    BY <2>1
<1>6. ASSUME NEW name \in Names, NEW k \in 1..size(name)
      PROVE  list(name)[k] \in DOMAIN traces /\ of[GroupKey(traces[list(name)[k]], by)] = name
  BY <1>4
<1>7. ASSUME NEW name \in Names PROVE parts[name] \in Seq(ToSet(traces)) /\ DOMAIN parts[name] = 1..size(name)
  <2>1. ASSUME NEW k \in 1..size(name) PROVE parts[name][k] \in ToSet(traces)
    <3>1. parts[name][k] = traces[list(name)[k]]
      BY <1>5
    <3>2. list(name)[k] \in DOMAIN traces
      BY <1>6
    <3>3. \A i \in DOMAIN traces : traces[i] \in ToSet(traces)
      BY DEF ToSet
    <3> QED
      BY <3>1, <3>2, <3>3
  <2>2. parts[name] \in [1..size(name) -> ToSet(traces)] /\ size(name) \in Nat
    BY <1>4, <1>5, <2>1
  <2> QED
    BY <2>2
<1>8. ASSUME NEW name \in Names PROVE ToSet(parts[name]) = {traces[i] : i \in records(name)}
  <2>1. \A t : t \in ToSet(parts[name]) <=> \E k \in 1..size(name) : t = traces[list(name)[k]]
    <3>1. \A t : t \in ToSet(parts[name]) <=> \E k \in 1..size(name) : t = parts[name][k]
      BY <1>7 DEF ToSet
    <3>2. \A k \in 1..size(name) : parts[name][k] = traces[list(name)[k]]
      BY <1>5
    <3> QED
      BY <3>1, <3>2
  <2>2. \A k \in 1..size(name) : list(name)[k] \in records(name)
    BY <1>4
  <2>3. \A i \in records(name) : \E k \in 1..size(name) : list(name)[k] = i
    BY <1>4
  <2> HIDE DEF records
  <2> QED
    BY <2>1, <2>2, <2>3
<1>9. ASSUME NEW name \in Names PROVE parts[name] # <<>>
  <2>1. PICK key \in keys : of[key] = name
    BY <1>2
  <2>2. PICK i \in DOMAIN traces : GroupKey(traces[i], by) = key
    BY DEF Keys
  <2>3. i \in records(name)
    BY <2>1, <2>2
  <2>4. PICK k \in 1..size(name) : list(name)[k] = i
    BY <1>4, <2>3
  <2>5. DOMAIN parts[name] # {}
    BY <1>7, <2>4
  <2> QED
    BY <2>5
<1>10. ASSUME NEW name \in Names, NEW field
       PROVE  \A key \in Keys(parts[name], field) : \E i \in records(name) : key = GroupKey(traces[i], field)
  <2>1. ASSUME NEW key \in Keys(parts[name], field) PROVE \E i \in records(name) : key = GroupKey(traces[i], field)
    <3>1. PICK k \in DOMAIN parts[name] : key = GroupKey(parts[name][k], field)
      BY <2>1 DEF Keys
    <3>2. k \in 1..size(name) /\ parts[name][k] = traces[list(name)[k]]
      BY <1>5, <1>7
    <3>3. list(name)[k] \in records(name)
      BY <1>4, <3>2
    <3> QED
      BY <3>1, <3>2, <3>3
  <2> QED
    BY <2>1
<1>11. Apart(parts, by)
  <2>1. DOMAIN parts = Names
    BY <1>3
  <2>2. ASSUME NEW a \in Names PROVE None \notin Keys(parts[a], by)
    BY <1>1, <1>10
  <2>3. ASSUME NEW a \in Names, NEW b \in Names, a # b
        PROVE  Keys(parts[a], "request_id") \cap Keys(parts[b], "request_id") = {}
    <3>1. \A i \in records(a), j \in records(b) : i # j /\ i \in DOMAIN traces /\ j \in DOMAIN traces
      BY <2>3
    <3>2. \A i \in records(a), j \in records(b) : GroupKey(traces[i], "request_id") # GroupKey(traces[j], "request_id")
      BY <1>1, <3>1 DEF GroupKey
    <3> HIDE DEF records
    <3> QED
      BY <1>10, <3>2
  <2>4. ASSUME NEW a \in Names, NEW b \in Names, a # b
        PROVE  Keys(parts[a], by) \cap Keys(parts[b], by) = {}
    <3>1. \A i \in records(a), j \in records(b) : GroupKey(traces[i], by) # GroupKey(traces[j], by)
      BY <2>4
    <3> HIDE DEF records
    <3> QED
      BY <1>10, <3>1
  <2> QED
    BY <2>1, <2>2, <2>3, <2>4 DEF Apart
<1>12. ASSUME NEW name \in Names PROVE InOrderOf(parts[name], traces)
  <2> SUFFICES ASSUME NEW m \in DOMAIN parts[name], NEW n \in DOMAIN parts[name], m < n
               PROVE  \E i, j \in DOMAIN traces : i < j /\ parts[name][m] = traces[i] /\ parts[name][n] = traces[j]
    BY DEF InOrderOf
  <2>1. m \in 1..size(name) /\ n \in 1..size(name)
    BY <1>7
  <2>2. parts[name][m] = traces[list(name)[m]] /\ parts[name][n] = traces[list(name)[n]]
    BY <1>5, <2>1
  <2>3. list(name)[m] < list(name)[n]
    BY <1>4, <2>1
  <2> QED
    BY <1>6, <2>1, <2>2, <2>3
<1>13. UNION {ToSet(parts[name]) : name \in Names} = ToSet(traces)
  <2>1. ASSUME NEW t \in ToSet(traces) PROVE \E name \in Names : t \in ToSet(parts[name])
    <3>1. PICK i \in DOMAIN traces : t = traces[i]
      BY DEF ToSet
    <3>2. of[GroupKey(traces[i], by)] \in Names
      BY <1>1, <1>2
    <3>3. i \in records(of[GroupKey(traces[i], by)])
      OBVIOUS
    <3> QED
      BY <1>8, <3>1, <3>2, <3>3
  <2>2. ASSUME NEW name \in Names PROVE ToSet(parts[name]) \subseteq ToSet(traces)
    BY <1>8 DEF ToSet
  <2> QED
    BY <2>1, <2>2
<1>14. parts \in [Names -> Seq(ToSet(traces))]
  BY <1>3, <1>7
<1> QED
  BY <1>9, <1>11, <1>12, <1>13, <1>14 DEF ValidPartitions, parts, of
-----------------------------------------------------------------------------
(* What a split has read was given as a source; a command that has not     *)
(* computed, or has ended without success, holds nothing; and a split that *)
(* nobody wrote beside and that read one source was refused for its sake.  *)
Holding == Splitting \cup Sweeping \cup {"creating", "done"}

SplitOK(p) ==
    /\ proc[p].pc \notin Holding => proc[p].result = None
    /\ proc[p].command = "split" =>
          /\ proc[p].args \in SplitConfigs
          /\ \A i \in DOMAIN proc[p].read : proc[p].read[i] \in Given("source") \ {Absent, Torn}
          /\ proc[p].pc = "refused" /\ Len(proc[p].read) = 2 /\ p \notin disturbed => Computed(p) = Error

SplitInv ==
    /\ file["source"] \in Given("source") \cup {Absent}
    /\ \A p \in Procs : SplitOK(p)

LEMMA SplitOKKept ==
    ASSUME NEW p \in Procs, SplitOK(p), proc'[p] = proc[p], p \notin disturbed' => p \notin disturbed
    PROVE  SplitOK(p)'
BY DEF SplitOK, Computed

(* What is written while p does something leaves it disturbed if it was.   *)
LEMMA StaysDisturbed == ASSUME NEW p \in Procs, Work(p), disturbed \subseteq Procs PROVE disturbed \subseteq disturbed'
<1>1. CASE OpenPartition(p) \/ FillPartition(p) \/ OpenManifest(p) \/ FillManifest(p) \/ Stop(p)
  BY <1>1 DEF OpenPartition, FillPartition, OpenManifest, FillManifest, Stop, Write
<1>2. CASE Compute(p) \/ CheckPartition(p) \/ Lookup(p) \/ HitEntry(p) \/ MoveEntryAway(p)
            \/ InstallEntry(p) \/ InstallEntryFails(p) \/ CreateExclusions(p)
  BY <1>2 DEF Compute, CheckPartition, Lookup, HitEntry, MoveEntryAway, InstallEntry, InstallEntryFails,
              CreateExclusions
<1> QED
  BY <1>1, <1>2 DEF Work

LEMMA EmptyHanded ==
    ASSUME Shape, NEW p \in Procs, SplitOK(p), Work(p), proc'[p].pc \notin Holding
    PROVE  proc'[p].result = None
<1>1. proc'[p].pc \in {"refused", "stopped"}
  <2>1. CASE Compute(p)
    <3>1. Leads(p, {"opening", "creating", "done"})
      BY <2>1, ComputeKeeps DEF Shape
    <3> QED
      BY <3>1 DEF Leads, Holding, Splitting
  <2>2. CASE OpenPartition(p) \/ FillPartition(p) \/ CheckPartition(p) \/ OpenManifest(p) \/ FillManifest(p)
    <3>1. Leads(p, Splitting \cup {"done"})
      BY <2>2, SplittingKeeps DEF Shape
    <3> QED
      BY <3>1 DEF Leads, Holding
  <2>3. CASE Lookup(p) \/ HitEntry(p) \/ MoveEntryAway(p) \/ InstallEntry(p) \/ InstallEntryFails(p)
    <3>1. Leads(p, Sweeping \cup {"done"})
      BY <2>3, SweepingKeeps DEF Shape
    <3> QED
      BY <3>1 DEF Leads, Holding
  <2>4. CASE CreateExclusions(p)
    <3>1. Go(p, "done", proc[p].result) \/ Go(p, "refused", None)
      BY <2>4 DEF CreateExclusions, Refuse
    <3> QED
      BY <3>1, GoKeeps DEF Shape, Holding
  <2>5. CASE Stop(p)
    BY <2>5, GoKeeps DEF Stop, Shape
  <2> QED
    BY <2>1, <2>2, <2>3, <2>4, <2>5 DEF Work
<1>2. CASE Refuse(p) \/ Go(p, "stopped", None)
  BY <1>2, GoKeeps DEF Refuse, Shape
<1>3. CASE Compute(p) \/ Lookup(p) \/ HitEntry(p) \/ InstallEntry(p) \/ InstallEntryFails(p)
           \/ CreateExclusions(p) \/ Stop(p)
  BY <1>1, <1>2, <1>3, GoKeeps
  DEF Compute, Conclude, Lookup, Look, HitEntry, InstallEntry, InstallEntryFails, CreateExclusions, Stop, Shape
<1>4. CASE CheckPartition(p)
  <2>1. CASE Refuse(p)
    BY <1>2, <2>1
  <2>2. CASE proc' = [proc EXCEPT ![p].at = @ + 1] \/ proc' = [proc EXCEPT ![p].pc = "naming"]
    <3>1. proc'[p].pc \in {"checking", "naming"}
      BY <1>4, <2>2 DEF CheckPartition, At, Shape, ProcShape, FieldNames
    <3> QED
      BY <1>1, <3>1
  <2> QED
    BY <1>4, <2>1, <2>2 DEF CheckPartition
<1>5. CASE OpenPartition(p) \/ FillPartition(p) \/ OpenManifest(p) \/ FillManifest(p) \/ MoveEntryAway(p)
  <2>1. proc'[p].pc \in {"opening", "filling", "checking", "signing", "done", "installing"}
    BY <1>5 DEF OpenPartition, FillPartition, OpenManifest, FillManifest, MoveEntryAway, Shape, ProcShape, FieldNames
  <2> QED
    BY <1>1, <2>1
<1> QED
  BY <1>3, <1>4, <1>5 DEF Work

(* Work refuses a split only for what it read, or because of another one.  *)
LEMMA RefusedForItsSource ==
    ASSUME Shape, ResultsInv, ManifestInv, NEW p \in Procs, Work(p), proc[p].command = "split",
           proc'[p].pc = "refused", p \notin disturbed
    PROVE  Computed(p) = Error
<1>1. CASE Compute(p)
  <2>1. CASE Computed(p) = Error
    BY <2>1
  <2>2. CASE Computed(p) # Error
    <3>1. Go(p, "opening", Computed(p))
      BY <1>1, <2>2 DEF Compute, Conclude
    <3> QED
      BY <3>1, GoKeeps DEF Shape
  <2> QED
    BY <2>1, <2>2
<1>2. CASE CheckPartition(p)
  <2>1. proc[p].pc = "checking" /\ proc[p].at \in 1..3
    BY <1>2 DEF CheckPartition, At, Shape
  <2>2. file[Partition(p)] = proc[p].result[Partition(p)]
    BY <2>1 DEF ManifestInv, Kept, Partition
  <2>3. CASE proc' = [proc EXCEPT ![p].at = @ + 1] \/ proc' = [proc EXCEPT ![p].pc = "naming"]
    BY <2>1, <2>3 DEF Shape, ProcShape, FieldNames
  <2> QED
    BY <1>2, <2>2, <2>3 DEF CheckPartition
<1>3. CASE OpenPartition(p) \/ FillPartition(p) \/ OpenManifest(p) \/ FillManifest(p)
  BY <1>3 DEF OpenPartition, FillPartition, OpenManifest, FillManifest, Shape, ProcShape, FieldNames
<1>4. CASE Lookup(p) \/ HitEntry(p) \/ MoveEntryAway(p) \/ InstallEntry(p) \/ InstallEntryFails(p) \/ CreateExclusions(p)
  <2>1. ResultOK(p)
    BY DEF ResultsInv
  <2> QED
    BY <1>4, <2>1
    DEF ResultOK, Sweeping, Lookup, HitEntry, MoveEntryAway, InstallEntry, InstallEntryFails, CreateExclusions, At
<1>5. CASE Stop(p)
  BY <1>5, GoKeeps DEF Stop, Shape
<1> QED
  BY <1>1, <1>2, <1>3, <1>4, <1>5 DEF Work

LEMMA SplitOKAfterWork ==
    ASSUME Shape, ResultsInv, ManifestInv, NEW p \in Procs, SplitOK(p), Work(p)
    PROVE  SplitOK(p)'
<1>1. Keeps(p) /\ disturbed \subseteq disturbed'
  BY WorkKeeps, StaysDisturbed DEF Shape, CountsOK
<1>2. proc'[p].pc \notin Holding => proc'[p].result = None
  BY EmptyHanded
<1>3. proc'[p].command = proc[p].command /\ proc'[p].args = proc[p].args /\ proc'[p].read = proc[p].read
      /\ Computed(p)' = Computed(p)
  BY <1>1 DEF Keeps, Computed
<1>4. proc[p].command = "split" /\ proc'[p].pc = "refused" /\ p \notin disturbed' => Computed(p) = Error
  BY <1>1, RefusedForItsSource
<1> QED
  BY <1>2, <1>3, <1>4 DEF SplitOK

LEMMA SplitOKAfterStart == ASSUME Shape, NEW p \in Procs, Start(p) PROVE SplitOK(p)'
<1>1. /\ proc'[p].pc = "reading" /\ proc'[p].result = None /\ proc'[p].read = <<>>
  BY StartEffect DEF Shape
<1>2. proc'[p].command = "split" => proc'[p].args \in SplitConfigs
  <2>1. PICK c, a : a \in Arguments(c) /\ proc' = [proc EXCEPT ![p] = [Idle EXCEPT !.command = c, !.args = a, !.pc = "reading"]]
    BY DEF Start
  <2>2. proc'[p].command = c /\ proc'[p].args = a
    BY <2>1 DEF Shape, ProcShape, Idle
  <2> QED
    BY <2>1, <2>2 DEF Arguments
<1> QED
  BY <1>1, <1>2 DEF SplitOK, Holding, Splitting, Sweeping

(* The next of two sources.                                                *)
LEMMA NextOfTwo ==
    ASSUME NEW n \in Nat, NEW m, m = 2, n < m
    PROVE  n # 2 /\ n + 1 \in DOMAIN <<"source", "source">> /\ <<"source", "source">>[n + 1] = "source"
OBVIOUS

LEMMA SplitOKAfterRead == ASSUME Shape, SplitInv, NEW p \in Procs, Read(p) PROVE SplitOK(p)'
<1> DEFINE content == file[Plan(p)[Len(proc[p].read) + 1]]
<1>1. /\ proc'[p].command = proc[p].command /\ proc'[p].args = proc[p].args
      /\ \/ proc'[p].pc = "refused" /\ proc'[p].read = proc[p].read
         \/ /\ content \notin {Absent, Torn} /\ proc'[p].read = Append(proc[p].read, content)
            /\ proc'[p].pc \in {"computing", "reading"}
  BY ReadEffect DEF Shape
<1>2. proc[p].pc = "reading" /\ SplitOK(p) /\ ReadOK(p)
  BY DEF Read, At, Shape, SplitInv
<1>3. proc'[p].result = None /\ proc'[p].pc \notin Holding
  <2>1. proc[p].result = None
    BY <1>2 DEF SplitOK, Holding, Splitting, Sweeping
  <2>2. proc'[p].result = None
    <3>1. CASE Refuse(p)
      BY <3>1, GoKeeps DEF Refuse, Shape
    <3>2. CASE ~Refuse(p)
      BY <2>1, <3>2 DEF Read, Shape, ProcShape, FieldNames
    <3> QED
      BY <3>1, <3>2
  <2> QED
    BY <1>1, <2>2 DEF Holding, Splitting, Sweeping
<1>4. ASSUME proc[p].command = "split"
      PROVE  /\ proc'[p].args \in SplitConfigs
             /\ \A i \in DOMAIN proc'[p].read : proc'[p].read[i] \in Given("source") \ {Absent, Torn}
             /\ proc'[p].pc = "refused" => Len(proc'[p].read) # 2
  <2>1. Plan(p) = <<"source", "source">>
    BY <1>4 DEF Plan, ReadBy
  <2>2. PICK S : proc[p].read \in Seq(S)
    BY <1>2 DEF ReadOK
  <2>3. Len(proc[p].read) # 2 /\ <<"source", "source">>[Len(proc[p].read) + 1] = "source"
    <3>1. Len(proc[p].read) \in Nat
      BY <2>2
    <3>2. Len(Plan(p)) = 2
      BY <2>1
    <3>3. Len(proc[p].read) < Len(Plan(p))
      BY <1>2 DEF ReadOK
    <3> QED
      BY <3>1, <3>2, <3>3, NextOfTwo
  <2>4. content = file["source"]
    BY <2>1, <2>3, Zenon
  <2>5. proc[p].args \in SplitConfigs /\ \A i \in DOMAIN proc[p].read : proc[p].read[i] \in Given("source") \ {Absent, Torn}
    BY <1>2, <1>4 DEF SplitOK
  <2>6. CASE proc'[p].pc = "refused" /\ proc'[p].read = proc[p].read
    <3>1. proc'[p].args = proc[p].args
      BY <1>1
    <3>2. Len(proc'[p].read) # 2
      BY <2>3, <2>6, Zenon
    <3> QED
      BY <2>5, <2>6, <3>1, <3>2
  <2>7. CASE content \notin {Absent, Torn} /\ proc'[p].read = Append(proc[p].read, content) /\ proc'[p].pc # "refused"
    <3>1. content \in Given("source") \ {Absent, Torn}
      BY <2>4, <2>7 DEF SplitInv
    <3>2. \A i \in DOMAIN Append(proc[p].read, content) :
             \/ i \in DOMAIN proc[p].read /\ Append(proc[p].read, content)[i] = proc[p].read[i]
             \/ Append(proc[p].read, content)[i] = content
      <4> HIDE DEF content
      <4>1. proc[p].read \in Seq(S \cup {content})
        BY <2>2
      <4> QED
        BY <4>1
    <3> HIDE DEF content
    <3> QED
      BY <1>1, <2>5, <2>7, <3>1, <3>2
  <2> QED
    BY <1>1, <2>6, <2>7
<1> QED
  BY <1>1, <1>3, <1>4 DEF SplitOK

LEMMA SourceGiven ==
    ASSUME Shape, file["source"] \in Given("source") \cup {Absent}, [Next]_vars
    PROVE  file'["source"] \in Given("source") \cup {Absent}
<1>1. "source" \in Edited /\ "source" \in DOMAIN file
  BY FilesAssumption, OwnedAre DEF Shape, FilesShape
<1>2. ASSUME NEW p \in Procs, Work(p) PROVE file'["source"] = file["source"]
  BY <1>1, <1>2, WorkKeepsOwned DEF Shape
<1>3. CASE Edit
  <2>1. PICK f \in Edited : \E content \in Contents[f] : file' = [file EXCEPT ![f] = content]
    BY <1>3 DEF Edit
  <2>2. PICK content \in Contents[f] : file' = [file EXCEPT ![f] = content]
    BY <2>1
  <2>3. content \in Given(f)
    BY <2>2 DEF Given
  <2> QED
    BY <1>1, <2>2, <2>3
<1>4. ASSUME NEW p \in Procs, Start(p) \/ Read(p) PROVE file' = file
  BY <1>4 DEF Start, Read
<1>5. CASE UNCHANGED vars \/ Spoil
  BY <1>5 DEF vars, Spoil
<1> QED
  BY <1>2, <1>3, <1>4, <1>5 DEF Next, Work

LEMMA SplitStep ==
    ASSUME Shape, ResultsInv, ManifestInv, SplitInv, [Next]_vars
    PROVE  SplitInv'
<1> SUFFICES ASSUME NEW p \in Procs PROVE SplitOK(p)'
  BY SourceGiven DEF SplitInv
<1>1. SplitOK(p)
  BY DEF SplitInv
<1>2. CASE UNCHANGED vars \/ Spoil \/ Edit
  BY <1>1, <1>2, SplitOKKept DEF vars, Spoil, Edit
<1>3. ASSUME NEW q \in Procs, Start(q) PROVE SplitOK(p)'
  <2>1. CASE q = p
    BY <1>3, <2>1, SplitOKAfterStart
  <2>2. CASE q # p
    <3>1. proc'[p] = proc[p] /\ disturbed' = disturbed \ {q}
      BY <1>3, <2>2, StartEffect DEF Shape, Start
    <3> QED
      BY <1>1, <2>2, <3>1, SplitOKKept
  <2> QED
    BY <2>1, <2>2
<1>4. ASSUME NEW q \in Procs, Read(q) PROVE SplitOK(p)'
  <2>1. CASE q = p
    BY <1>4, <2>1, SplitOKAfterRead
  <2>2. CASE q # p
    <3>1. proc'[p] = proc[p] /\ disturbed' = disturbed
      BY <1>4, <2>2, ReadEffect DEF Shape, Read
    <3> QED
      BY <1>1, <3>1, SplitOKKept
  <2> QED
    BY <2>1, <2>2
<1>5. ASSUME NEW q \in Procs, Work(q) PROVE SplitOK(p)'
  <2>1. CASE q = p
    BY <1>1, <1>5, <2>1, SplitOKAfterWork
  <2>2. CASE q # p
    <3>1. proc'[p] = proc[p] /\ disturbed \subseteq disturbed'
      BY <1>5, <2>2, WorkKeeps, StaysDisturbed DEF Shape, Keeps, CountsOK
    <3> QED
      BY <1>1, <3>1, SplitOKKept
  <2> QED
    BY <2>1, <2>2
<1> QED
  BY <1>2, <1>3, <1>4, <1>5 DEF Next, Work

LEMMA SplitInit == ASSUME Init PROVE SplitInv
<1>1. PICK study \in Studies \cup {<<>>} :
          /\ file = [f \in Files |-> IF f \in DOMAIN study THEN study[f]
                                    ELSE IF f \in DOMAIN Original THEN Original[f] ELSE Absent]
          /\ proc = [p \in Procs |-> Idle]
  BY DEF Init
<1>2. "source" \in Files
  BY FilesAssumption, OwnedAre
<1>3. file["source"] = IF "source" \in DOMAIN study THEN study["source"]
                       ELSE IF "source" \in DOMAIN Original THEN Original["source"] ELSE Absent
  BY <1>1, <1>2
<1>4. study = <<>> => "source" \notin DOMAIN study
  OBVIOUS
<1>5. file["source"] \in Given("source") \cup {Absent}
  BY <1>3, <1>4 DEF Given
<1>6. ASSUME NEW p \in Procs PROVE SplitOK(p)
  <2>1. proc[p].pc = "idle" /\ proc[p].result = None /\ proc[p].command = "none"
    BY <1>1 DEF Idle
  <2> QED
    BY <2>1 DEF SplitOK
<1> QED
  BY <1>5, <1>6 DEF SplitInv

(* What splits have in hand, at every place of theirs.                     *)
THEOREM SplitInvariant == Spec => []SplitInv
<1>1. Init => SplitInv
  BY SplitInit
<1>2. Shape /\ ResultsInv /\ ManifestInv /\ SplitInv /\ [Next]_vars => SplitInv'
  BY SplitStep
<1> QED
  BY <1>1, <1>2, ShapeInvariant, ResultsInvariant, ManifestInvariant, PTL DEF Spec

(* Two sources that split alike are split as the first.                    *)
LEMMA SplitOfFirstSource ==
    ASSUME NEW first, NEW second, NEW config, SplitTwice(first, second, config) # Error
    PROVE  Loaded(first) # Error /\ SplitTwice(first, second, config) = Split(first, config)
<1> DEFINE parts == <<first, second>>
           loaded == [a \in DOMAIN parts |-> Loaded(parts[a])]
           splits == [i \in 1..2 |-> Split(loaded[i], config)]
<1>1. /\ ~(\E a \in DOMAIN loaded : loaded[a] = Error)
      /\ SplitTwice(first, second, config) = IF splits[1] = splits[2] THEN splits[1] ELSE Error
  BY DEF SplitTwice, OfLoaded
<1>2. DOMAIN loaded = 1..2 /\ loaded[1] = Loaded(first)
  OBVIOUS
<1>3. Loaded(first) # Error /\ Loaded(first) = first
  BY <1>1, <1>2, LoadedIsRead
<1>4. splits[1] = Split(first, config)
  BY <1>2, <1>3
<1> QED
  BY <1>1, <1>3, <1>4

(* A source that is read twice alike is split unless it is not legal.      *)
LEMMA SplitOfOneSource ==
    ASSUME NEW source, NEW config, Loaded(source) # Error
    PROVE  SplitTwice(source, source, config) = Split(source, config)
<1> DEFINE parts == <<source, source>>
           loaded == [a \in DOMAIN parts |-> Loaded(parts[a])]
           splits == [i \in 1..2 |-> Split(loaded[i], config)]
<1>1. DOMAIN loaded = 1..2 /\ loaded[1] = source /\ loaded[2] = source
  BY LoadedIsRead
<1>2. ~(\E a \in DOMAIN loaded : loaded[a] = Error)
  BY <1>1, LoadedIsRead
<1>3. SplitTwice(source, source, config) = IF splits[1] = splits[2] THEN splits[1] ELSE Error
  BY <1>2 DEF SplitTwice, OfLoaded
<1>4. splits[1] = Split(source, config) /\ splits[2] = Split(source, config)
  BY <1>1
<1> QED
  BY <1>3, <1>4

(* SplitAlwaysFits: however groups are sized and fractions chosen, a split *)
(* of a legal source is refused for no reason of its own, every partition  *)
(* gets some, groups stay whole, records keep their order and none is lost *)
(* (split_traces and write_trace_partitions).                              *)
THEOREM SplitsFit == Spec => []SplitAlwaysFits
<1>1. Shape /\ ResultsInv /\ SplitInv => SplitAlwaysFits
  <2> SUFFICES ASSUME Shape, ResultsInv, SplitInv, NEW p \in Procs, proc[p].command = "split"
               PROVE  LET read == proc[p].read
                          parts == proc[p].result
                      IN /\ At(p, "refused") /\ Len(read) = 2 /\ read[1] = read[2] /\ p \notin disturbed
                            => Loaded(read[1]) = Error \/ ~LegalSplit(read[1], proc[p].args)
                         /\ parts # None =>
                               /\ Apart(parts, proc[p].args.by)
                               /\ \A name \in Names :
                                     /\ parts[name] # <<>>
                                     /\ InOrderOf(parts[name], read[1])
                               /\ UNION {ToSet(parts[name]) : name \in Names} = ToSet(read[1])
    BY DEF SplitAlwaysFits, InOrderOf
  <2> DEFINE read == proc[p].read
             config == proc[p].args
             parts == Partitioned(read[1], config.by, Assign(read[1], config))
  <2>1. SplitOK(p) /\ ResultOK(p) /\ ReadOK(p)
    BY DEF SplitInv, ResultsInv, Shape
  <2>2. Computed(p) = SplitTwice(read[1], read[2], config)
    BY DEF Computed, ComputedOf
  <2>3. ASSUME Len(read) = 2, Loaded(read[1]) # Error, LegalSplit(read[1], config)
        PROVE  /\ Splittable(read[1], config) /\ Split(read[1], config) = parts /\ parts # Error
               /\ ValidPartitions(parts, config.by)
    <3>1. read[1] \in Given("source") \ {Absent, Torn} /\ config \in SplitConfigs
      <4>1. 1 \in DOMAIN read
        BY <2>1, <2>3 DEF ReadOK
      <4> QED
        BY <2>1, <4>1 DEF SplitOK
    <3>2. Splittable(read[1], config)
      BY <2>3, <3>1, ListsAssumption, FractionsAssumption, SourcesAssumption DEF Splittable
    <3>3. parts \in [Names -> Seq(ToSet(read[1]))] /\ ValidPartitions(parts, config.by)
      BY <3>2, SplitFits
    <3>4. parts # Error
      BY <3>1, <3>3, SourcesAssumption
    <3>5. Split(read[1], config) = IF ValidPartitions(parts, config.by) THEN parts ELSE Error
      BY <2>3 DEF Split
    <3> QED
      BY <3>2, <3>3, <3>4, <3>5
  <2>4. ASSUME At(p, "refused"), Len(read) = 2, read[1] = read[2], p \notin disturbed
        PROVE  Loaded(read[1]) = Error \/ ~LegalSplit(read[1], config)
    <3>1. SplitTwice(read[1], read[1], config) = Error
      BY <2>1, <2>2, <2>4 DEF SplitOK, At
    <3> QED
      BY <2>3, <2>4, <3>1, SplitOfOneSource
  <2>5. ASSUME proc[p].result # None
        PROVE  /\ Apart(proc[p].result, config.by)
               /\ \A name \in Names : proc[p].result[name] # <<>> /\ InOrderOf(proc[p].result[name], read[1])
               /\ UNION {ToSet(proc[p].result[name]) : name \in Names} = ToSet(read[1])
    <3>1. proc[p].pc \in Splitting \cup {"done"}
      BY <2>1, <2>5 DEF SplitOK, Holding, ResultOK
    <3>2. Holds(p) /\ Len(read) = 2
      <4>1. Len(Plan(p)) = 2
        BY DEF Plan, ReadBy
      <4> QED
        BY <2>1, <3>1, <4>1 DEF ResultOK, Computes, ReadOK, Later
    <3>3. Loaded(read[1]) # Error /\ proc[p].result = Split(read[1], config) /\ proc[p].result # Error
      BY <2>2, <3>2, SplitOfFirstSource DEF Holds
    <3>4. LegalSplit(read[1], config)
      BY <3>3 DEF Split
    <3>5. Splittable(read[1], config) /\ proc[p].result = parts /\ ValidPartitions(parts, config.by)
      BY <2>3, <3>2, <3>3, <3>4
    <3>6. /\ \A name \in Names : InOrderOf(parts[name], read[1])
          /\ UNION {ToSet(parts[name]) : name \in Names} = ToSet(read[1])
      BY <3>5, SplitFits
    <3> HIDE DEF parts
    <3> QED
      BY <3>5, <3>6 DEF ValidPartitions
  <2> QED
    BY <2>4, <2>5
<1> QED
  BY <1>1, ShapeInvariant, ResultsInvariant, SplitInvariant, PTL
-----------------------------------------------------------------------------
(* The nearest training vector.                                            *)

LEMMA BeforePair ==
    ASSUME NEW a \in Int, NEW b \in Int, NEW c \in Int, NEW d \in Int
    PROVE  Before(<<a, b>>, <<c, d>>) <=> a < c \/ (a = c /\ b < d)
<1>1. DOMAIN <<a, b>> = {1, 2}
  OBVIOUS
<1>2. 1 .. (1 - 1) = {} /\ 1 .. (2 - 1) = {1}
  OBVIOUS
<1> QED
  BY <1>1, <1>2 DEF Before

(* LeastOf finds a member of the least value: ties go by the identifier,   *)
(* so there always is a least one.                                         *)
LEMMA LeastOfPairs ==
    ASSUME NEW D \in SUBSET Nat, D # {}, NEW value, NEW low \in Int,
           \A x \in D : value[x] \in Int /\ low <= value[x],
           NEW key, \A x \in D : key[x] = <<value[x], x>>
    PROVE  /\ LeastOf(D, key) \in D
           /\ \A x \in D : value[LeastOf(D, key)] <= value[x]
<1> DEFINE offsets == {value[x] - low : x \in D}
<1>1. offsets \in SUBSET Nat /\ offsets # {}
  <2>1. \A x \in D : value[x] - low \in Nat
    OBVIOUS
  <2> QED
    BY <2>1
<1>2. PICK x \in D : \A y \in D : value[x] <= value[y]
  <2>1. PICK least \in offsets : \A other \in offsets : least <= other
    BY <1>1, LeastNatural
  <2>2. PICK x \in D : least = value[x] - low
    BY <2>1
  <2>3. ASSUME NEW y \in D PROVE value[x] <= value[y]
    <3>1. value[x] - low <= value[y] - low
      BY <2>1, <2>2
    <3> QED
      BY <3>1
  <2> QED
    BY <2>3
<1>3. PICK first \in {y \in D : value[y] = value[x]} : \A y \in {z \in D : value[z] = value[x]} : first <= y
  <2>1. {y \in D : value[y] = value[x]} \in SUBSET Nat /\ x \in {y \in D : value[y] = value[x]}
    BY <1>2
  <2> QED
    BY <2>1, LeastNatural
<1>4. ~\E y \in D : Before(key[y], key[first])
  <2> SUFFICES ASSUME NEW y \in D, Before(key[y], key[first]) PROVE FALSE
    OBVIOUS
  <2>1. value[y] < value[first] \/ (value[y] = value[first] /\ y < first)
    BY <1>3, BeforePair
  <2>2. value[first] = value[x] /\ value[x] <= value[y] /\ (value[y] = value[x] => first <= y)
    BY <1>2, <1>3
  <2>3. y \in Nat /\ first \in Nat /\ value[y] \in Int /\ value[x] \in Int
    BY <1>2, <1>3
  <2> QED
    BY <2>1, <2>2, <2>3
<1>5. LeastOf(D, key) \in D /\ ~\E y \in D : Before(key[y], key[LeastOf(D, key)])
  <2>1. \E z \in D : ~\E y \in D : Before(key[y], key[z])
    BY <1>3, <1>4
  <2> QED
    BY <2>1 DEF LeastOf
<1>6. ASSUME NEW least, least = LeastOf(D, key), NEW y \in D PROVE value[least] <= value[y]
  <2>1. least \in D /\ ~Before(key[y], key[least])
    BY <1>5, <1>6
  <2>2. /\ value[y] \in Int /\ value[least] \in Int /\ y \in Int /\ least \in Int
        /\ key[y] = <<value[y], y>> /\ key[least] = <<value[least], least>>
    BY <2>1
  <2>3. ~(value[y] < value[least])
    BY <2>1, <2>2, BeforePair
  <2> QED
    BY <2>2, <2>3
<1> QED
  BY <1>5, <1>6

LEMMA SimilarityIn == ASSUME NEW a \in 0..Unit, NEW b \in 0..Unit PROVE Similarity(a, b) \in 0..Unit
BY ExperimentsAssumption DEF Similarity

LEMMA NearestIsNearest ==
    ASSUME NEW training, IsVectors(training), NEW vector \in 0..Unit
    PROVE  /\ Nearest(vector, training) \in DOMAIN training
           /\ \A id \in DOMAIN training :
                 Similarity(vector, training[id]) <= Similarity(vector, training[Nearest(vector, training)])
<1> DEFINE D == DOMAIN training
           value == [id \in D |-> -Similarity(vector, training[id])]
           key == [id \in D |-> <<-Similarity(vector, training[id]), id>>]
<1>1. Nearest(vector, training) = LeastOf(D, key)
  BY DEF Nearest, Least
<1>2. \A id \in D : Similarity(vector, training[id]) \in 0..Unit
  BY SimilarityIn DEF IsVectors
<1>3. /\ D \in SUBSET Nat /\ D # {} /\ -Unit \in Int
      /\ \A x \in D : value[x] \in Int /\ -Unit <= value[x]
      /\ \A x \in D : key[x] = <<value[x], x>>
  BY <1>2, ExperimentsAssumption DEF IsVectors
<1> HIDE DEF value, key
<1>4. LeastOf(D, key) \in D /\ \A x \in D : value[LeastOf(D, key)] <= value[x]
  BY <1>3, LeastOfPairs
<1>5. ASSUME NEW id \in D
      PROVE  Similarity(vector, training[id]) <= Similarity(vector, training[LeastOf(D, key)])
  <2>1. value[LeastOf(D, key)] <= value[id]
    BY <1>4
  <2>2. -Similarity(vector, training[LeastOf(D, key)]) <= -Similarity(vector, training[id])
    BY <1>4, <2>1 DEF value
  <2> QED
    BY <1>2, <1>4, <2>2
<1> QED
  BY <1>1, <1>4, <1>5

LEMMA PlannedOf ==
    ASSUME NEW examples, NEW training, NEW evaluation, NEW again, NEW cutoff, NEW plan,
           plan = Planned(examples, training, evaluation, again, cutoff), plan # Error
    PROVE  /\ again = evaluation /\ DOMAIN again = Ids(examples)
           /\ plan.prompts =
                 {examples[i].prompt :
                     i \in {j \in DOMAIN examples : examples[j].id \in Hits(training, evaluation, cutoff)}}
<1> DEFINE hits == Hits(training, evaluation, cutoff)
           out == {examples[i].prompt : i \in {j \in DOMAIN examples : examples[j].id \in hits}}
           excluded == Len(SelectSeq(examples, LAMBDA e : e.prompt \in out))
<1>1. plan = IF ~SameSnapshot(again, evaluation) \/ DOMAIN again # Ids(examples) THEN Error
             ELSE [prompts |-> out, hits |-> Cardinality(hits), excluded |-> excluded]
  BY DEF Planned
<1> HIDE DEF hits, out, excluded
<1>2. SameSnapshot(again, evaluation) /\ DOMAIN again = Ids(examples) /\ plan.prompts = out
  BY <1>1
<1> QED
  BY <1>2 DEF SameSnapshot, out, hits

(* The audit's hits are the evaluation vectors near to any training vector.*)
LEMMA HitsAreNear ==
    ASSUME NEW training, IsVectors(training), NEW evaluation, IsVectors(evaluation), NEW id
    PROVE  id \in Hits(training, evaluation, Cutoff) <=>
              /\ id \in DOMAIN evaluation
              /\ \E other \in DOMAIN training : Similarity(evaluation[id], training[other]) >= Cutoff
<1>1. CASE id \notin DOMAIN evaluation
  BY <1>1 DEF Hits
<1>2. CASE id \in DOMAIN evaluation
  <2> DEFINE nearest == Nearest(evaluation[id], training)
  <2>1. evaluation[id] \in 0..Unit
    BY <1>2 DEF IsVectors
  <2>2. /\ nearest \in DOMAIN training
        /\ \A other \in DOMAIN training :
              Similarity(evaluation[id], training[other]) <= Similarity(evaluation[id], training[nearest])
    BY <2>1, NearestIsNearest
  <2>3. ASSUME NEW other \in DOMAIN training PROVE Similarity(evaluation[id], training[other]) \in Int
    <3>1. training[other] \in 0..Unit
      BY <2>3 DEF IsVectors
    <3>2. Similarity(evaluation[id], training[other]) \in 0..Unit
      BY <2>1, <3>1, SimilarityIn
    <3> QED
      BY <3>2, ExperimentsAssumption
  <2>4. id \in Hits(training, evaluation, Cutoff) <=> Similarity(evaluation[id], training[nearest]) >= Cutoff
    BY <1>2 DEF Hits
  <2> HIDE DEF nearest
  <2> QED
    BY <1>2, <2>2, <2>3, <2>4, CutoffAssumption
<1> QED
  BY <1>1, <1>2

(* ExclusionsOfOneSnapshot: plan_contamination_exclusions leaves out the   *)
(* prompts of just the examples near to some training vector, all in one   *)
(* state of the evaluation embeddings, whatever replaces them meanwhile.   *)
THEOREM ExclusionsFromOneSnapshot == Spec => []ExclusionsOfOneSnapshot
<1>1. ASSUME Shape, ResultsInv, NEW p \in Done("exclude")
      PROVE  LET examples == proc[p].read[1]
                 near(e) == \E id \in DOMAIN proc[p].read[2] :
                               Similarity(proc[p].read[4][e.id], proc[p].read[2][id]) >= Cutoff
             IN /\ DOMAIN proc[p].read[4] = Ids(examples)
                /\ proc[p].result.prompts =
                      {examples[i].prompt : i \in {j \in DOMAIN examples : near(examples[j])}}
  <2> DEFINE read == proc[p].read
             examples == read[1]
             hits == Hits(read[2], read[3], Cutoff)
  <2>1. p \in Procs /\ proc[p].pc = "done" /\ proc[p].command = "exclude"
    BY <1>1 DEF Done, At
  <2>2. Holds(p) /\ ReadOK(p)
    BY <1>1, <2>1 DEF ResultsInv, ResultOK, Computes, Shape
  <2>3. Len(read) = 4
    <3>1. Len(read) = Len(Plan(p)) /\ Plan(p) = <<"examples", "training", "evaluation", "evaluation">>
      BY <2>1, <2>2, PlanLength DEF ReadOK, Later, Plan
    <3> QED
      BY <3>1
  <2>4. IsVectors(read[2]) /\ IsVectors(read[3])
    <3>1. \A i \in 2 .. Len(read) : IsVectors(read[i])
      BY <2>1, <2>2 DEF ReadOK
    <3> QED
      BY <2>3, <3>1
  <2>5. proc[p].result = Planned(examples, read[2], read[3], read[4], Cutoff) /\ proc[p].result # Error
    BY <2>1, <2>2 DEF Holds, Computed, ComputedOf
  <2>6. /\ read[4] = read[3] /\ DOMAIN read[4] = Ids(examples)
        /\ proc[p].result.prompts =
              {examples[i].prompt : i \in {j \in DOMAIN examples : examples[j].id \in hits}}
    BY <2>5, PlannedOf
  <2>7. ASSUME NEW j \in DOMAIN examples
        PROVE  examples[j].id \in hits <=>
                  \E id \in DOMAIN read[2] : Similarity(read[4][examples[j].id], read[2][id]) >= Cutoff
    <3>1. examples[j].id \in DOMAIN read[3]
      BY <2>6, <2>7 DEF Ids
    <3> QED
      BY <2>4, <2>6, <3>1, HitsAreNear
  <2> HIDE DEF hits, examples, read
  <2>8. {j \in DOMAIN examples : examples[j].id \in hits} =
           {j \in DOMAIN examples :
               \E id \in DOMAIN read[2] : Similarity(read[4][examples[j].id], read[2][id]) >= Cutoff}
    BY <2>7
  <2> QED
    BY <2>6, <2>8 DEF read, examples
<1>2. Shape /\ ResultsInv => ExclusionsOfOneSnapshot
  BY <1>1 DEF ExclusionsOfOneSnapshot
<1> QED
  BY <1>2, ShapeInvariant, ResultsInvariant, PTL
-----------------------------------------------------------------------------
(* Sums of lists.                                                          *)

(* What holds of 0, and of every number if of the one before, holds of n.  *)
LEMMA CountUp ==
    ASSUME NEW n \in Nat, NEW B, 0 \in B, \A k \in 1..n : k - 1 \in B => k \in B
    PROVE  n \in B
<1> DEFINE T == {k \in 0..n : k \notin B}
<1> SUFFICES ASSUME n \notin B PROVE FALSE
  OBVIOUS
<1>1. T \in SUBSET Nat /\ n \in T
  OBVIOUS
<1>2. PICK k \in T : \A j \in T : k <= j
  BY <1>1, LeastNatural
<1>3. k \in 1..n /\ k \notin B
  OBVIOUS
<1>4. k - 1 \in 0..n /\ ~(k <= k - 1)
  BY <1>3
<1> QED
  BY <1>2, <1>3, <1>4

Numbers(n) == [1..n -> Int]

(* The running sums of a list of integers end in its sum.                  *)
Runs(list, n, u) == u \in [0..n -> Int] /\ u[0] = 0 /\ \A k \in 1..n : u[k] = u[k - 1] + list[k]

LEMMA SumRuns ==
    ASSUME NEW n \in Nat, NEW list \in Numbers(n)
    PROVE  \E u : Runs(list, n, u) /\ SumOf(list) = u[n]
<1> DEFINE solves(u) == u = [k \in 0..n |-> IF k = 0 THEN 0 ELSE u[k - 1] + list[k]]
           B == {k \in 0..n : \E u : Runs(list, k, u)}
<1>1. list \in [1..n -> Int]
  BY DEF Numbers
<1>2. Len(list) = n
  BY <1>1, LenProperties
<1>3. SumOf(list) = (CHOOSE u : solves(u))[n]
  BY <1>2 DEF SumOf
<1>4. n \in B
  <2>1. Runs(list, 0, [k \in 0..0 |-> 0])
    BY DEF Runs
  <2>2. 0 \in B
    BY <2>1
  <2>3. ASSUME NEW k \in 1..n, k - 1 \in B PROVE k \in B
    <3>1. PICK u : Runs(list, k - 1, u)
      BY <2>3
    <3> DEFINE v == [j \in 0..k |-> IF j = k THEN u[k - 1] + list[k] ELSE u[j]]
    <3>2. u[k - 1] \in Int /\ list[k] \in Int
      BY <1>1, <3>1 DEF Runs
    <3>3. v \in [0..k -> Int] /\ v[0] = 0
      BY <3>1, <3>2 DEF Runs
    <3>4. ASSUME NEW j \in 1..k PROVE v[j] = v[j - 1] + list[j]
      <4>1. CASE j = k
        BY <4>1
      <4>2. CASE j # k
        <5>1. j \in 1 .. (k - 1) /\ j - 1 # k /\ j - 1 \in 0..k
          BY <4>2
        <5> QED
          BY <3>1, <4>2, <5>1 DEF Runs
      <4> QED
        BY <4>1, <4>2
    <3>5. Runs(list, k, v)
      BY <3>3, <3>4 DEF Runs
    <3> QED
      BY <3>5
  <2> HIDE DEF B
  <2> QED
    BY <2>2, <2>3, CountUp
<1>5. PICK u : Runs(list, n, u)
  BY <1>4
<1>6. solves(u)
  <2>1. u = [k \in 0..n |-> u[k]]
    BY <1>5 DEF Runs
  <2>2. ASSUME NEW k \in 0..n PROVE u[k] = IF k = 0 THEN 0 ELSE u[k - 1] + list[k]
    BY <1>5 DEF Runs
  <2> QED
    BY <2>1, <2>2
<1>7. PICK v : solves(v) /\ SumOf(list) = v[n]
  <2>1. solves(CHOOSE w : solves(w))
    BY <1>6
  <2> QED
    BY <1>3, <2>1
<1>8. v[n] = u[n]
  <2> DEFINE C == {k \in 0..n : v[k] = u[k]}
  <2>1. \A k \in 0..n : v[k] = IF k = 0 THEN 0 ELSE v[k - 1] + list[k]
    BY <1>7
  <2>2. 0 \in C
    BY <1>5, <2>1 DEF Runs
  <2>3. ASSUME NEW k \in 1..n, k - 1 \in C PROVE k \in C
    BY <1>5, <2>1, <2>3 DEF Runs
  <2>4. n \in C
    <3> HIDE DEF C
    <3> QED
      BY <2>2, <2>3, CountUp
  <2> QED
    BY <2>4
<1> QED
  BY <1>5, <1>7, <1>8

(* Sums of lists add up place by place.                                    *)
LEMMA SumAdds ==
    ASSUME NEW n \in Nat, NEW r \in Numbers(n), NEW s \in Numbers(n), NEW t \in Numbers(n),
           \A k \in 1..n : r[k] = s[k] + t[k]
    PROVE  SumOf(r) = SumOf(s) + SumOf(t)
<1>1. PICK u : Runs(r, n, u) /\ SumOf(r) = u[n]
  BY SumRuns
<1>2. PICK v : Runs(s, n, v) /\ SumOf(s) = v[n]
  BY SumRuns
<1>3. PICK w : Runs(t, n, w) /\ SumOf(t) = w[n]
  BY SumRuns
<1> DEFINE B == {k \in 0..n : u[k] = v[k] + w[k]}
<1>4. 0 \in B
  BY <1>1, <1>2, <1>3 DEF Runs
<1>5. ASSUME NEW k \in 1..n, k - 1 \in B PROVE k \in B
  <2>1. u[k] = u[k - 1] + r[k] /\ v[k] = v[k - 1] + s[k] /\ w[k] = w[k - 1] + t[k]
    BY <1>1, <1>2, <1>3 DEF Runs
  <2>2. k - 1 \in 0..n
    OBVIOUS
  <2>3. v[k - 1] \in Int /\ w[k - 1] \in Int /\ s[k] \in Int /\ t[k] \in Int
    BY <1>2, <1>3, <2>2 DEF Runs, Numbers
  <2> QED
    BY <1>5, <2>1, <2>3
<1>6. n \in B
  <2> HIDE DEF B
  <2> QED
    BY <1>4, <1>5, CountUp
<1> QED
  BY <1>1, <1>2, <1>3, <1>6

(* A list that is nowhere larger has no larger sum.                        *)
LEMMA SumGrows ==
    ASSUME NEW n \in Nat, NEW s \in Numbers(n), NEW t \in Numbers(n), \A k \in 1..n : s[k] <= t[k]
    PROVE  SumOf(s) <= SumOf(t)
<1>1. PICK v : Runs(s, n, v) /\ SumOf(s) = v[n]
  BY SumRuns
<1>2. PICK w : Runs(t, n, w) /\ SumOf(t) = w[n]
  BY SumRuns
<1> DEFINE B == {k \in 0..n : v[k] <= w[k]}
<1>3. 0 \in B
  BY <1>1, <1>2 DEF Runs
<1>4. ASSUME NEW k \in 1..n, k - 1 \in B PROVE k \in B
  <2>1. v[k] = v[k - 1] + s[k] /\ w[k] = w[k - 1] + t[k]
    BY <1>1, <1>2 DEF Runs
  <2>2. k - 1 \in 0..n
    OBVIOUS
  <2>3. v[k - 1] \in Int /\ w[k - 1] \in Int /\ s[k] \in Int /\ t[k] \in Int
    BY <1>1, <1>2, <2>2 DEF Runs, Numbers
  <2> QED
    BY <1>4, <2>1, <2>3
<1>5. n \in B
  <2> HIDE DEF B
  <2> QED
    BY <1>3, <1>4, CountUp
<1> QED
  BY <1>1, <1>2, <1>5

LEMMA SumTyped ==
    ASSUME NEW n \in Nat, NEW s \in Numbers(n)
    PROVE  SumOf(s) \in Int
<1>1. \E u : Runs(s, n, u) /\ SumOf(s) = u[n]
  BY SumRuns
<1> QED
  BY <1>1 DEF Runs

(* The same number at some places, and 0 elsewhere.                        *)
LEMMA SumOfMarks ==
    ASSUME NEW n \in Nat, NEW places \in SUBSET (1..n), NEW m \in Int,
           NEW s \in Numbers(n), \A k \in 1..n : s[k] = IF k \in places THEN m ELSE 0
    PROVE  SumOf(s) = Cardinality(places) * m /\ Cardinality(places) \in Nat
<1>1. PICK u : Runs(s, n, u) /\ SumOf(s) = u[n]
  BY SumRuns
<1> DEFINE before == [k \in 0..n |-> {j \in places : j <= k}]
           times == [c \in Nat |-> c * m]
           B == {k \in 0..n : IsFiniteSet(before[k]) /\ u[k] = times[Cardinality(before[k])]}
<1>2. \A k \in 0..n : \A j : j \in before[k] <=> j \in places /\ j \in 1..n /\ j <= k
  OBVIOUS
<1>3. \A c \in Nat : times[c] = c * m
  OBVIOUS
<1>4. times[0] = 0 /\ \A c \in Nat : times[c + 1] = times[c] + m /\ times[c] \in Int
  OBVIOUS
<1> HIDE DEF before, times
<1>5. 0 \in B
  <2>1. before[0] = {}
    BY <1>2
  <2>2. IsFiniteSet({}) /\ Cardinality({}) = 0
    BY FS_EmptySet
  <2>3. u[0] = 0
    BY <1>1 DEF Runs
  <2>4. IsFiniteSet(before[0]) /\ Cardinality(before[0]) = 0
    BY <2>1, <2>2, Zenon
  <2> QED
    BY <1>4, <2>3, <2>4
<1>6. ASSUME NEW k \in 1..n, k - 1 \in B PROVE k \in B
  <2>1. u[k] = u[k - 1] + s[k] /\ k - 1 \in 0..n /\ k \in 0..n
    BY <1>1 DEF Runs
  <2>2. u[k - 1] = times[Cardinality(before[k - 1])] /\ IsFiniteSet(before[k - 1])
    BY <1>6
  <2>3. PICK c \in Nat : c = Cardinality(before[k - 1])
    BY <2>2, FS_CardinalityType
  <2>4. \A j \in 1..n : j <= k <=> j <= k - 1 \/ j = k
    OBVIOUS
  <2>5. CASE k \in places
    <3>1. before[k] = before[k - 1] \cup {k} /\ k \notin before[k - 1]
      BY <1>2, <2>1, <2>4, <2>5
    <3>2. IsFiniteSet(before[k - 1] \cup {k})
          /\ Cardinality(before[k - 1] \cup {k}) = Cardinality(before[k - 1]) + 1
      BY <2>2, <3>1, FS_AddElement
    <3>3. s[k] = m
      BY <2>5
    <3> QED
      BY <1>4, <2>1, <2>2, <2>3, <3>1, <3>2, <3>3
  <2>6. CASE k \notin places
    <3>1. before[k] \subseteq before[k - 1] /\ before[k - 1] \subseteq before[k]
      BY <1>2, <2>1, <2>4, <2>6
    <3>2. before[k] = before[k - 1]
      BY <3>1
    <3>3. s[k] = 0
      BY <2>6
    <3>4. IsFiniteSet(before[k]) /\ Cardinality(before[k]) = c
      BY <2>2, <2>3, <3>2, Zenon
    <3> QED
      BY <1>4, <2>1, <2>2, <2>3, <3>3, <3>4
  <2> QED
    BY <2>5, <2>6
<1>7. n \in B
  <2> HIDE DEF B
  <2> QED
    BY <1>5, <1>6, CountUp
<1>8. before[n] = places
  <2>1. before[n] \subseteq places /\ places \subseteq before[n]
    <3>1. \A j \in places : j \in 1..n /\ j <= n
      OBVIOUS
    <3>2. n \in 0..n
      OBVIOUS
    <3> QED
      BY <1>2, <3>1, <3>2
  <2> QED
    BY <2>1
<1> QED
  BY <1>1, <1>7, <1>8, <1>3, FS_CardinalityType

LEMMA SumOfNone ==
    ASSUME NEW n \in Nat, NEW s \in Numbers(n), \A k \in 1..n : s[k] = 0
    PROVE  SumOf(s) = 0
<1>1. {} \in SUBSET (1..n) /\ \A k \in 1..n : s[k] = IF k \in {} THEN 0 ELSE 0
  OBVIOUS
<1>2. SumOf(s) = Cardinality({}) * 0
  BY <1>1, SumOfMarks
<1> QED
  BY <1>2, FS_EmptySet

LEMMA SumOfOne ==
    ASSUME NEW n \in Nat, NEW x \in 1..n, NEW m \in Int,
           NEW s \in Numbers(n), \A k \in 1..n : s[k] = IF k = x THEN m ELSE 0
    PROVE  SumOf(s) = m
<1>1. {x} \in SUBSET (1..n) /\ \A k \in 1..n : s[k] = IF k \in {x} THEN m ELSE 0
  OBVIOUS
<1>2. SumOf(s) = Cardinality({x}) * m
  BY <1>1, SumOfMarks
<1>3. Cardinality({x}) = 1
  BY FS_Singleton
<1> QED
  BY <1>2, <1>3

(* Numbers picked one by one from different places.                        *)
Picks(order, c, n) ==
    /\ order \in [1..c -> 1..n]
    /\ \A i, j \in 1..c : i < j => order[i] # order[j]

Spreads(f, n, list, order, m) ==
    /\ f \in Numbers(n)
    /\ \A i \in 1..n : f[i] = IF \E k \in 1..m : order[k] = i THEN list[i] ELSE 0

LEMMA SpreadsOneMore ==
    ASSUME NEW n \in Nat, NEW list \in Numbers(n), NEW c \in Nat, NEW order, Picks(order, c, n),
           NEW m \in 1..c, NEW f, Spreads(f, n, list, order, m),
           NEW g, Spreads(g, n, list, order, m - 1)
    PROVE  SumOf(f) = SumOf(g) + list[order[m]]
<1> DEFINE x == order[m]
           h == [i \in 1..n |-> IF i = x THEN list[x] ELSE 0]
<1>1. x \in 1..n /\ list[x] \in Int
  BY DEF Picks, Numbers
<1>2. h \in Numbers(n) /\ \A i \in 1..n : h[i] = IF i = x THEN list[x] ELSE 0
  BY <1>1 DEF Numbers
<1>3. ASSUME NEW i \in 1..n PROVE f[i] = g[i] + h[i]
  <2>1. (\E k \in 1..m : order[k] = i) <=> i = x \/ \E k \in 1..(m - 1) : order[k] = i
    <3>1. \A k \in 1..m : k = m \/ k \in 1..(m - 1)
      OBVIOUS
    <3>2. \A k \in 1..(m - 1) : k \in 1..m
      OBVIOUS
    <3> QED
      BY <3>1, <3>2
  <2>2. i = x => ~\E k \in 1..(m - 1) : order[k] = i
    BY DEF Picks
  <2>3. list[i] \in Int
    BY DEF Numbers
  <2> HIDE DEF x
  <2> QED
    BY <1>2, <2>1, <2>2, <2>3 DEF Spreads
<1> HIDE DEF h, x
<1>4. SumOf(h) = list[x]
  BY <1>1, <1>2, SumOfOne
<1>5. SumOf(f) = SumOf(g) + SumOf(h)
  <2>1. f \in Numbers(n) /\ g \in Numbers(n)
    BY DEF Spreads
  <2> QED
    BY <1>2, <1>3, <2>1, SumAdds
<1> QED
  BY <1>4, <1>5 DEF x

LEMMA SumOfPicked ==
    ASSUME NEW n \in Nat, NEW list \in Numbers(n), NEW c \in Nat, NEW order, Picks(order, c, n),
           NEW picked \in Numbers(c), \A k \in 1..c : picked[k] = list[order[k]],
           NEW spread, Spreads(spread, n, list, order, c)
    PROVE  SumOf(picked) = SumOf(spread)
<1>1. PICK u : Runs(picked, c, u) /\ SumOf(picked) = u[c]
  BY SumRuns
<1> DEFINE B == {m \in 0..c : \A f : Spreads(f, n, list, order, m) => SumOf(f) = u[m]}
<1>2. 0 \in B
  <2>1. ASSUME NEW f, Spreads(f, n, list, order, 0) PROVE SumOf(f) = u[0]
    <3>1. f \in Numbers(n) /\ \A i \in 1..n : f[i] = 0
      BY <2>1 DEF Spreads
    <3>2. SumOf(f) = 0
      BY <3>1, SumOfNone
    <3> QED
      BY <1>1, <3>2 DEF Runs
  <2> QED
    BY <2>1
<1>3. ASSUME NEW m \in 1..c, m - 1 \in B PROVE m \in B
  <2>1. ASSUME NEW f, Spreads(f, n, list, order, m) PROVE SumOf(f) = u[m]
    <3> DEFINE g == [i \in 1..n |-> IF \E k \in 1..(m - 1) : order[k] = i THEN list[i] ELSE 0]
    <3>1. Spreads(g, n, list, order, m - 1)
      BY DEF Spreads, Numbers
    <3> HIDE DEF g
    <3>2. SumOf(f) = SumOf(g) + list[order[m]]
      BY <2>1, <3>1, SpreadsOneMore
    <3>3. SumOf(g) = u[m - 1]
      BY <1>3, <3>1
    <3>4. u[m] = u[m - 1] + picked[m]
      BY <1>1 DEF Runs
    <3> QED
      BY <3>2, <3>3, <3>4
  <2> QED
    BY <2>1
<1>4. c \in B
  <2> HIDE DEF B
  <2> QED
    BY <1>2, <1>3, CountUp
<1> QED
  BY <1>1, <1>4

(* The places of numbers, largest first.                                   *)
LEMMA LargestFirstLists ==
    ASSUME NEW n \in Nat, NEW list \in Numbers(n), NEW order, order = LargestFirst(list)
    PROVE  /\ Picks(order, n, n)
           /\ \A x \in 1..n : \E k \in 1..n : order[k] = x
           /\ \A i, j \in 1..n : i < j => list[order[i]] >= list[order[j]]
<1> DEFINE S == 1..n
           before(j, i) == list[j] > list[i] \/ (list[j] = list[i] /\ j < i)
           ahead == [i \in S |-> {j \in S : before(j, i)}]
<1>1. DOMAIN list = S /\ \A i \in S : list[i] \in Int
  BY DEF Numbers
<1>2. IsFiniteSet(S) /\ Cardinality(S) = n
  <2>1. IsFiniteSet(1..n) /\ Cardinality(1..n) = IF 1 > n THEN 0 ELSE n - 1 + 1
    BY FS_Interval
  <2> QED
    BY <2>1
<1>3. order = Ordered(S, ahead)
  BY <1>1 DEF LargestFirst
<1>4. ahead \in [S -> SUBSET S] /\ \A x, y \in S : x \in ahead[y] <=> before(x, y)
  OBVIOUS
<1>5. /\ \A x \in S : ~before(x, x)
      /\ \A x, y, z \in S : before(z, x) /\ before(x, y) => before(z, y)
      /\ \A x, y \in S : x # y => before(x, y) \/ before(y, x)
      /\ \A x, y \in S : before(x, y) => list[x] >= list[y]
  BY <1>1
<1> HIDE DEF before, ahead, S
<1>6. \A x \in S : x \notin ahead[x]
  BY <1>4, <1>5
<1>7. ASSUME NEW x \in S, NEW y \in S, x \in ahead[y] PROVE ahead[x] \subseteq ahead[y]
  BY <1>4, <1>5, <1>7
<1>8. \A x, y \in S : x # y => x \in ahead[y] \/ y \in ahead[x]
  BY <1>4, <1>5
<1>9. /\ order \in [1..n -> S]
      /\ \A x \in S : \E k \in 1..n : order[k] = x
      /\ \A i, j \in 1..n : i < j => order[i] # order[j] /\ order[i] \in ahead[order[j]]
  BY <1>2, <1>3, <1>4, <1>6, <1>7, <1>8, OrderedLists
<1>10. ASSUME NEW i \in 1..n, NEW j \in 1..n, i < j PROVE list[order[i]] >= list[order[j]]
  <2>1. order[i] \in S /\ order[j] \in S /\ order[i] \in ahead[order[j]]
    BY <1>9, <1>10
  <2> QED
    BY <1>4, <1>5, <2>1
<1> QED
  BY <1>9, <1>10 DEF Picks, S

(* The first c of the places.                                              *)
FirstOf(order, c) == [k \in 1..c |-> order[k]]
TakenBy(order, c) == {order[k] : k \in 1..c}

LEMMA FirstPlaces ==
    ASSUME NEW n \in Nat, NEW order, Picks(order, n, n), NEW c \in 0..n,
           NEW first, first = FirstOf(order, c), NEW G, G = TakenBy(order, c)
    PROVE  Picks(first, c, n) /\ IsFiniteSet(G) /\ Cardinality(G) = c /\ G \subseteq 1..n
<1>0. first = [k \in 1..c |-> order[k]] /\ G = {order[k] : k \in 1..c}
  BY DEF FirstOf, TakenBy
<1>1. c \in Nat /\ \A k \in 1..c : k \in 1..n /\ first[k] = order[k] /\ order[k] \in 1..n
  BY <1>0 DEF Picks
<1>2. \A i, j \in 1..c : i < j => first[i] # first[j]
  BY <1>1 DEF Picks
<1>3. first \in [1..c -> 1..n] /\ first \in [1..c -> G]
  BY <1>0, <1>1
<1>4. first \in Bijection(1..c, G)
  <2>1. \A i, j \in 1..c : first[i] = first[j] => i = j
    <3>1. \A i, j \in 1..c : i < j \/ j < i \/ i = j
      OBVIOUS
    <3> QED
      BY <1>2, <3>1
  <2>2. \A x \in G : \E k \in 1..c : first[k] = x
    BY <1>0
  <2> QED
    BY <1>3, <2>1, <2>2 DEF Bijection, Injection, Surjection, IsInjective
<1>5. IsFiniteSet(1..c) /\ Cardinality(1..c) = c
  <2>1. IsFiniteSet(1..c) /\ Cardinality(1..c) = IF 1 > c THEN 0 ELSE c - 1 + 1
    BY <1>1, FS_Interval
  <2> QED
    BY <1>1, <2>1
<1>6. IsFiniteSet(G) /\ Cardinality(G) = c
  <2>1. ExistsBijection(1..c, G)
    BY <1>4 DEF ExistsBijection
  <2> QED
    BY <1>5, <2>1, FS_Bijection, FS_CountingElements
<1>7. G \subseteq 1..n
  BY <1>0, <1>1
<1>8. Picks(first, c, n)
  <2> QED
    BY <1>2, <1>3 DEF Picks
<1> QED
  BY <1>6, <1>7, <1>8

(* Only what is at some places counts.                                     *)
OnlyAt(f, n, list, places) ==
    f \in Numbers(n) /\ \A i \in 1..n : f[i] = IF i \in places THEN list[i] ELSE 0

(* What LargestSum adds up: so many numbers, none below a level that none  *)
(* of the others is above.                                                 *)
LEMMA LargestPlaces ==
    ASSUME NEW n \in Nat, NEW gains \in Numbers(n), NEW calls \in 0..n
    PROVE  \E G \in SUBSET (1..n) :
              /\ IsFiniteSet(G) /\ Cardinality(G) = calls
              /\ \A f : OnlyAt(f, n, gains, G) => SumOf(f) = LargestSum(gains, calls)
              /\ calls # 0 => \E x \in 1..n : /\ \A i \in G : gains[i] >= gains[x]
                                              /\ \A i \in (1..n) \ G : gains[i] <= gains[x]
<1>1. PICK order : order = LargestFirst(gains)
  OBVIOUS
<1>2. /\ Picks(order, n, n)
      /\ \A x \in 1..n : \E k \in 1..n : order[k] = x
      /\ \A i, j \in 1..n : i < j => gains[order[i]] >= gains[order[j]]
  BY <1>1, LargestFirstLists
<1>3. PICK first, G : first = FirstOf(order, calls) /\ G = TakenBy(order, calls)
  OBVIOUS
<1>4. first = [k \in 1..calls |-> order[k]] /\ G = {order[k] : k \in 1..calls}
  BY <1>3 DEF FirstOf, TakenBy
<1> DEFINE picked == [k \in 1..calls |-> gains[order[k]]]
<1>5. Picks(first, calls, n) /\ IsFiniteSet(G) /\ Cardinality(G) = calls /\ G \subseteq 1..n
  BY <1>3, <1>2, FirstPlaces
<1>6. LargestSum(gains, calls) = SumOf(picked)
  BY <1>1 DEF LargestSum
<1>7. calls \in Nat /\ \A k \in 1..calls : k \in 1..n /\ order[k] \in 1..n /\ gains[order[k]] \in Int
  BY <1>2 DEF Picks, Numbers
<1>8. ASSUME NEW f, OnlyAt(f, n, gains, G) PROVE SumOf(f) = SumOf(picked)
  <2>1. picked \in Numbers(calls) /\ \A k \in 1..calls : picked[k] = gains[first[k]]
    BY <1>4, <1>7 DEF Numbers
  <2>2. Spreads(f, n, gains, first, calls)
    <3>1. \A i : i \in G <=> \E k \in 1..calls : first[k] = i
      BY <1>4
    <3> QED
      BY <1>8, <3>1 DEF OnlyAt, Spreads
  <2> HIDE DEF picked
  <2> QED
    BY <1>5, <1>7, <2>1, <2>2, SumOfPicked
<1>9. ASSUME calls # 0
      PROVE  \E x \in 1..n : (\A i \in G : gains[i] >= gains[x]) /\ \A i \in (1..n) \ G : gains[i] <= gains[x]
  <2>1. calls \in 1..n /\ order[calls] \in 1..n
    BY <1>7, <1>9
  <2>2. ASSUME NEW i \in G PROVE gains[i] >= gains[order[calls]]
    <3>1. PICK k \in 1..calls : i = order[k]
      BY <1>4
    <3>2. k = calls \/ k < calls
      BY <1>7
    <3> QED
      BY <1>2, <1>7, <2>1, <3>1, <3>2
  <2>3. ASSUME NEW i \in (1..n) \ G PROVE gains[i] <= gains[order[calls]]
    <3>1. PICK k \in 1..n : order[k] = i
      BY <1>2
    <3>2. calls < k
      <4>1. k \notin 1..calls
        BY <1>4, <3>1
      <4> QED
        BY <1>7, <4>1
    <3>3. gains[i] \in Int /\ gains[order[calls]] \in Int
      BY <2>1 DEF Numbers
    <3> QED
      BY <1>2, <2>1, <3>1, <3>2, <3>3
  <2> QED
    BY <2>1, <2>2, <2>3
<1> HIDE DEF picked
<1>10. /\ G \in SUBSET (1..n) /\ IsFiniteSet(G) /\ Cardinality(G) = calls
       /\ \A f : OnlyAt(f, n, gains, G) => SumOf(f) = LargestSum(gains, calls)
       /\ calls # 0 => \E x \in 1..n : (\A i \in G : gains[i] >= gains[x]) /\ \A i \in (1..n) \ G : gains[i] <= gains[x]
  BY <1>5, <1>6, <1>8, <1>9
<1> QED
  BY <1>10

(* Numbers less a level, at some places.                                   *)
LEMMA SumOverLevel ==
    ASSUME NEW n \in Nat, NEW gains \in Numbers(n), NEW places \in SUBSET (1..n), NEW level \in Int,
           NEW t, OnlyAt(t, n, gains, places),
           NEW over \in Numbers(n), \A i \in 1..n : over[i] = IF i \in places THEN gains[i] - level ELSE 0
    PROVE  SumOf(t) = SumOf(over) + Cardinality(places) * level /\ Cardinality(places) \in Nat
<1> DEFINE marks == [i \in 1..n |-> IF i \in places THEN level ELSE 0]
<1>1. marks \in Numbers(n) /\ \A i \in 1..n : marks[i] = IF i \in places THEN level ELSE 0
  BY DEF Numbers
<1>2. ASSUME NEW i \in 1..n PROVE t[i] = over[i] + marks[i]
  <2>1. gains[i] \in Int
    BY DEF Numbers
  <2> HIDE DEF marks
  <2> QED
    BY <1>1, <2>1 DEF OnlyAt
<1> HIDE DEF marks
<1>3. SumOf(marks) = Cardinality(places) * level /\ Cardinality(places) \in Nat
  BY <1>1, SumOfMarks
<1>4. t \in Numbers(n)
  BY DEF OnlyAt
<1>5. SumOf(t) = SumOf(over) + SumOf(marks)
  BY <1>1, <1>2, <1>4, SumAdds
<1> QED
  BY <1>3, <1>5

(* No choice of as many numbers has a larger sum; nor, where none is       *)
(* negative, a choice of fewer.                                            *)
LEMMA LargestSumIsLargest ==
    ASSUME NEW n \in Nat, NEW gains \in Numbers(n), NEW calls \in 0..n,
           NEW places \in SUBSET (1..n), Cardinality(places) <= calls,
           Cardinality(places) = calls \/ \A i \in 1..n : gains[i] >= 0,
           NEW t, OnlyAt(t, n, gains, places)
    PROVE  SumOf(t) <= LargestSum(gains, calls)
<1>1. PICK G \in SUBSET (1..n) :
          /\ IsFiniteSet(G) /\ Cardinality(G) = calls
          /\ \A f : OnlyAt(f, n, gains, G) => SumOf(f) = LargestSum(gains, calls)
          /\ calls # 0 => \E x \in 1..n : /\ \A i \in G : gains[i] >= gains[x]
                                          /\ \A i \in (1..n) \ G : gains[i] <= gains[x]
  BY LargestPlaces
<1>2. IsFiniteSet(places) /\ Cardinality(places) \in Nat /\ calls \in Nat
  <2>1. IsFiniteSet(1..n)
    BY FS_Interval
  <2>2. IsFiniteSet(places)
    BY <2>1, FS_Subset
  <2>3. Cardinality(places) \in Nat
    BY <2>2, FS_CardinalityType
  <2> QED
    BY <2>2, <2>3
<1> DEFINE g == [i \in 1..n |-> IF i \in G THEN gains[i] ELSE 0]
<1>3. OnlyAt(g, n, gains, G)
  BY DEF OnlyAt, Numbers
<1> HIDE DEF g
<1>4. SumOf(g) = LargestSum(gains, calls)
  BY <1>1, <1>3
<1>5. CASE calls = 0
  <2>1. places = {} /\ G = {}
    BY <1>1, <1>2, <1>5, FS_EmptySet
  <2>2. \A i \in 1..n : t[i] <= g[i]
    BY <1>3, <2>1 DEF OnlyAt
  <2> QED
    BY <1>3, <1>4, <2>2, SumGrows DEF OnlyAt
<1>6. CASE calls # 0
  <2>1. PICK x \in 1..n : (\A i \in G : gains[i] >= gains[x]) /\ \A i \in (1..n) \ G : gains[i] <= gains[x]
    BY <1>1, <1>6
  <2>2. \A i \in 1..n : gains[i] \in Int
    BY DEF Numbers
  <2> DEFINE level == gains[x]
             over(chosen) == [i \in 1..n |-> IF i \in chosen THEN gains[i] - level ELSE 0]
             most == over(G)
             some == over(places)
  <2>3. /\ most \in Numbers(n) /\ \A i \in 1..n : most[i] = IF i \in G THEN gains[i] - level ELSE 0
        /\ some \in Numbers(n) /\ \A i \in 1..n : some[i] = IF i \in places THEN gains[i] - level ELSE 0
    BY <2>2 DEF Numbers
  <2>4. level \in Int /\ ((\A i \in 1..n : gains[i] >= 0) => level >= 0)
    BY <2>2
  <2>5. (\A i \in G : gains[i] >= level) /\ \A i \in (1..n) \ G : gains[i] <= level
    BY <2>1
  <2> HIDE DEF over, most, some, level
  <2>6. ASSUME NEW i \in 1..n PROVE some[i] <= most[i]
    <3>1. gains[i] \in Int
      BY <2>2
    <3>2. CASE i \in G
      BY <2>3, <2>4, <2>5, <3>1, <3>2
    <3>3. CASE i \notin G
      BY <2>3, <2>4, <2>5, <3>1, <3>3
    <3> QED
      BY <3>2, <3>3
  <2>7. SumOf(some) <= SumOf(most)
    BY <2>3, <2>6, SumGrows
  <2>8. SumOf(t) = SumOf(some) + Cardinality(places) * level
    BY <2>3, <2>4, SumOverLevel
  <2>9. SumOf(g) = SumOf(most) + calls * level
    BY <1>1, <1>3, <2>3, <2>4, SumOverLevel
  <2>10. Cardinality(places) * level <= calls * level
    <3>1. CASE Cardinality(places) = calls
      BY <1>2, <2>4, <3>1
    <3>2. CASE level >= 0
      <4>1. PICK d \in Nat : calls = Cardinality(places) + d
        <5>1. calls - Cardinality(places) \in Nat /\ calls = Cardinality(places) + (calls - Cardinality(places))
          BY <1>2
        <5> QED
          BY <5>1
      <4>2. calls * level = Cardinality(places) * level + d * level /\ d * level >= 0
        BY <1>2, <2>4, <3>2, <4>1
      <4> QED
        BY <1>2, <2>4, <4>2
    <3> QED
      BY <2>4, <3>1, <3>2
  <2>11. SumOf(some) \in Int /\ SumOf(most) \in Int /\ Cardinality(places) * level \in Int /\ calls * level \in Int
    BY <1>2, <2>3, <2>4, SumTyped
  <2> QED
    BY <1>4, <2>7, <2>8, <2>9, <2>10, <2>11
<1> QED
  BY <1>5, <1>6

LEMMA MaxIs ==
    ASSUME NEW S \in SUBSET Int, NEW m \in S, \A y \in S : y <= m
    PROVE  Max(S) = m
<1>1. Max(S) \in S /\ \A y \in S : Max(S) >= y
  <2>1. \A y \in S : m >= y
    OBVIOUS
  <2> QED
    BY <2>1 DEF Max
<1>2. Max(S) \in Int /\ m \in Int /\ Max(S) >= m /\ Max(S) <= m
  BY <1>1
<1> QED
  BY <1>2

(* Every place has its strong number or its weak one.                      *)
Mixed(weak, strong, n, chosen) == [i \in 1..n |-> IF i \in chosen THEN strong[i] ELSE weak[i]]

LEMMA MixedTyped ==
    ASSUME NEW n \in Nat, NEW weak \in Numbers(n), NEW strong \in Numbers(n), NEW chosen
    PROVE  /\ Mixed(weak, strong, n, chosen) \in Numbers(n)
           /\ SumOf(Mixed(weak, strong, n, chosen)) \in Int
<1>1. Mixed(weak, strong, n, chosen) \in Numbers(n)
  BY DEF Numbers, Mixed
<1> QED
  BY <1>1, SumTyped

LEMMA MixedSum ==
    ASSUME NEW n \in Nat, NEW weak \in Numbers(n), NEW strong \in Numbers(n), NEW chosen,
           NEW t \in Numbers(n), \A i \in 1..n : t[i] = IF i \in chosen THEN strong[i] - weak[i] ELSE 0
    PROVE  SumOf(Mixed(weak, strong, n, chosen)) = SumOf(weak) + SumOf(t)
<1>1. ASSUME NEW i \in 1..n PROVE Mixed(weak, strong, n, chosen)[i] = weak[i] + t[i]
  <2>1. weak[i] \in Int /\ strong[i] \in Int
    BY DEF Numbers
  <2> QED
    BY <2>1 DEF Mixed
<1> QED
  BY <1>1, MixedTyped, SumAdds

LEMMA BestIs ==
    ASSUME NEW n \in Nat, NEW weak \in Numbers(n), NEW strong \in Numbers(n),
           NEW choices, NEW m, NEW best \in choices, SumOf(Mixed(weak, strong, n, best)) = m,
           \A chosen \in choices : SumOf(Mixed(weak, strong, n, chosen)) <= m
    PROVE  BestOf(weak, strong, choices) = m
<1> DEFINE S == {SumOf([i \in DOMAIN weak |-> IF i \in chosen THEN strong[i] ELSE weak[i]]) : chosen \in choices}
<1>1. S = {SumOf(Mixed(weak, strong, n, chosen)) : chosen \in choices}
  <2>1. DOMAIN weak = 1..n
    BY DEF Numbers
  <2> QED
    BY <2>1 DEF Mixed
<1>2. S \in SUBSET Int /\ m \in S /\ \A y \in S : y <= m
  <2> HIDE DEF S
  <2>1. \A y \in S : \E chosen \in choices : y = SumOf(Mixed(weak, strong, n, chosen))
    BY <1>1
  <2> QED
    BY <1>1, <2>1, MixedTyped
<1>3. Max(S) = m
  <2> HIDE DEF S
  <2> QED
    BY <1>2, MaxIs
<1> QED
  BY <1>3 DEF BestOf

Cut(f, n, places) == [i \in 1..n |-> IF i \in places THEN f[i] ELSE 0]

LEMMA CutIs ==
    ASSUME NEW n \in Nat, NEW f \in Numbers(n), NEW places
    PROVE  OnlyAt(Cut(f, n, places), n, f, places) /\ Cut(f, n, places) \in Numbers(n)
BY DEF OnlyAt, Cut, Numbers

(* The best that at most so many strong numbers reach.                     *)
LEMMA BestOfAtMost ==
    ASSUME NEW n \in Nat, NEW weak \in Numbers(n), NEW strong \in Numbers(n), NEW calls \in 0..n,
           NEW gains \in Numbers(n),
           \A i \in 1..n : gains[i] = IF strong[i] > weak[i] THEN strong[i] - weak[i] ELSE 0
    PROVE  /\ BestOf(weak, strong, {s \in SUBSET (1..n) : Cardinality(s) <= calls})
                 = SumOf(weak) + LargestSum(gains, calls)
           /\ SumOf(weak) + LargestSum(gains, calls) \in Int
           /\ \A chosen \in SUBSET (1..n) : Cardinality(chosen) <= calls =>
                 SumOf(Mixed(weak, strong, n, chosen)) <= SumOf(weak) + LargestSum(gains, calls)
<1> DEFINE choices == {s \in SUBSET (1..n) : Cardinality(s) <= calls}
           lead == [i \in 1..n |-> strong[i] - weak[i]]
<1>1. \A i \in 1..n : weak[i] \in Int /\ strong[i] \in Int /\ gains[i] \in Int /\ gains[i] >= 0
  BY DEF Numbers
<1>2. lead \in Numbers(n) /\ \A i \in 1..n : lead[i] = strong[i] - weak[i]
  BY <1>1 DEF Numbers
<1> HIDE DEF lead
<1>3. ASSUME NEW chosen \in SUBSET (1..n), NEW t, OnlyAt(t, n, lead, chosen)
      PROVE  SumOf(Mixed(weak, strong, n, chosen)) = SumOf(weak) + SumOf(t)
  <2>1. t \in Numbers(n) /\ \A i \in 1..n : t[i] = IF i \in chosen THEN strong[i] - weak[i] ELSE 0
    BY <1>2, <1>3 DEF OnlyAt
  <2> QED
    BY <2>1, MixedSum
<1>4. SumOf(weak) \in Int
  BY SumTyped
<1>5. PICK G \in SUBSET (1..n) :
          /\ IsFiniteSet(G) /\ Cardinality(G) = calls
          /\ \A f : OnlyAt(f, n, gains, G) => SumOf(f) = LargestSum(gains, calls)
  BY LargestPlaces
<1>6. PICK best \in SUBSET (1..n) : best = {i \in G : strong[i] > weak[i]}
  OBVIOUS
<1>7. best \in choices
  <2>1. best \in SUBSET G
    BY <1>6
  <2>2. Cardinality(best) <= Cardinality(G)
    BY <1>5, <2>1, FS_Subset
  <2> QED
    BY <1>5, <2>2
<1>8. SumOf(Mixed(weak, strong, n, best)) = SumOf(weak) + LargestSum(gains, calls)
  <2>1. PICK t : t = Cut(lead, n, best)
    OBVIOUS
  <2>2. OnlyAt(t, n, lead, best)
    BY <1>2, <2>1, CutIs
  <2>3. OnlyAt(t, n, gains, G)
    BY <1>1, <1>2, <1>6, <2>2 DEF OnlyAt
  <2> QED
    BY <1>3, <1>5, <2>2, <2>3
<1>9. LargestSum(gains, calls) \in Int
  <2>1. PICK g : g = Cut(gains, n, G)
    OBVIOUS
  <2> QED
    BY <1>5, <2>1, CutIs, SumTyped
<1>10. ASSUME NEW chosen \in choices
       PROVE  SumOf(Mixed(weak, strong, n, chosen)) <= SumOf(weak) + LargestSum(gains, calls)
  <2>1. PICK t, u : t = Cut(lead, n, chosen) /\ u = Cut(gains, n, chosen)
    OBVIOUS
  <2>2. OnlyAt(t, n, lead, chosen) /\ OnlyAt(u, n, gains, chosen) /\ t \in Numbers(n) /\ u \in Numbers(n)
    BY <1>2, <2>1, CutIs
  <2>3. \A i \in 1..n : t[i] <= u[i]
    BY <1>1, <1>2, <2>2 DEF OnlyAt
  <2>4. SumOf(t) <= SumOf(u) /\ SumOf(t) \in Int /\ SumOf(u) \in Int
    BY <2>2, <2>3, SumGrows, SumTyped
  <2>5. SumOf(u) <= LargestSum(gains, calls)
    BY <1>1, <2>2, LargestSumIsLargest
  <2>6. SumOf(Mixed(weak, strong, n, chosen)) = SumOf(weak) + SumOf(t)
    BY <1>3, <2>2
  <2> QED
    BY <1>4, <1>9, <2>4, <2>5, <2>6
<1>11. \A chosen \in SUBSET (1..n) : Cardinality(chosen) <= calls => chosen \in choices
  OBVIOUS
<1> HIDE DEF choices
<1>12. BestOf(weak, strong, choices) = SumOf(weak) + LargestSum(gains, calls)
  BY <1>7, <1>8, <1>10, BestIs
<1>13. SumOf(weak) + LargestSum(gains, calls) \in Int
  BY <1>4, <1>9
<1>14. \A chosen \in SUBSET (1..n) : Cardinality(chosen) <= calls =>
          SumOf(Mixed(weak, strong, n, chosen)) <= SumOf(weak) + LargestSum(gains, calls)
  BY <1>10, <1>11
<1> QED
  BY <1>12, <1>13, <1>14 DEF choices

(* The best that exactly so many strong numbers reach.                     *)
LEMMA BestOfExactly ==
    ASSUME NEW n \in Nat, NEW weak \in Numbers(n), NEW strong \in Numbers(n), NEW calls \in 0..n,
           NEW gains \in Numbers(n), \A i \in 1..n : gains[i] = strong[i] - weak[i]
    PROVE  BestOf(weak, strong, {s \in SUBSET (1..n) : Cardinality(s) = calls})
              = SumOf(weak) + LargestSum(gains, calls)
<1> DEFINE choices == {s \in SUBSET (1..n) : Cardinality(s) = calls}
<1>1. SumOf(weak) \in Int
  BY SumTyped
<1>2. ASSUME NEW chosen \in SUBSET (1..n), NEW t, OnlyAt(t, n, gains, chosen)
      PROVE  SumOf(Mixed(weak, strong, n, chosen)) = SumOf(weak) + SumOf(t) /\ SumOf(t) \in Int
  <2>1. t \in Numbers(n) /\ \A i \in 1..n : t[i] = IF i \in chosen THEN strong[i] - weak[i] ELSE 0
    BY <1>2 DEF OnlyAt
  <2> QED
    BY <2>1, MixedSum, SumTyped
<1>3. PICK best \in SUBSET (1..n) :
          /\ IsFiniteSet(best) /\ Cardinality(best) = calls
          /\ \A f : OnlyAt(f, n, gains, best) => SumOf(f) = LargestSum(gains, calls)
  BY LargestPlaces
<1>4. SumOf(Mixed(weak, strong, n, best)) = SumOf(weak) + LargestSum(gains, calls) /\ LargestSum(gains, calls) \in Int
  <2>1. PICK t : t = Cut(gains, n, best)
    OBVIOUS
  <2>2. OnlyAt(t, n, gains, best)
    BY <2>1, CutIs
  <2> QED
    BY <1>2, <1>3, <2>2
<1>5. ASSUME NEW chosen \in choices
      PROVE  SumOf(Mixed(weak, strong, n, chosen)) <= SumOf(weak) + LargestSum(gains, calls)
  <2>1. PICK t : t = Cut(gains, n, chosen)
    OBVIOUS
  <2>2. OnlyAt(t, n, gains, chosen)
    BY <2>1, CutIs
  <2>3. SumOf(t) <= LargestSum(gains, calls)
    BY <2>2, LargestSumIsLargest
  <2>4. SumOf(Mixed(weak, strong, n, chosen)) = SumOf(weak) + SumOf(t) /\ SumOf(t) \in Int
    BY <1>2, <2>2
  <2> QED
    BY <1>1, <1>4, <2>3, <2>4
<1>6. best \in choices
  BY <1>3
<1> HIDE DEF choices
<1>7. BestOf(weak, strong, choices) = SumOf(weak) + LargestSum(gains, calls)
  BY <1>4, <1>5, <1>6, BestIs
<1> QED
  BY <1>7 DEF choices
-----------------------------------------------------------------------------
(* The contents of trace files and of the examples are lists, on disk and  *)
(* in the hands of who read them.                                          *)
IsList(v) == \E S : v \in Seq(S)

ListFiles == Names \cup {"source", "examples"}

ListsOnDisk == \A f \in ListFiles : file[f] \in {Absent, Torn} \/ IsList(file[f])

ReadLists(p) == \A i \in DOMAIN proc[p].read : Plan(p)[i] \in ListFiles => IsList(proc[p].read[i])

ListInv == ListsOnDisk /\ \A p \in Procs : ReadLists(p)

LEMMA GivenLists == ASSUME NEW f \in ListFiles, NEW v \in Given(f) \ {Absent, Torn} PROVE IsList(v)
BY ListsAssumption DEF ListFiles, IsList

LEMMA ListInit == ASSUME Init PROVE ListInv
<1>1. PICK study \in Studies \cup {<<>>} :
          /\ file = [f \in Files |-> IF f \in DOMAIN study THEN study[f]
                                    ELSE IF f \in DOMAIN Original THEN Original[f] ELSE Absent]
          /\ proc = [p \in Procs |-> Idle]
  BY DEF Init
<1>2. ASSUME NEW f \in ListFiles PROVE file[f] \in {Absent, Torn} \/ IsList(file[f])
  <2>1. f \in Files
    BY NamesAre, FilesAssumption DEF ListFiles, Files, Written
  <2>2. file[f] = IF f \in DOMAIN study THEN study[f]
                  ELSE IF f \in DOMAIN Original THEN Original[f] ELSE Absent
    BY <1>1, <2>1
  <2>3. study = <<>> => f \notin DOMAIN study
    OBVIOUS
  <2>4. file[f] \in Given(f) \cup {Absent}
    BY <2>2, <2>3 DEF Given
  <2> QED
    BY <2>4, GivenLists
<1>3. ASSUME NEW p \in Procs PROVE ReadLists(p)
  <2>1. proc[p].read = <<>>
    BY <1>1 DEF Idle
  <2> QED
    BY <2>1 DEF ReadLists
<1> QED
  BY <1>2, <1>3 DEF ListInv, ListsOnDisk

(* What a split has computed are lists of records.                         *)
LEMMA PartsAreLists ==
    ASSUME NEW traces, IsList(traces), NEW by, NEW of, NEW name \in Names
    PROVE  IsList(Partitioned(traces, by, of)[name])
<1> DEFINE places == {i \in DOMAIN traces : of[GroupKey(traces[i], by)] = name}
           records == Ascending(places)
           part == [k \in DOMAIN records |-> traces[records[k]]]
<1>1. PICK S : traces \in Seq(S)
  BY DEF IsList
<1>2. IsFiniteSet(places) /\ Cardinality(places) \in Nat
  <2>1. places \in SUBSET (1..Len(traces)) /\ Len(traces) \in Nat
    BY <1>1
  <2>2. IsFiniteSet(1..Len(traces))
    BY <2>1, FS_Interval
  <2> HIDE DEF places
  <2>3. IsFiniteSet(places)
    BY <2>1, <2>2, FS_Subset
  <2> QED
    BY <2>3, FS_CardinalityType
<1>3. DOMAIN records = 1..Cardinality(places)
  BY DEF Ascending, Ordered
<1>4. Partitioned(traces, by, of)[name] = part
  BY DEF Partitioned
<1>5. part \in Seq({part[k] : k \in DOMAIN part})
  <2> HIDE DEF records, places
  <2>1. part \in [1..Cardinality(places) -> {part[k] : k \in DOMAIN part}]
    BY <1>3
  <2> QED
    BY <1>2, <2>1
<1> QED
  BY <1>4, <1>5 DEF IsList

LEMMA HeldPartsAreLists ==
    ASSUME Shape, ResultsInv, ListInv, NEW p \in Procs, proc[p].pc \in Splitting, NEW name \in Names
    PROVE  IsList(proc[p].result[name])
<1> DEFINE read == proc[p].read
           config == proc[p].args
<1>1. proc[p].command = "split" /\ Holds(p) /\ ReadOK(p) /\ ReadLists(p)
  BY DEF ResultsInv, ResultOK, Shape, ListInv
<1>2. proc[p].result = SplitTwice(read[1], read[2], config) /\ proc[p].result # Error
  BY <1>1 DEF Holds, Computed, ComputedOf
<1>3. proc[p].result = Split(read[1], config)
  BY <1>2, SplitOfFirstSource
<1>4. proc[p].result = Partitioned(read[1], config.by, Assign(read[1], config))
  BY <1>2, <1>3 DEF Split
<1>5. IsList(read[1])
  <2>1. Plan(p) = <<"source", "source">>
    BY <1>1 DEF Plan, ReadBy
  <2>2. Len(read) = Len(Plan(p))
    BY <1>1 DEF ReadOK, Later
  <2>3. Len(read) = 2 /\ 1 \in DOMAIN read
    BY <1>1, <2>1, <2>2 DEF ReadOK
  <2>4. Plan(p)[1] \in ListFiles
    BY <2>1 DEF ListFiles
  <2> QED
    BY <1>1, <2>3, <2>4 DEF ReadLists
<1> QED
  BY <1>4, <1>5, PartsAreLists

LEMMA PiecesAreLists == ASSUME NEW traces, IsList(traces), NEW piece \in Pieces(traces) PROVE IsList(piece)
<1>1. PICK S : traces \in Seq(S)
  BY DEF IsList
<1>2. CASE piece = <<Junk>>
  <2>1. <<Junk>> \in Seq({Junk})
    OBVIOUS
  <2> QED
    BY <1>2, <2>1 DEF IsList
<1>3. ASSUME NEW n \in 0..(Len(traces) - 1), piece = SubSeq(traces, 1, n) PROVE IsList(piece)
  <2>1. SubSeq(traces, 1, n) \in Seq(S)
    BY <1>1, SubSeqProperties
  <2> QED
    BY <1>3, <2>1 DEF IsList
<1> QED
  BY <1>2, <1>3 DEF Pieces

(* What is written to the partitions are lists.                            *)
LEMMA WriteKeepsLists ==
    ASSUME Shape, ListsOnDisk, NEW p \in Procs, NEW f \in Names \cup {"manifest"}, NEW content,
           f = "manifest" \/ IsList(content), Write(p, f, content)
    PROVE  ListsOnDisk'
<1>1. file' = [file EXCEPT ![f] = content] /\ DOMAIN file = Files
  BY DEF Write, Shape, FilesShape
<1>2. "manifest" \notin ListFiles
  BY NamesAre DEF ListFiles
<1>3. ASSUME NEW g \in ListFiles PROVE file'[g] = file[g] \/ IsList(file'[g])
  <2>1. CASE g = f
    <3>1. g \in DOMAIN file
      BY <1>1, NamesAre, FilesAssumption DEF ListFiles, Files, Written
    <3> QED
      BY <1>1, <1>2, <2>1, <3>1
  <2>2. CASE g # f
    BY <1>1, <2>2
  <2> QED
    BY <2>1, <2>2
<1> QED
  BY <1>3 DEF ListsOnDisk

LEMMA WorkKeepsLists ==
    ASSUME Shape, ResultsInv, ListInv, NEW p \in Procs, Work(p)
    PROVE  ListsOnDisk'
<1>1. ListsOnDisk /\ Partition(p) \in Names
  BY PartitionIn DEF ListInv, Shape
<1>2. CASE OpenPartition(p)
  <2>1. Write(p, Partition(p), <<>>)
    BY <1>2 DEF OpenPartition
  <2>2. IsList(<<>>)
    <3>1. <<>> \in Seq({})
      OBVIOUS
    <3> QED
      BY <3>1 DEF IsList
  <2> QED
    BY <1>1, <2>1, <2>2, WriteKeepsLists
<1>3. CASE FillPartition(p)
  <2>1. Write(p, Partition(p), proc[p].result[Partition(p)]) /\ proc[p].pc \in Splitting
    BY <1>3 DEF FillPartition, At, Splitting
  <2> QED
    BY <1>1, <2>1, HeldPartsAreLists, WriteKeepsLists
<1>4. CASE OpenManifest(p) \/ FillManifest(p)
  <2>1. \E content : Write(p, "manifest", content)
    BY <1>4 DEF OpenManifest, FillManifest
  <2> QED
    BY <1>1, <2>1, WriteKeepsLists
<1>5. CASE Stop(p)
  <2>1. CASE At(p, "filling")
    <3>1. proc[p].pc \in Splitting
      BY <2>1 DEF At, Splitting
    <3>2. PICK piece \in Pieces(proc[p].result[Partition(p)]) : Write(p, Partition(p), piece)
      BY <1>5, <2>1 DEF Stop
    <3> QED
      BY <1>1, <3>1, <3>2, HeldPartsAreLists, PiecesAreLists, WriteKeepsLists
  <2>2. CASE ~At(p, "filling")
    <3>1. file' = file
      BY <1>5, <2>2 DEF Stop
    <3> QED
      BY <1>1, <3>1 DEF ListsOnDisk
  <2> QED
    BY <2>1, <2>2
<1>6. CASE CreateExclusions(p)
  <2>1. "exclusions" \notin ListFiles
    BY NamesAre DEF ListFiles
  <2>2. file' = file \/ file' = [file EXCEPT !["exclusions"] = proc[p].result.prompts]
    BY <1>6 DEF CreateExclusions
  <2>3. ASSUME NEW f \in ListFiles PROVE file'[f] = file[f]
    <3>1. f # "exclusions" /\ f \in DOMAIN file
      BY <2>1, NamesAre, FilesAssumption DEF ListFiles, Files, Written, Shape, FilesShape
    <3>2. CASE file' = file
      BY <3>2
    <3>3. CASE file' = [file EXCEPT !["exclusions"] = proc[p].result.prompts]
      BY <3>1, <3>3
    <3> QED
      BY <2>2, <3>2, <3>3
  <2> QED
    BY <1>1, <2>3 DEF ListsOnDisk
<1>7. CASE Compute(p) \/ CheckPartition(p) \/ Lookup(p) \/ HitEntry(p) \/ MoveEntryAway(p)
            \/ InstallEntry(p) \/ InstallEntryFails(p)
  <2>1. file' = file
    BY <1>7 DEF Compute, CheckPartition, Lookup, HitEntry, MoveEntryAway, InstallEntry, InstallEntryFails
  <2> QED
    BY <1>1, <2>1 DEF ListsOnDisk
<1> QED
  BY <1>2, <1>3, <1>4, <1>5, <1>6, <1>7 DEF Work

LEMMA EditKeepsLists == ASSUME ListsOnDisk, Edit PROVE ListsOnDisk'
<1>1. PICK f \in Edited : \E content \in Contents[f] : file' = [file EXCEPT ![f] = content]
  BY DEF Edit
<1>2. PICK content \in Contents[f] : file' = [file EXCEPT ![f] = content]
  BY <1>1
<1>3. content \in Given(f)
  BY <1>2 DEF Given
<1>4. f \in ListFiles => content \in {Absent, Torn} \/ IsList(content)
  BY <1>3, GivenLists
<1>5. ASSUME NEW g \in ListFiles PROVE file'[g] = file[g] \/ file'[g] \in {Absent, Torn} \/ IsList(file'[g])
  <2>1. file'[g] = file[g] \/ (g = f /\ file'[g] = content)
    BY <1>2
  <2> QED
    BY <1>4, <2>1
<1> QED
  BY <1>5 DEF ListsOnDisk

LEMMA ReadListsAfterRead == ASSUME Shape, ListInv, NEW p \in Procs, Read(p) PROVE ReadLists(p)'
<1> DEFINE content == file[Plan(p)[Len(proc[p].read) + 1]]
<1>1. /\ proc'[p].command = proc[p].command /\ proc'[p].args = proc[p].args
      /\ \/ proc'[p].read = proc[p].read
         \/ content \notin {Absent, Torn} /\ proc'[p].read = Append(proc[p].read, content)
  BY ReadEffect DEF Shape
<1>2. Plan(p)' = Plan(p) /\ ReadLists(p) /\ ListsOnDisk /\ \E S : proc[p].read \in Seq(S)
  BY <1>1 DEF Plan, Shape, ReadOK, ListInv
<1>3. CASE proc'[p].read = proc[p].read
  BY <1>2, <1>3 DEF ReadLists
<1>4. CASE content \notin {Absent, Torn} /\ proc'[p].read = Append(proc[p].read, content)
  <2> DEFINE n == Len(proc[p].read)
  <2>1. /\ \E S : proc'[p].read \in Seq(S)
        /\ n \in Nat /\ Len(proc'[p].read) = n + 1
        /\ \A i \in 1..n : proc'[p].read[i] = proc[p].read[i]
        /\ proc'[p].read[n + 1] = content
    <3> HIDE DEF content
    <3>1. /\ \E S : Append(proc[p].read, content) \in Seq(S)
          /\ Len(proc[p].read) \in Nat
          /\ Len(Append(proc[p].read, content)) = Len(proc[p].read) + 1
          /\ \A i \in 1 .. Len(proc[p].read) : Append(proc[p].read, content)[i] = proc[p].read[i]
          /\ Append(proc[p].read, content)[Len(proc[p].read) + 1] = content
      BY <1>2, Appended
    <3> QED
      BY <1>4, <3>1
  <2>2. Plan(p)[n + 1] \in ListFiles => IsList(content)
    BY <1>2, <1>4 DEF ListsOnDisk
  <2> HIDE DEF content
  <2>3. ASSUME NEW i \in DOMAIN proc'[p].read, Plan(p)[i] \in ListFiles PROVE IsList(proc'[p].read[i])
    <3>1. i \in 1..(n + 1)
      BY <2>1, <2>3
    <3>2. CASE i \in 1..n
      <4>1. i \in DOMAIN proc[p].read
        BY <1>2, <3>2
      <4> QED
        BY <1>2, <2>1, <2>3, <3>2, <4>1 DEF ReadLists
    <3>3. CASE i = n + 1
      BY <2>1, <2>2, <2>3, <3>3
    <3> QED
      BY <2>1, <3>1, <3>2, <3>3
  <2> QED
    BY <1>2, <2>3 DEF ReadLists
<1> QED
  BY <1>1, <1>3, <1>4

LEMMA ReadListsKept ==
    ASSUME NEW p \in Procs, ReadLists(p), proc'[p].command = proc[p].command, proc'[p].args = proc[p].args,
           proc'[p].read = proc[p].read
    PROVE  ReadLists(p)'
BY DEF ReadLists, Plan

LEMMA ListStep == ASSUME Shape, ResultsInv, ListInv, [Next]_vars PROVE ListInv'
<1>0. ListsOnDisk /\ \A p \in Procs : ReadLists(p)
  BY DEF ListInv
<1>1. CASE UNCHANGED vars \/ Spoil
  <2>1. file' = file /\ proc' = proc
    BY <1>1 DEF vars, Spoil
  <2> QED
    BY <1>0, <2>1, ReadListsKept DEF ListInv, ListsOnDisk
<1>2. CASE Edit
  <2>1. proc' = proc
    BY <1>2 DEF Edit
  <2> QED
    BY <1>0, <1>2, <2>1, EditKeepsLists, ReadListsKept DEF ListInv
<1>3. ASSUME NEW q \in Procs, Start(q) \/ Read(q) PROVE ListInv'
  <2>1. file' = file /\ \A p \in Procs \ {q} : proc'[p] = proc[p]
    BY <1>3, StartEffect, ReadEffect DEF Start, Read, Shape
  <2>2. ReadLists(q)'
    <3>1. CASE Start(q)
      <4>1. proc'[q].read = <<>>
        BY <3>1, StartEffect DEF Shape
      <4> QED
        BY <4>1 DEF ReadLists
    <3>2. CASE Read(q)
      BY <3>2, ReadListsAfterRead
    <3> QED
      BY <1>3, <3>1, <3>2
  <2>3. ListsOnDisk'
    BY <1>0, <2>1 DEF ListsOnDisk
  <2> QED
    BY <1>0, <2>1, <2>2, <2>3, ReadListsKept DEF ListInv
<1>4. ASSUME NEW q \in Procs, Work(q) PROVE ListInv'
  <2>1. Keeps(q)
    BY <1>4, WorkKeeps DEF Shape
  <2>2. ASSUME NEW p \in Procs PROVE ReadLists(p)'
    BY <1>0, <2>1, ReadListsKept DEF Keeps
  <2>3. ListsOnDisk'
    BY <1>4, WorkKeepsLists
  <2> QED
    BY <2>2, <2>3 DEF ListInv
<1> QED
  BY <1>1, <1>2, <1>3, <1>4 DEF Next, Work

(* Trace files and examples are lists wherever they are.                   *)
THEOREM ListInvariant == Spec => []ListInv
<1>1. Init => ListInv
  BY ListInit
<1>2. Shape /\ ResultsInv /\ ListInv /\ [Next]_vars => ListInv'
  BY ListStep
<1> QED
  BY <1>1, <1>2, ShapeInvariant, ResultsInvariant, PTL DEF Spec
-----------------------------------------------------------------------------
(* A sweep that has gone on is no error.                                   *)
SweepSound(p) ==
    /\ proc[p].pc \in Sweeping => SweepOf(p) # Error
    /\ proc[p].pc = "done" /\ proc[p].command = "sweep" => SweepOf(p) # Error

SweepsSound == \A p \in Procs : SweepSound(p)

LEMMA SweepSoundAfterWork ==
    ASSUME Shape, ResultsInv, NEW p \in Procs, SweepSound(p), Work(p)
    PROVE  SweepSound(p)'
<1>1. /\ Keeps(p) /\ SweepOf(p)' = SweepOf(p)
      /\ proc'[p].pc \in {"refused", "stopped"} \/ (proc[p].pc \in Later /\ proc'[p].pc \in Later)
  BY WorkKeeps, InputsKept DEF Shape
<1>2. ASSUME proc'[p].pc \in Sweeping \cup {"done"}, proc[p].command = "sweep" PROVE SweepOf(p) # Error
  <2>1. ResultOK(p)
    BY DEF ResultsInv
  <2>2. CASE OpenPartition(p) \/ FillPartition(p) \/ CheckPartition(p) \/ OpenManifest(p) \/ FillManifest(p)
    <3>1. proc[p].pc \in Splitting
      BY <2>2 DEF OpenPartition, FillPartition, CheckPartition, OpenManifest, FillManifest, At, Splitting
    <3> QED
      BY <1>2, <2>1, <3>1 DEF ResultOK
  <2>3. CASE HitEntry(p) \/ MoveEntryAway(p) \/ InstallEntry(p) \/ InstallEntryFails(p)
    <3>1. proc[p].pc \in Sweeping
      BY <2>3 DEF HitEntry, MoveEntryAway, InstallEntry, InstallEntryFails, At, Sweeping
    <3> QED
      BY <3>1 DEF SweepSound
  <2>4. CASE Lookup(p)
    <3>1. CASE SweepOf(p) = Error
      <4>1. Refuse(p)
        BY <2>4, <3>1 DEF Lookup, Look
      <4>2. proc'[p].pc = "refused"
        BY <4>1, GoKeeps DEF Refuse, Shape
      <4> QED
        BY <1>2, <4>2 DEF Sweeping
    <3> QED
      BY <3>1
  <2>5. CASE Compute(p)
    BY <1>2, <2>5 DEF Compute
  <2>6. CASE CreateExclusions(p)
    <3>1. proc[p].pc = "creating"
      BY <2>6 DEF CreateExclusions, At
    <3> QED
      BY <1>2, <2>1, <3>1 DEF ResultOK
  <2>7. CASE Stop(p)
    <3>1. proc'[p].pc = "stopped"
      BY <2>7, GoKeeps DEF Stop, Shape
    <3> QED
      BY <1>2, <3>1 DEF Sweeping
  <2> QED
    BY <2>2, <2>3, <2>4, <2>5, <2>6, <2>7 DEF Work
<1>3. proc'[p].pc \in Sweeping => proc[p].command = "sweep"
  <2>1. ResultOK(p)'
    BY ResultAfterWork DEF ResultsInv
  <2> QED
    BY <1>1, <2>1 DEF ResultOK, Keeps
<1> QED
  BY <1>1, <1>2, <1>3 DEF SweepSound, Keeps

LEMMA SweepSoundStep == ASSUME Shape, ResultsInv, SweepsSound, [Next]_vars PROVE SweepsSound'
<1> SUFFICES ASSUME NEW p \in Procs PROVE SweepSound(p)'
  BY DEF SweepsSound
<1>1. SweepSound(p)
  BY DEF SweepsSound
<1>2. ASSUME proc'[p] = proc[p] PROVE SweepSound(p)'
  BY <1>1, <1>2 DEF SweepSound, SweepOf
<1>3. CASE UNCHANGED vars \/ Spoil \/ Edit
  BY <1>2, <1>3 DEF vars, Spoil, Edit
<1>4. ASSUME NEW q \in Procs, Start(q) \/ Read(q) PROVE SweepSound(p)'
  <2>1. CASE q = p
    <3>1. proc'[p].pc \in {"reading", "computing", "refused"}
      BY <1>4, <2>1, StartEffect, ReadEffect DEF Shape
    <3> QED
      BY <3>1 DEF SweepSound, Sweeping
  <2>2. CASE q # p
    BY <1>2, <1>4, <2>2, StartEffect, ReadEffect DEF Shape
  <2> QED
    BY <2>1, <2>2
<1>5. ASSUME NEW q \in Procs, Work(q) PROVE SweepSound(p)'
  <2>1. CASE q = p
    BY <1>1, <1>5, <2>1, SweepSoundAfterWork
  <2>2. CASE q # p
    BY <1>2, <1>5, <2>2, WorkKeeps DEF Shape, Keeps
  <2> QED
    BY <2>1, <2>2
<1> QED
  BY <1>3, <1>4, <1>5 DEF Next, Work

THEOREM SweepsAreSound == Spec => []SweepsSound
<1>1. Init => SweepsSound
  <2> SUFFICES ASSUME Init, NEW p \in Procs PROVE SweepSound(p)
    BY DEF SweepsSound
  <2>1. proc[p].pc = "idle"
    BY DEF Init, Idle
  <2> QED
    BY <2>1 DEF SweepSound, Sweeping
<1>2. Shape /\ ResultsInv /\ SweepsSound /\ [Next]_vars => SweepsSound'
  BY SweepSoundStep
<1> QED
  BY <1>1, <1>2, ShapeInvariant, ResultsInvariant, PTL DEF Spec

(* What is swept: loaded traces of one pair of models.                     *)
LEMMA SweptOfRead ==
    ASSUME NEW catalog, NEW source, NEW config, SweptOf(catalog, source, config) # Error
    PROVE  /\ Loaded(source) # Error /\ Comparable(source)
           /\ SweptOf(catalog, source, config).points = {SweepPoint(source, s) : s \in SweepThresholds(source, config)}
<1> DEFINE parts == [source |-> source]
<1> DEFINE loaded == [a \in DOMAIN parts |-> Loaded(parts[a])]
<1>1. /\ ~(\E a \in DOMAIN loaded : loaded[a] = Error)
      /\ ToSet(loaded.source[1].pair) \subseteq catalog /\ Swept(loaded.source, config) # Error
      /\ SweptOf(catalog, source, config) = Swept(loaded.source, config)
  BY DEF SweptOf, OfLoaded
<1>2. loaded.source = source /\ Loaded(source) # Error
  BY <1>1, LoadedIsRead
<1>3. Swept(source, config) # Error /\ SweptOf(catalog, source, config) = Swept(source, config)
  BY <1>1, <1>2
<1> QED
  BY <1>2, <1>3 DEF Swept

LEMMA LengthOfList ==
    ASSUME NEW list, IsList(list)
    PROVE  \E n \in Nat : n = Len(list) /\ DOMAIN list = 1..n
BY DEF IsList

(* What LegalTrace says of the strong and the weak outcome.                *)
LEMMA QualitiesIn ==
    ASSUME NEW t, LegalTrace(t), t.pair # None
    PROVE  Strong(t).quality \in Int /\ Weak(t).quality \in Int
<1>1. t.pair[1] \in DOMAIN t.outcomes /\ t.pair[2] \in DOMAIN t.outcomes
  BY DEF LegalTrace, ToSet
<1>2. t.outcomes[t.pair[1]].quality \in 0..Unit /\ t.outcomes[t.pair[2]].quality \in 0..Unit
  BY <1>1 DEF LegalTrace
<1> QED
  BY <1>2, ExperimentsAssumption DEF Strong, Weak

LEMMA ClippedGain ==
    ASSUME NEW a \in Int, NEW b \in Int
    PROVE  Max({0, a - b}) = IF a > b THEN a - b ELSE 0
<1> DEFINE m == IF a > b THEN a - b ELSE 0
<1>1. {0, a - b} \in SUBSET Int /\ m \in {0, a - b} /\ \A y \in {0, a - b} : y <= m
  OBVIOUS
<1> HIDE DEF m
<1>2. Max({0, a - b}) = m
  BY <1>1, MaxIs
<1> QED
  BY <1>2 DEF m

WeakOf(traces) == [i \in DOMAIN traces |-> Weak(traces[i]).quality]
StrongOf(traces) == [i \in DOMAIN traces |-> Strong(traces[i]).quality]

LEMMA SweepPointIs ==
    ASSUME NEW traces, IsList(traces), Loaded(traces) # Error, Comparable(traces), NEW threshold,
           NEW weak, weak = WeakOf(traces),
           NEW strong, strong = StrongOf(traces),
           NEW point, point = SweepPoint(traces, threshold)
    PROVE  /\ point.oracle = BestOf(weak, strong, {s \in SUBSET DOMAIN traces : Cardinality(s) <= point.calls})
           /\ point.quality + point.regret = point.oracle
<1>1. PICK n \in Nat : DOMAIN traces = 1..n
  BY LengthOfList
<1>2. ASSUME NEW i \in 1..n PROVE Strong(traces[i]).quality \in Int /\ Weak(traces[i]).quality \in Int
  BY <1>1, QualitiesIn DEF Loaded, Comparable
<1>3. /\ weak \in Numbers(n) /\ strong \in Numbers(n)
      /\ \A i \in 1..n : weak[i] = Weak(traces[i]).quality /\ strong[i] = Strong(traces[i]).quality
  BY <1>1, <1>2 DEF Numbers, WeakOf, StrongOf
<1> DEFINE chosen == StrongCalls(traces, threshold)
           calls == Cardinality(chosen)
           gains == [i \in DOMAIN traces |-> Max({0, Gain(traces[i])})]
           quality == SumOf([i \in DOMAIN traces |-> Chosen(traces[i], threshold).quality])
           oracle == WeakQuality(traces) + BestGains(traces, calls)
<1>4. point.calls = calls /\ point.quality = quality /\ point.oracle = oracle
      /\ point.regret = Max({0, oracle - quality})
  BY DEF SweepPoint, Point
<1>5. chosen \in SUBSET (1..n) /\ calls \in 0..n
  <2>1. chosen \in SUBSET (1..n)
    BY <1>1 DEF StrongCalls
  <2>2. IsFiniteSet(1..n) /\ Cardinality(1..n) = n
    <3>1. IsFiniteSet(1..n) /\ Cardinality(1..n) = IF 1 > n THEN 0 ELSE n - 1 + 1
      BY FS_Interval
    <3> QED
      BY <3>1
  <2> HIDE DEF chosen
  <2>3. IsFiniteSet(chosen) /\ Cardinality(chosen) <= n
    BY <2>1, <2>2, FS_Subset
  <2>4. Cardinality(chosen) \in Nat
    BY <2>3, FS_CardinalityType
  <2> QED
    BY <2>1, <2>3, <2>4
<1>6. gains \in Numbers(n) /\ \A i \in 1..n : gains[i] = IF strong[i] > weak[i] THEN strong[i] - weak[i] ELSE 0
  <2>1. ASSUME NEW i \in 1..n PROVE gains[i] = IF strong[i] > weak[i] THEN strong[i] - weak[i] ELSE 0
    <3>1. gains[i] = Max({0, strong[i] - weak[i]})
      BY <1>1, <1>3 DEF Gain
    <3>2. strong[i] \in Int /\ weak[i] \in Int
      BY <1>2, <1>3
    <3> HIDE DEF gains
    <3> QED
      BY <3>1, <3>2, ClippedGain
  <2>2. \A i \in 1..n : strong[i] \in Int /\ weak[i] \in Int
    BY <1>2, <1>3
  <2> HIDE DEF gains
  <2>3. ASSUME NEW i \in 1..n PROVE gains[i] \in Int
    <3>1. strong[i] > weak[i] => gains[i] = strong[i] - weak[i]
      BY <2>1
    <3>2. ~(strong[i] > weak[i]) => gains[i] = 0
      BY <2>1
    <3> QED
      BY <2>2, <3>1, <3>2
  <2>4. gains = [i \in 1..n |-> gains[i]]
    BY <1>1 DEF gains
  <2> QED
    BY <2>1, <2>3, <2>4 DEF Numbers
<1>7. oracle = SumOf(weak) + LargestSum(gains, calls)
  BY DEF WeakQuality, BestGains, WeakOf
<1>8. quality = SumOf(Mixed(weak, strong, n, chosen))
  <2>1. ASSUME NEW i \in 1..n
        PROVE  Chosen(traces[i], threshold).quality = IF i \in chosen THEN strong[i] ELSE weak[i]
    BY <1>1, <1>3 DEF Chosen, ChosenModel, StrongCalls, Strong, Weak
  <2>2. [i \in DOMAIN traces |-> Chosen(traces[i], threshold).quality] = Mixed(weak, strong, n, chosen)
    <3> HIDE DEF chosen
    <3> QED
      BY <1>1, <2>1 DEF Mixed
  <2> QED
    BY <2>2
<1> HIDE DEF chosen, gains, quality, oracle
<1>9. /\ BestOf(weak, strong, {s \in SUBSET (1..n) : Cardinality(s) <= calls}) = SumOf(weak) + LargestSum(gains, calls)
      /\ SumOf(weak) + LargestSum(gains, calls) \in Int
      /\ \A c \in SUBSET (1..n) : Cardinality(c) <= calls =>
            SumOf(Mixed(weak, strong, n, c)) <= SumOf(weak) + LargestSum(gains, calls)
  BY <1>3, <1>5, <1>6, BestOfAtMost
<1>10. quality \in Int /\ quality <= oracle /\ oracle \in Int
  <2>1. quality \in Int
    BY <1>3, <1>8, MixedTyped
  <2> QED
    BY <1>5, <1>7, <1>8, <1>9, <2>1
<1>11. Max({0, oracle - quality}) = oracle - quality
  <2>1. Max({0, oracle - quality}) = IF oracle > quality THEN oracle - quality ELSE 0
    BY <1>10, ClippedGain
  <2> QED
    BY <1>10, <2>1
<1> QED
  BY <1>1, <1>4, <1>7, <1>9, <1>10, <1>11

(* SweepOraclesAreOptimal: the greedy oracle that run_threshold_sweep      *)
(* reports with each point, from the cache or not, is the best quality of  *)
(* any choice of at most as many strong calls, and the point's own quality *)
(* and regret add up to it.                                                *)
THEOREM SweepOraclesOptimal == Spec => []SweepOraclesAreOptimal
<1>1. ASSUME Shape, CacheInv, ListInv, SweepsSound, NEW p \in Done("sweep"),
             NEW traces, traces = proc[p].read[2],
             NEW weak, weak = WeakOf(traces),
             NEW strong, strong = StrongOf(traces),
             NEW point \in proc[p].result.report.points
      PROVE  /\ point.oracle = BestOf(weak, strong, {s \in SUBSET DOMAIN traces : Cardinality(s) <= point.calls})
             /\ point.quality + point.regret = point.oracle
  <2>1. p \in Procs /\ proc[p].pc = "done" /\ proc[p].command = "sweep"
    BY DEF Done, At
  <2>2. SweepOK(p) /\ SweepSound(p) /\ ReadLists(p) /\ ReadOK(p)
    BY <1>1, <2>1 DEF CacheInv, SweepsSound, ListInv, Shape
  <2>3. proc[p].result.report = SweptOf(proc[p].read[1], traces, proc[p].args[1])
        /\ SweptOf(proc[p].read[1], traces, proc[p].args[1]) # Error
    BY <1>1, <2>1, <2>2 DEF SweepOK, SweepSound, SweepOf
  <2>4. /\ Loaded(traces) # Error /\ Comparable(traces)
        /\ \E s : point = SweepPoint(traces, s)
    BY <1>1, <2>3, SweptOfRead
  <2>5. PICK threshold : point = SweepPoint(traces, threshold)
    BY <2>4
  <2>6. IsList(traces)
    <3>1. Plan(p) = <<"catalog", "source">>
      BY <2>1 DEF Plan, ReadBy
    <3>2. Len(proc[p].read) = Len(Plan(p)) /\ \E S : proc[p].read \in Seq(S)
      BY <2>1, <2>2 DEF ReadOK, Later
    <3>3. 2 \in DOMAIN proc[p].read /\ Plan(p)[2] \in ListFiles
      BY <3>1, <3>2 DEF ListFiles
    <3> QED
      BY <1>1, <2>2, <3>3 DEF ReadLists
  <2> QED
    BY <1>1, <2>4, <2>6, <2>5, SweepPointIs
<1>2. Shape /\ CacheInv /\ ListInv /\ SweepsSound => SweepOraclesAreOptimal
  BY <1>1 DEF SweepOraclesAreOptimal, WeakOf, StrongOf
<1> QED
  BY <1>2, ShapeInvariant, CacheInvariant, ListInvariant, SweepsAreSound, PTL
-----------------------------------------------------------------------------
(* Numbers listed downwards.                                               *)
LEMMA DescendingLists ==
    ASSUME NEW S \in SUBSET Int, IsFiniteSet(S), NEW list, list = Descending(S)
    PROVE  \E c \in Nat :
           /\ c = Cardinality(S) /\ list \in [1..c -> S]
           /\ \A x \in S : \E i \in 1..c : list[i] = x
           /\ \A i, j \in 1..c : i < j => list[i] > list[j]
<1> DEFINE ahead == [x \in S |-> {y \in S : y > x}]
<1>1. ahead \in [S -> SUBSET S] /\ \A x, y \in S : x \in ahead[y] <=> x > y
  OBVIOUS
<1>2. list = Ordered(S, ahead)
  BY DEF Descending
<1> HIDE DEF ahead
<1>3. /\ \A x \in S : ~(x > x)
      /\ \A x, y, z \in S : z > x /\ x > y => z > y
      /\ \A x, y \in S : x # y => x > y \/ y > x
  OBVIOUS
<1>4. \A x \in S : x \notin ahead[x]
  BY <1>1, <1>3
<1>5. ASSUME NEW x \in S, NEW y \in S, x \in ahead[y] PROVE ahead[x] \subseteq ahead[y]
  BY <1>1, <1>3, <1>5
<1>6. \A x, y \in S : x # y => x \in ahead[y] \/ y \in ahead[x]
  BY <1>1, <1>3
<1>7. PICK c \in Nat : c = Cardinality(S)
  BY FS_CardinalityType
<1>8. /\ list \in [1..c -> S]
      /\ \A x \in S : \E i \in 1..c : list[i] = x
      /\ \A i, j \in 1..c : i < j => list[i] # list[j] /\ list[i] \in ahead[list[j]]
  <2>1. ahead \in [S -> SUBSET S]
    BY <1>1
  <2>2. LET result == Ordered(S, ahead) IN
        /\ result \in [1..Cardinality(S) -> S]
        /\ \A x \in S : \E i \in 1..Cardinality(S) : result[i] = x
        /\ \A i, j \in 1..Cardinality(S) : i < j => result[i] # result[j] /\ result[i] \in ahead[result[j]]
    BY <1>4, <1>5, <1>6, <2>1, OrderedLists
  <2> QED
    BY <1>2, <1>7, <2>2
<1>9. ASSUME NEW i \in 1..c, NEW j \in 1..c, i < j PROVE list[i] > list[j]
  BY <1>1, <1>8, <1>9
<1> QED
  BY <1>7, <1>8, <1>9

(* Places fall into two parts.                                             *)
Parts(U, S, T, n) ==
    /\ U \in SUBSET (1..n) /\ S \in SUBSET (1..n) /\ T \in SUBSET (1..n)
    /\ \A i \in 1..n : i \in U <=> i \in S \/ i \in T
    /\ \A i \in 1..n : ~(i \in S /\ i \in T)

LEMMA PartsCount ==
    ASSUME NEW n \in Nat, NEW U, NEW S, NEW T, Parts(U, S, T, n)
    PROVE  Cardinality(U) = Cardinality(S) + Cardinality(T)
<1>1. IsFiniteSet(1..n)
  BY FS_Interval
<1>2. IsFiniteSet(S) /\ IsFiniteSet(T)
  BY <1>1, FS_Subset DEF Parts
<1>3. Cardinality(S) \in Nat /\ Cardinality(T) \in Nat
  BY <1>2, FS_CardinalityType
<1>4. Cardinality(S \cap T) = 0
  <2>1. Cardinality({}) = 0
    BY FS_EmptySet
  <2>2. S \cap T = {}
    BY DEF Parts
  <2> QED
    BY <2>1, <2>2, Zenon
<1>5. U = S \cup T
  BY DEF Parts
<1>6. Cardinality(S \cup T) = Cardinality(S) + Cardinality(T) - Cardinality(S \cap T)
  BY <1>2, FS_Union
<1> QED
  BY <1>3, <1>4, <1>6, <1>5

(* The first so many of a list, and one more.                              *)
FirstPart(list, k) == [j \in 1..k |-> list[j]]

LEMMA OneMore ==
    ASSUME NEW k \in Nat, k > 0, NEW list
    PROVE  /\ Append(FirstPart(list, k), list[k + 1]) = FirstPart(list, k + 1)
           /\ Last(FirstPart(list, k)) = list[k]
<1> DEFINE part == FirstPart(list, k)
<1>1. part \in Seq({list[j] : j \in 1..k}) /\ \A j \in 1..k : part[j] = list[j]
  BY DEF FirstPart
<1>2. Len(part) = k
  <2>1. DOMAIN part = 1..k
    BY DEF FirstPart
  <2> HIDE DEF part
  <2> QED
    BY <1>1, <2>1, LenProperties
<1>3. Last(part) = list[k]
  <2>1. part[k] = list[k]
    BY <1>1
  <2> HIDE DEF part
  <2> QED
    BY <1>2, <2>1 DEF Last
<1>4. Append(part, list[k + 1]) = [j \in 1..(k + 1) |-> list[j]]
  <2> DEFINE S == {list[j] : j \in 1..k} \cup {list[k + 1]}
  <2>1. part \in Seq(S) /\ list[k + 1] \in S
    <3>1. part \in [1..k -> S]
      BY DEF FirstPart
    <3> QED
      BY <3>1
  <2> HIDE DEF part, S
  <2>2. /\ Append(part, list[k + 1]) \in Seq(S) /\ Len(Append(part, list[k + 1])) = k + 1
        /\ \A j \in 1..k : Append(part, list[k + 1])[j] = part[j]
        /\ Append(part, list[k + 1])[k + 1] = list[k + 1]
    BY <1>2, <2>1, AppendProperties
  <2>3. ASSUME NEW j \in 1..(k + 1) PROVE Append(part, list[k + 1])[j] = list[j]
    <3>1. j \in 1..k \/ j = k + 1
      OBVIOUS
    <3> QED
      BY <1>1, <2>2, <3>1
  <2>4. Append(part, list[k + 1]) = [j \in 1..(k + 1) |-> Append(part, list[k + 1])[j]]
    BY <2>2
  <2> QED
    BY <2>3, <2>4
<1> QED
  BY <1>3, <1>4 DEF FirstPart

(* Rows of an audit, and the scores that occur in them, from the top down. *)
RowsAre(rows, m, score, weak, strong) ==
    /\ DOMAIN rows = 1..m
    /\ \A i \in 1..m : rows[i].score = score[i] /\ rows[i].weak = weak[i] /\ rows[i].strong = strong[i]

Ladder(scores, c, score, m) ==
    /\ scores \in [1..c -> Int] /\ score \in [1..m -> Int]
    /\ \A i \in 1..m : \E k \in 1..c : scores[k] = score[i]
    /\ \A j, k \in 1..c : j < k => scores[j] > scores[k]

(* The rows at or above the k-th score; none above the first.              *)
Reached(scores, score, m, k) == IF k = 0 THEN {} ELSE {i \in 1..m : score[i] >= scores[k]}

AtScore(score, m, s) == {i \in 1..m : score[i] = s}

LEMMA ReachedMore ==
    ASSUME NEW c \in Nat, NEW m \in Nat, NEW scores, NEW score, Ladder(scores, c, score, m), NEW k \in 1..c,
           NEW group, group = AtScore(score, m, scores[k]),
           NEW old, old = Reached(scores, score, m, k - 1), NEW new, new = Reached(scores, score, m, k)
    PROVE  Parts(new, old, group, m)
<1>1. \A i \in 1..m : i \in new <=> score[i] >= scores[k]
  BY DEF Reached
<1>2. \A i \in 1..m : i \in old <=> k # 1 /\ score[i] >= scores[k - 1]
  BY DEF Reached
<1>3. old \in SUBSET (1..m) /\ new \in SUBSET (1..m) /\ group \in SUBSET (1..m)
  BY DEF Reached, AtScore
<1>4. ASSUME NEW i \in 1..m PROVE (score[i] >= scores[k] <=> i \in old \/ score[i] = scores[k])
                                  /\ ~(i \in old /\ score[i] = scores[k])
  <2>1. PICK j \in 1..c : scores[j] = score[i]
    BY DEF Ladder
  <2>2. /\ scores[j] \in Int /\ scores[k] \in Int
        /\ k # 1 => k - 1 \in 1..c /\ scores[k - 1] \in Int /\ scores[k - 1] > scores[k]
    BY DEF Ladder
  <2>3. CASE j = k
    BY <1>2, <2>1, <2>2, <2>3
  <2>4. CASE j > k
    <3>1. scores[k] > scores[j]
      BY <2>4 DEF Ladder
    <3> QED
      BY <1>2, <2>1, <2>2, <3>1
  <2>5. CASE j < k
    <3>1. k # 1 /\ scores[j] > scores[k]
      BY <2>5 DEF Ladder
    <3>2. scores[j] >= scores[k - 1]
      <4>1. j = k - 1 \/ j < k - 1
        BY <2>5
      <4>2. j < k - 1 => scores[j] > scores[k - 1]
        BY <2>2, <3>1 DEF Ladder
      <4> QED
        BY <2>2, <3>1, <4>1, <4>2
    <3> QED
      BY <1>2, <2>1, <2>2, <3>1, <3>2
  <2> QED
    BY <2>3, <2>4, <2>5
<1> QED
  BY <1>1, <1>3, <1>4 DEF AtScore, Parts

PointAt(rows, threshold, m, weak, strong, chosen) ==
    AuditPoint(rows, threshold, Cardinality(chosen), SumOf(Mixed(weak, strong, m, chosen)))

(* The running counts, taken one score further, are those of that score.   *)
LEMMA NextPointIs ==
    ASSUME NEW c \in Nat, NEW m \in Nat, NEW scores, NEW score, Ladder(scores, c, score, m), NEW k \in 1..c,
           NEW rows, NEW weak \in Numbers(m), NEW strong \in Numbers(m), RowsAre(rows, m, score, weak, strong),
           NEW last, last.calls = Cardinality(Reached(scores, score, m, k - 1)),
           last.correct = SumOf(Mixed(weak, strong, m, Reached(scores, score, m, k - 1)))
    PROVE  NextPoint(rows, last, scores[k]) =
              PointAt(rows, scores[k], m, weak, strong, Reached(scores, score, m, k))
<1>1. PICK group, old, new : /\ group = AtScore(score, m, scores[k])
                             /\ old = Reached(scores, score, m, k - 1) /\ new = Reached(scores, score, m, k)
  OBVIOUS
<1>2. Parts(new, old, group, m)
  BY <1>1, ReachedMore
<1>3. Cardinality(new) = Cardinality(old) + Cardinality(group)
  BY <1>2, PartsCount
<1> DEFINE gains == [i \in DOMAIN rows |-> IF i \in group THEN rows[i].strong - rows[i].weak ELSE 0]
<1>4. gains \in Numbers(m) /\ \A i \in 1..m : gains[i] = IF i \in group THEN strong[i] - weak[i] ELSE 0
  BY DEF RowsAre, Numbers
<1>5. SumOf(Mixed(weak, strong, m, new)) = SumOf(Mixed(weak, strong, m, old)) + SumOf(gains)
  <2> HIDE DEF gains
  <2>1. ASSUME NEW i \in 1..m
        PROVE  Mixed(weak, strong, m, new)[i] = Mixed(weak, strong, m, old)[i] + gains[i]
    <3>1. weak[i] \in Int /\ strong[i] \in Int
      BY DEF Numbers
    <3>2. Mixed(weak, strong, m, new)[i] = IF i \in new THEN strong[i] ELSE weak[i]
      BY DEF Mixed
    <3>3. Mixed(weak, strong, m, old)[i] = IF i \in old THEN strong[i] ELSE weak[i]
      BY DEF Mixed
    <3> QED
      BY <1>2, <1>4, <3>1, <3>2, <3>3 DEF Parts
  <2> QED
    BY <1>4, <2>1, MixedTyped, SumAdds
<1>6. {i \in DOMAIN rows : rows[i].score = scores[k]} = group
  BY <1>1 DEF RowsAre, AtScore
<1>7. NextPoint(rows, last, scores[k]) =
         AuditPoint(rows, scores[k], last.calls + Cardinality(group), last.correct + SumOf(gains))
  BY <1>6 DEF NextPoint
<1> HIDE DEF gains
<1> QED
  BY <1>1, <1>3, <1>5, <1>7 DEF PointAt

(* One point for every score after the weak-only point, each with the      *)
(* counts of its score by itself.                                          *)
AuditAt(rows, scores, score, m, weak, strong, k) ==
    PointAt(rows, IF k = 0 THEN None ELSE scores[k], m, weak, strong, Reached(scores, score, m, k))

ScoresIn(rows) == {rows[i].score : i \in DOMAIN rows}

LEMMA AuditPointsAre ==
    ASSUME NEW c \in Nat, NEW m \in Nat, NEW scores, NEW score, Ladder(scores, c, score, m),
           NEW rows, NEW weak \in Numbers(m), NEW strong \in Numbers(m), RowsAre(rows, m, score, weak, strong),
           scores = Descending(ScoresIn(rows))
    PROVE  /\ DOMAIN AuditPoints(rows) = 1..(c + 1)
           /\ \A j \in 1..(c + 1) : AuditPoints(rows)[j] = AuditAt(rows, scores, score, m, weak, strong, j - 1)
<1> DEFINE start == AuditPoint(rows, None, 0, SumOf([i \in DOMAIN rows |-> rows[i].weak]))
           next(points, k) == Append(points, NextPoint(rows, Last(points), scores[k]))
           solves(u) == u = [k \in 0..c |-> IF k = 0 THEN <<start>> ELSE next(u[k - 1], k)]
           P == [j \in 1..(c + 1) |-> AuditAt(rows, scores, score, m, weak, strong, j - 1)]
           u == [k \in 0..c |-> FirstPart(P, k + 1)]
<1>1. Len(scores) = c
  <2>1. scores \in [1..c -> Int]
    BY DEF Ladder
  <2> QED
    BY <2>1, LenProperties
<1>2. AuditPoints(rows) = (CHOOSE f : solves(f))[c]
  BY <1>1 DEF AuditPoints, ScoresIn
<1>3. \A j \in 1..(c + 1) : P[j] = AuditAt(rows, scores, score, m, weak, strong, j - 1)
  OBVIOUS
<1>4. P[1] = start
  <2>1. Reached(scores, score, m, 0) = {}
    BY DEF Reached
  <2>2. [i \in DOMAIN rows |-> rows[i].weak] = weak /\ Mixed(weak, strong, m, {}) = weak
    BY DEF RowsAre, Mixed, Numbers
  <2>3. Cardinality({}) = 0
    BY FS_EmptySet
  <2>4. 1 \in 1..(c + 1) /\ 1 - 1 = 0
    OBVIOUS
  <2> HIDE DEF P
  <2>5. P[1] = AuditAt(rows, scores, score, m, weak, strong, 0)
    BY <1>3, <2>4
  <2> QED
    BY <2>1, <2>2, <2>3, <2>5 DEF AuditAt, PointAt
<1>5. ASSUME NEW k \in 1..c PROVE P[k + 1] = NextPoint(rows, P[k], scores[k])
  <2>1. k \in 1..(c + 1) /\ k + 1 \in 1..(c + 1) /\ (k + 1) - 1 = k /\ k # 0
    OBVIOUS
  <2>2. P[k] = AuditAt(rows, scores, score, m, weak, strong, k - 1)
        /\ P[k + 1] = AuditAt(rows, scores, score, m, weak, strong, k)
    BY <1>3, <2>1
  <2> HIDE DEF P
  <2>3. P[k].calls = Cardinality(Reached(scores, score, m, k - 1))
        /\ P[k].correct = SumOf(Mixed(weak, strong, m, Reached(scores, score, m, k - 1)))
    BY <2>2 DEF AuditAt, PointAt, AuditPoint
  <2>4. NextPoint(rows, P[k], scores[k]) = PointAt(rows, scores[k], m, weak, strong, Reached(scores, score, m, k))
    BY <2>3, NextPointIs
  <2> QED
    BY <2>1, <2>2, <2>4 DEF AuditAt
<1>6. \A k \in 0..c : u[k] = FirstPart(P, k + 1)
  OBVIOUS
<1>7. u[0] = <<start>>
  <2>1. FirstPart(P, 1) = <<start>>
    <3> HIDE DEF P, start
    <3> QED
      BY <1>4 DEF FirstPart
  <2> QED
    BY <1>6, <2>1
<1>8. ASSUME NEW k \in 1..c PROVE u[k] = next(u[k - 1], k)
  <2> HIDE DEF P
  <2>1. k \in Nat /\ k > 0 /\ k - 1 \in 0..c /\ k \in 0..c /\ (k - 1) + 1 = k
    OBVIOUS
  <2>2. u[k - 1] = FirstPart(P, k) /\ u[k] = FirstPart(P, k + 1)
    BY <1>6, <2>1
  <2>3. Append(FirstPart(P, k), P[k + 1]) = FirstPart(P, k + 1) /\ Last(FirstPart(P, k)) = P[k]
    BY <2>1, OneMore
  <2> HIDE DEF u
  <2> QED
    BY <1>5, <2>2, <2>3
<1> HIDE DEF P, start, next
<1>9. solves(u)
  <2>1. \A k \in 0..c : u[k] = IF k = 0 THEN <<start>> ELSE next(u[k - 1], k)
    <3> HIDE DEF u
    <3> QED
      BY <1>7, <1>8
  <2>2. u = [k \in 0..c |-> u[k]]
    OBVIOUS
  <2> HIDE DEF u
  <2> QED
    BY <2>1, <2>2
<1> HIDE DEF u
<1>10. PICK v : solves(v) /\ AuditPoints(rows) = v[c]
  <2>1. solves(CHOOSE f : solves(f))
    <3> HIDE DEF solves
    <3> QED
      BY <1>9
  <2> QED
    BY <1>2, <2>1
<1>11. v[c] = u[c]
  <2> DEFINE C == {k \in 0..c : v[k] = u[k]}
  <2>1. \A k \in 0..c : v[k] = IF k = 0 THEN <<start>> ELSE next(v[k - 1], k)
    BY <1>10
  <2>2. \A k \in 0..c : u[k] = IF k = 0 THEN <<start>> ELSE next(u[k - 1], k)
    BY <1>9
  <2>3. 0 \in C
    BY <2>1, <2>2
  <2>4. ASSUME NEW k \in 1..c, k - 1 \in C PROVE k \in C
    BY <2>1, <2>2, <2>4
  <2>5. c \in C
    <3> HIDE DEF C
    <3> QED
      BY <2>3, <2>4, CountUp
  <2> QED
    BY <2>5
<1>12. AuditPoints(rows) = FirstPart(P, c + 1)
  BY <1>6, <1>10, <1>11
<1> QED
  BY <1>3, <1>12 DEF FirstPart

LEMMA CountOfPlaces ==
    ASSUME NEW n \in Nat, NEW places \in SUBSET (1..n)
    PROVE  IsFiniteSet(places) /\ Cardinality(places) \in 0..n
<1>1. IsFiniteSet(1..n) /\ Cardinality(1..n) = n
  <2>1. IsFiniteSet(1..n) /\ Cardinality(1..n) = IF 1 > n THEN 0 ELSE n - 1 + 1
    BY FS_Interval
  <2> QED
    BY <2>1
<1>2. IsFiniteSet(places) /\ Cardinality(places) <= n
  BY <1>1, FS_Subset
<1>3. Cardinality(places) \in Nat
  BY <1>2, FS_CardinalityType
<1> QED
  BY <1>2, <1>3

(* The value of a single choice.                                           *)
LEMMA BestOfOne ==
    ASSUME NEW n \in Nat, NEW weak \in Numbers(n), NEW strong \in Numbers(n), NEW chosen
    PROVE  BestOf(weak, strong, {chosen}) = SumOf(Mixed(weak, strong, n, chosen))
<1>1. PICK m : m = SumOf(Mixed(weak, strong, n, chosen))
  OBVIOUS
<1>2. m <= m
  BY <1>1, MixedTyped
<1>3. \A other \in {chosen} : SumOf(Mixed(weak, strong, n, other)) <= m
  BY <1>1, <1>2
<1>4. chosen \in {chosen}
  OBVIOUS
<1> QED
  BY <1>1, <1>3, <1>4, BestIs

PlacesOf(m, calls) == {s \in SUBSET (1..m) : Cardinality(s) = calls}

(* A point of an audit is what it is of its threshold by itself.           *)
AtLeast(score, m, threshold) == {i \in 1..m : threshold # None /\ score[i] >= threshold}

OracleOf(weak, strong, m, point, chosen) ==
    /\ point.calls = Cardinality(chosen) /\ point.correct = BestOf(weak, strong, {chosen})
    /\ point.oracle = BestOf(weak, strong, PlacesOf(m, point.calls))

LEMMA AuditAtIs ==
    ASSUME NEW c \in Nat, NEW m \in Nat, NEW scores, NEW score, Ladder(scores, c, score, m),
           NEW rows, NEW weak \in Numbers(m), NEW strong \in Numbers(m), RowsAre(rows, m, score, weak, strong),
           NEW k \in 0..c, NEW point, point = AuditAt(rows, scores, score, m, weak, strong, k),
           NEW chosen, chosen = AtLeast(score, m, point.threshold)
    PROVE  OracleOf(weak, strong, m, point, chosen)
<1> DEFINE threshold == IF k = 0 THEN None ELSE scores[k]
           gains == [i \in DOMAIN rows |-> rows[i].strong - rows[i].weak]
<1>1. k # 0 => threshold \in Int /\ threshold # None
  BY ExperimentsAssumption DEF Ladder
<1>2. PICK reached : reached = Reached(scores, score, m, k)
  OBVIOUS
<1>3. /\ point.threshold = threshold /\ point.calls = Cardinality(reached)
      /\ point.correct = SumOf(Mixed(weak, strong, m, reached))
      /\ point.oracle = SumOf([i \in DOMAIN rows |-> rows[i].weak]) + LargestSum(gains, Cardinality(reached))
  BY <1>2 DEF AuditAt, PointAt, AuditPoint
<1>4. chosen = reached
  BY <1>1, <1>2, <1>3 DEF AtLeast, Reached
<1>5. reached \in SUBSET (1..m)
  BY <1>2 DEF Reached
<1>6. Cardinality(reached) \in 0..m
  BY <1>5, CountOfPlaces
<1>7. gains \in Numbers(m) /\ \A i \in 1..m : gains[i] = strong[i] - weak[i]
  BY DEF RowsAre, Numbers
<1>8. [i \in DOMAIN rows |-> rows[i].weak] = weak
  BY DEF RowsAre, Numbers
<1> HIDE DEF gains, threshold
<1>9. BestOf(weak, strong, PlacesOf(m, Cardinality(reached)))
         = SumOf(weak) + LargestSum(gains, Cardinality(reached))
  BY <1>6, <1>7, BestOfExactly DEF PlacesOf
<1>10. BestOf(weak, strong, {chosen}) = SumOf(Mixed(weak, strong, m, reached))
  BY <1>4, BestOfOne
<1> QED
  BY <1>3, <1>4, <1>8, <1>9, <1>10 DEF OracleOf

(* The records that are not excluded.                                      *)
KeptOf(examples, out) == Ascending({i \in DOMAIN examples : examples[i].prompt \notin out})

LEMMA KeptPlaces ==
    ASSUME NEW examples, IsList(examples), NEW out, NEW kept, kept = KeptOf(examples, out)
    PROVE  \E m \in Nat : DOMAIN kept = 1..m /\ \A n \in 1..m : kept[n] \in 1..Len(examples)
<1>1. PICK N \in Nat : N = Len(examples) /\ DOMAIN examples = 1..N
  BY LengthOfList
<1>2. PICK places : places = {i \in DOMAIN examples : examples[i].prompt \notin out}
  OBVIOUS
<1>3. places \in SUBSET (1..N) /\ places \in SUBSET Nat
  BY <1>1, <1>2
<1>4. IsFiniteSet(places) /\ Cardinality(places) \in Nat
  BY <1>3, CountOfPlaces
<1>5. Ascending(places) \in [1..Cardinality(places) -> places]
  BY <1>3, <1>4, AscendingLists
<1>6. kept \in [1..Cardinality(places) -> places]
  BY <1>2, <1>5 DEF KeptOf
<1> QED
  BY <1>1, <1>3, <1>4, <1>6

WeakRight(right, kept) == [n \in DOMAIN kept |-> right[2 * kept[n] - 1]]
StrongRight(right, kept) == [n \in DOMAIN kept |-> right[2 * kept[n]]]
KeptScores(scores, examples, kept) == [n \in DOMAIN kept |-> scores[examples[kept[n]].id]]
KeptRows(scores, examples, right, kept) ==
    [n \in DOMAIN kept |-> [score |-> scores[examples[kept[n]].id],
                            weak |-> right[2 * kept[n] - 1], strong |-> right[2 * kept[n]]]]

UpToUnit(score, m) == score \in [1..m -> 0..Unit]
Rights(right, examples) == right \in [1..(2 * Len(examples)) -> {0, 1}]

LEMMA AuditedOfRead ==
    ASSUME NEW examples, NEW checkpoint, NEW scores, NEW out, NEW result,
           result = Audited(examples, checkpoint, scores, out), result # Error
    PROVE  /\ Rights(checkpoint.correct, examples)
           /\ ScoresOf(scores, examples)
           /\ result.points = AuditPoints(KeptRows(scores, examples, checkpoint.correct, KeptOf(examples, out)))
BY DEF Audited, Finished, Rights, KeptRows, KeptOf

LEMMA KeptRowsAre ==
    ASSUME NEW examples, IsList(examples), NEW out, NEW kept, kept = KeptOf(examples, out),
           NEW right, Rights(right, examples), NEW scores, ScoresOf(scores, examples),
           NEW rows, rows = KeptRows(scores, examples, right, kept),
           NEW weak, weak = WeakRight(right, kept), NEW strong, strong = StrongRight(right, kept),
           NEW score, score = KeptScores(scores, examples, kept)
    PROVE  \E m \in Nat :
              /\ DOMAIN kept = 1..m /\ weak \in Numbers(m) /\ strong \in Numbers(m)
              /\ RowsAre(rows, m, score, weak, strong)
              /\ UpToUnit(score, m)
<1>1. PICK m \in Nat : DOMAIN kept = 1..m /\ \A n \in 1..m : kept[n] \in 1..Len(examples)
  BY KeptPlaces
<1>2. PICK N \in Nat : N = Len(examples) /\ DOMAIN examples = 1..N
  BY LengthOfList
<1>3. ASSUME NEW n \in 1..m
      PROVE  /\ right[2 * kept[n] - 1] \in Int /\ right[2 * kept[n]] \in Int
             /\ scores[examples[kept[n]].id] \in 0..Unit
  <2>1. PICK i \in 1..N : i = kept[n]
    BY <1>1, <1>2
  <2>2. 2 * i - 1 \in 1..(2 * N) /\ 2 * i \in 1..(2 * N)
    OBVIOUS
  <2>3. right[2 * i - 1] \in {0, 1} /\ right[2 * i] \in {0, 1}
    BY <1>2, <2>2 DEF Rights
  <2>4. examples[i].id \in Ids(examples)
    BY <1>2 DEF Ids
  <2> QED
    BY <2>1, <2>3, <2>4 DEF ScoresOf
<1>4. weak \in Numbers(m)
  BY <1>1, <1>3 DEF WeakRight, Numbers
<1>5. strong \in Numbers(m)
  BY <1>1, <1>3 DEF StrongRight, Numbers
<1>6. UpToUnit(score, m)
  BY <1>1, <1>3 DEF KeptScores, UpToUnit
<1>7. RowsAre(rows, m, score, weak, strong)
  BY <1>1 DEF RowsAre, KeptRows, KeptScores, WeakRight, StrongRight
<1> QED
  BY <1>1, <1>4, <1>5, <1>6, <1>7

LEMMA ScoresDownwards ==
    ASSUME NEW m \in Nat, NEW score, UpToUnit(score, m), NEW rows, NEW weak, NEW strong,
           RowsAre(rows, m, score, weak, strong),
           NEW scores, scores = Descending(ScoresIn(rows))
    PROVE  \E c \in Nat : Ladder(scores, c, score, m)
<1>1. PICK S : S = ScoresIn(rows)
  OBVIOUS
<1>2. S \subseteq 0..Unit /\ \A i \in 1..m : score[i] \in S
  BY <1>1 DEF RowsAre, ScoresIn, UpToUnit
<1>3. S \in SUBSET Int /\ IsFiniteSet(S)
  <2>1. Unit \in Int
    BY ExperimentsAssumption
  <2>2. IsFiniteSet(0..Unit)
    BY <2>1, FS_Interval
  <2>3. IsFiniteSet(S)
    BY <1>2, <2>2, FS_Subset
  <2> QED
    BY <1>2, <2>1, <2>3
<1>4. PICK c \in Nat : /\ scores \in [1..c -> S] /\ \A x \in S : \E i \in 1..c : scores[i] = x
                       /\ \A i, j \in 1..c : i < j => scores[i] > scores[j]
  BY <1>1, <1>3, DescendingLists
<1>5. scores \in [1..c -> Int] /\ score \in [1..m -> Int]
  BY <1>3, <1>4, ExperimentsAssumption DEF UpToUnit
<1>6. \A i \in 1..m : \E k \in 1..c : scores[k] = score[i]
  BY <1>2, <1>4
<1>7. Ladder(scores, c, score, m)
  BY <1>4, <1>5, <1>6 DEF Ladder
<1> QED
  BY <1>7

ExcludedFor(p) == IF proc[p].args THEN proc[p].read[4] ELSE {}
KeptAtLeast(scores, examples, kept, threshold) ==
    {n \in DOMAIN kept : threshold # None /\ scores[examples[kept[n]].id] >= threshold}
KeptChoices(kept, calls) == {s \in SUBSET DOMAIN kept : Cardinality(s) = calls}

AuditedRight(weak, strong, kept, point, chosen) ==
    /\ point.calls = Cardinality(chosen) /\ point.correct = BestOf(weak, strong, {chosen})
    /\ point.oracle = BestOf(weak, strong, KeptChoices(kept, point.calls))

(* AuditOraclesAreOptimal: the running counts of audit_public_scores, which*)
(* takes the scores from the highest down and equal ones together, are     *)
(* those of each threshold by itself, and its oracle the best choice of    *)
(* exactly as many calls.                                                  *)
THEOREM AuditOraclesOptimal == Spec => []AuditOraclesAreOptimal
<1>1. ASSUME Shape, ResultsInv, ListInv, NEW p \in Done("audit"), NEW j \in DOMAIN proc[p].result.points
      PROVE  LET examples == proc[p].read[1]
                 right == proc[p].read[2].correct
                 kept == KeptOf(examples, ExcludedFor(p))
                 point == proc[p].result.points[j]
             IN AuditedRight(WeakRight(right, kept), StrongRight(right, kept), kept, point,
                             KeptAtLeast(proc[p].read[3], examples, kept, point.threshold))
  <2>0. PICK examples, right, kept, weak, strong, point, chosen :
          /\ examples = proc[p].read[1] /\ right = proc[p].read[2].correct
          /\ kept = KeptOf(examples, ExcludedFor(p))
          /\ weak = WeakRight(right, kept) /\ strong = StrongRight(right, kept)
          /\ point = proc[p].result.points[j]
          /\ chosen = KeptAtLeast(proc[p].read[3], examples, kept, point.threshold)
    OBVIOUS
  <2> DEFINE out == ExcludedFor(p)
             scores == proc[p].read[3]
  <2>1. p \in Procs /\ proc[p].pc = "done" /\ proc[p].command = "audit"
    BY DEF Done, At
  <2>2. Holds(p) /\ ReadLists(p) /\ ReadOK(p)
    BY <1>1, <2>0, <2>1 DEF ResultsInv, ResultOK, Computes, ListInv, Shape
  <2>3. proc[p].result = Audited(examples, proc[p].read[2], scores, out) /\ proc[p].result # Error
    BY <1>1, <2>0, <2>1, <2>2 DEF Holds, Computed, ComputedOf, ExcludedFor
  <2>4. IsList(examples)
    <3>1. Len(Plan(p)) >= 3 /\ Plan(p)[1] = "examples"
      BY <2>1 DEF Plan, ReadBy
    <3>2. Len(proc[p].read) = Len(Plan(p)) /\ \E S : proc[p].read \in Seq(S)
      BY <2>1, <2>2 DEF ReadOK, Later
    <3>3. 1 \in DOMAIN proc[p].read /\ Plan(p)[1] \in ListFiles
      BY <3>1, <3>2 DEF ListFiles
    <3> QED
      BY <1>1, <2>0, <2>2, <3>3 DEF ReadLists
  <2> HIDE DEF out
  <2>5. kept = KeptOf(examples, out)
    BY <2>0 DEF out
  <2> HIDE DEF scores
  <2>6. /\ Rights(right, examples) /\ ScoresOf(scores, examples)
        /\ proc[p].result.points = AuditPoints(KeptRows(scores, examples, right, kept))
    BY <1>1, <2>0, <2>3, <2>5, AuditedOfRead
  <2>7. PICK rows, score : rows = KeptRows(scores, examples, right, kept) /\ score = KeptScores(scores, examples, kept)
    OBVIOUS
  <2>8. PICK m \in Nat : /\ DOMAIN kept = 1..m /\ weak \in Numbers(m) /\ strong \in Numbers(m)
                         /\ RowsAre(rows, m, score, weak, strong) /\ UpToUnit(score, m)
    BY <1>1, <2>0, <2>4, <2>5, <2>6, <2>7, KeptRowsAre
  <2>9. PICK list : list = Descending(ScoresIn(rows))
    OBVIOUS
  <2>10. PICK c \in Nat : Ladder(list, c, score, m)
    BY <2>8, <2>9, ScoresDownwards
  <2>11. /\ DOMAIN AuditPoints(rows) = 1..(c + 1)
         /\ \A n \in 1..(c + 1) : AuditPoints(rows)[n] = AuditAt(rows, list, score, m, weak, strong, n - 1)
    BY <2>8, <2>9, <2>10, AuditPointsAre
  <2>12. j - 1 \in 0..c /\ point = AuditAt(rows, list, score, m, weak, strong, j - 1)
    <3>1. proc[p].result.points = AuditPoints(rows)
      BY <2>6, <2>7
    <3>2. j \in 1..(c + 1)
      BY <1>1, <2>0, <2>11, <3>1
    <3>3. point = AuditPoints(rows)[j]
      BY <1>1, <2>0, <3>1
    <3> QED
      BY <2>11, <3>2, <3>3
  <2>13. PICK k \in 0..c : k = j - 1 /\ point = AuditAt(rows, list, score, m, weak, strong, k)
    BY <2>12
  <2>14. chosen = AtLeast(score, m, point.threshold)
    BY <1>1, <2>0, <2>7, <2>8 DEF AtLeast, KeptScores, KeptAtLeast, scores
  <2>15. KeptChoices(kept, point.calls) = PlacesOf(m, point.calls)
    BY <2>8 DEF KeptChoices, PlacesOf
  <2>16. OracleOf(weak, strong, m, point, chosen)
    BY <2>8, <2>10, <2>14, <2>13, AuditAtIs
  <2>17. AuditedRight(weak, strong, kept, point, chosen)
    BY <2>15, <2>16 DEF AuditedRight, OracleOf
  <2> QED
    BY <2>0, <2>17
<1>2. ASSUME Shape, ResultsInv, ListInv PROVE AuditOraclesAreOptimal
  BY <1>1, <1>2 DEF AuditOraclesAreOptimal, AuditedRight, KeptOf, WeakRight, StrongRight, ExcludedFor, KeptAtLeast,
                    KeptChoices
<1> QED
  BY <1>2, ShapeInvariant, ResultsInvariant, ListInvariant, PTL
-----------------------------------------------------------------------------
(* Places up to some place.                                                *)
LEMMA PrefixOfPlaces ==
    ASSUME NEW c \in Nat, NEW S \in SUBSET (1..c), \A g \in S : \A h \in 1..c : h < g => h \in S
    PROVE  S = 1..Cardinality(S) /\ Cardinality(S) \in 0..c
<1> DEFINE T == {x \in 1..(c + 1) : x \notin S}
<1>1. T \in SUBSET Nat /\ c + 1 \in T
  OBVIOUS
<1>2. PICK x \in T : \A y \in T : x <= y
  <2> HIDE DEF T
  <2> QED
    BY <1>1, LeastNatural
<1>3. x \in 1..(c + 1) /\ x \notin S
  OBVIOUS
<1>4. ASSUME NEW g \in 1..c PROVE g \in S <=> g < x
  <2>1. g < x => g \in S
    <3>1. g \notin S => x <= g
      BY <1>2
    <3> QED
      BY <1>3, <3>1
  <2>2. g \in S => g < x
    <3>1. g = x \/ x < g \/ g < x
      BY <1>3
    <3>2. x < g => x \in 1..c
      BY <1>3
    <3> QED
      BY <1>3, <3>1, <3>2
  <2> QED
    BY <2>1, <2>2
<1>5. PICK k \in 0..c : k = x - 1
  BY <1>3
<1>6. S = 1..k
  <2>1. \A g \in S : g \in 1..k
    BY <1>3, <1>4, <1>5
  <2>2. \A g \in 1..k : g \in S
    BY <1>3, <1>4, <1>5
  <2> QED
    BY <2>1, <2>2
<1>7. Cardinality(1..k) = k
  <2>1. Cardinality(1..k) = IF 1 > k THEN 0 ELSE k - 1 + 1
    BY FS_Interval
  <2> QED
    BY <2>1
<1>8. Cardinality(S) = k
  BY <1>6, <1>7, Zenon
<1> QED
  BY <1>6, <1>8

(* Places by the level of their number.                                    *)
Fiber(P, sim, s) == {i \in P : sim[i] = s}
FibersUpTo(P, sim, levels, picked, k) == {i \in P : \E g \in picked : g <= k /\ sim[i] = levels[g]}

(* A list of what is counted at some of the levels.                        *)
Counting(list, c, picked, P, sim, levels) ==
    /\ list \in Numbers(c)
    /\ \A g \in 1..c : list[g] = IF g \in picked THEN Cardinality(Fiber(P, sim, levels[g])) ELSE 0

(* Numbers at each of some levels, added up.                               *)
LEMMA FiberSum ==
    ASSUME NEW c \in Nat, NEW n \in Nat, NEW levels, NEW sim, Ladder(levels, c, sim, n),
           NEW P \in SUBSET (1..n), NEW picked \in SUBSET (1..c),
           NEW list, Counting(list, c, picked, P, sim, levels)
    PROVE  SumOf(list) = Cardinality(FibersUpTo(P, sim, levels, picked, c))
<1>0. /\ list \in Numbers(c)
      /\ \A g \in 1..c : list[g] = IF g \in picked THEN Cardinality(Fiber(P, sim, levels[g])) ELSE 0
  BY DEF Counting
<1>1. PICK u : Runs(list, c, u) /\ SumOf(list) = u[c]
  BY <1>0, SumRuns
<1> DEFINE upTo(k) == FibersUpTo(P, sim, levels, picked, k)
           B == {k \in 0..c : u[k] = Cardinality(upTo(k))}
<1>2. 0 \in B
  <2>1. upTo(0) = {}
    <3>1. \A g \in picked : ~(g <= 0)
      BY SMT
    <3>2. \A i : i \notin upTo(0)
      BY <3>1 DEF FibersUpTo
    <3> QED
      BY <3>2, Zenon
  <2>2. Cardinality({}) = 0
    BY FS_EmptySet
  <2>3. u[0] = 0
    BY <1>1 DEF Runs
  <2>4. Cardinality(upTo(0)) = 0
    BY <2>1, <2>2, Zenon
  <2> QED
    BY <2>3, <2>4
<1>3. ASSUME NEW k \in 1..c, k - 1 \in B PROVE k \in B
  <2>1. u[k] = u[k - 1] + list[k] /\ k - 1 \in 0..c
    BY <1>1 DEF Runs
  <2>2. PICK new, old : new = upTo(k) /\ old = upTo(k - 1)
    OBVIOUS
  <2>3. u[k - 1] = Cardinality(old)
    BY <1>3, <2>2
  <2>4. \A g \in picked : g <= k <=> g <= k - 1 \/ g = k
    OBVIOUS
  <2>5. CASE k \in picked
    <3>1. PICK fiber : fiber = Fiber(P, sim, levels[k])
      OBVIOUS
    <3>2. \A i : i \in new <=> i \in old \/ i \in fiber
      BY <2>2, <2>4, <2>5, <3>1 DEF FibersUpTo, Fiber
    <3>3. ASSUME NEW i, i \in old, i \in fiber PROVE FALSE
      <4>1. PICK g \in picked : g <= k - 1 /\ sim[i] = levels[g]
        BY <2>2, <3>3 DEF FibersUpTo
      <4>2. levels[g] > levels[k] /\ levels[g] \in Int /\ levels[k] \in Int
        BY <4>1 DEF Ladder
      <4>3. sim[i] = levels[k]
        BY <3>1, <3>3 DEF Fiber
      <4> QED
        BY <4>1, <4>2, <4>3
    <3>4. new \in SUBSET (1..n) /\ old \in SUBSET (1..n) /\ fiber \in SUBSET (1..n)
      BY <2>2, <3>1 DEF FibersUpTo, Fiber
    <3>5. Parts(new, old, fiber, n)
      BY <3>2, <3>3, <3>4 DEF Parts
    <3>6. Cardinality(new) = Cardinality(old) + Cardinality(fiber)
      BY <3>5, PartsCount
    <3>7. list[k] = Cardinality(fiber)
      BY <1>0, <2>5, <3>1
    <3> QED
      BY <2>1, <2>2, <2>3, <3>6, <3>7
  <2>6. CASE k \notin picked
    <3>1. new = old
      BY <2>2, <2>4, <2>6 DEF FibersUpTo
    <3>2. list[k] = 0 /\ u[k - 1] \in Int
      BY <1>0, <1>1, <2>1, <2>6 DEF Runs
    <3>3. Cardinality(new) = Cardinality(old)
      BY <3>1, Zenon
    <3> QED
      BY <2>1, <2>2, <2>3, <3>2, <3>3
  <2> QED
    BY <2>5, <2>6
<1>4. c \in B
  <2> HIDE DEF B
  <2> QED
    BY <1>2, <1>3, CountUp
<1> QED
  BY <1>1, <1>4

(* Going down the thresholds, what was reached stays reached.              *)
LEMMA ReachedGrows ==
    ASSUME NEW d \in Nat, NEW n \in Nat, NEW thresholds, NEW sim, NEW k \in 1..d,
           thresholds \in [1..d -> Int], \A i, j \in 1..d : i < j => thresholds[i] > thresholds[j],
           \A i \in 1..n : sim[i] \in Int
    PROVE  /\ Reached(thresholds, sim, n, k - 1) \subseteq Reached(thresholds, sim, n, k)
           /\ Reached(thresholds, sim, n, k) \subseteq 1..n
<1>1. ASSUME NEW i \in Reached(thresholds, sim, n, k - 1) PROVE i \in Reached(thresholds, sim, n, k)
  <2>1. k # 1 /\ i \in 1..n /\ sim[i] >= thresholds[k - 1]
    BY <1>1 DEF Reached
  <2>2. k - 1 \in 1..d /\ thresholds[k - 1] > thresholds[k] /\ thresholds[k - 1] \in Int /\ thresholds[k] \in Int
    BY <2>1
  <2> QED
    BY <2>1, <2>2 DEF Reached
<1> QED
  BY <1>1 DEF Reached

Descends(thresholds, d) ==
    thresholds \in [1..d -> Int] /\ \A i, j \in 1..d : i < j => thresholds[i] > thresholds[j]

NewlyReached(thresholds, levels, c, k) == Reached(thresholds, levels, c, k) \ Reached(thresholds, levels, c, k - 1)

(* The groups that a threshold adds are those that the one before it did   *)
(* not reach.                                                              *)
LEMMA NewGroupsAre ==
    ASSUME NEW c \in Nat, NEW n \in Nat, NEW levels, NEW sim, Ladder(levels, c, sim, n),
           NEW d \in Nat, NEW thresholds, Descends(thresholds, d), NEW k \in 1..d,
           NEW groups, Len(groups) = c, \A g \in 1..c : groups[g].similarity = levels[g],
           NEW taken, taken = Cardinality(Reached(thresholds, levels, c, k - 1)),
           NEW new, new = NewGroups(groups, taken, thresholds[k])
    PROVE  /\ new = NewlyReached(thresholds, levels, c, k)
           /\ taken + Cardinality(new) = Cardinality(Reached(thresholds, levels, c, k))
<1>1. PICK after, before : /\ after = Reached(thresholds, levels, c, k)
                           /\ before = Reached(thresholds, levels, c, k - 1)
  OBVIOUS
<1>2. \A g \in 1..c : levels[g] \in Int
  BY DEF Ladder
<1>3. before \subseteq after /\ after \subseteq 1..c
  BY <1>1, <1>2, ReachedGrows DEF Descends
<1>4. \A g \in before : \A h \in 1..c : h < g => h \in before
  <2> SUFFICES ASSUME NEW g \in before, NEW h \in 1..c, h < g PROVE h \in before
    OBVIOUS
  <2>1. g \in 1..c /\ k # 1 /\ levels[g] >= thresholds[k - 1]
    BY <1>1, <1>3 DEF Reached
  <2>2. levels[h] > levels[g] /\ levels[h] \in Int /\ levels[g] \in Int
    BY <2>1 DEF Ladder
  <2>3. k - 1 \in 1..d /\ thresholds[k - 1] \in Int
    BY <2>1 DEF Descends
  <2> QED
    BY <1>1, <2>1, <2>2, <2>3 DEF Reached
<1>5. before = 1..taken /\ taken \in 0..c
  <2>1. before \in SUBSET (1..c)
    BY <1>3
  <2>2. before = 1..Cardinality(before) /\ Cardinality(before) \in 0..c
    BY <1>4, <2>1, PrefixOfPlaces
  <2> QED
    BY <1>1, <2>2
<1>6. \A g : g \in new <=> g \in (taken + 1)..c /\ levels[g] >= thresholds[k]
  <2>1. \A g \in (taken + 1)..c : g \in 1..c
    BY <1>5
  <2> QED
    BY <2>1 DEF NewGroups, Passes
<1>7. \A g : g \in after <=> g \in 1..c /\ levels[g] >= thresholds[k]
  BY <1>1 DEF Reached
<1>8. \A g : g \in (taken + 1)..c <=> g \in 1..c /\ g \notin 1..taken
  BY <1>5
<1>9. \A g : g \in new <=> g \in after /\ g \notin before
  BY <1>5, <1>6, <1>7, <1>8
<1>10. new = after \ before
  BY <1>9
<1>11. Parts(after, before, new, c)
  BY <1>3, <1>9 DEF Parts
<1>12. Cardinality(after) = Cardinality(before) + Cardinality(new)
  BY <1>11, PartsCount
<1> QED
  BY <1>1, <1>10, <1>12 DEF NewlyReached

(* What a threshold by itself reaches.                                     *)
ReachedOf(P, thresholds, sim, n, k) == Cardinality(Reached(thresholds, sim, n, k) \cap P)

(* The numbers that a threshold adds are those of its new groups.          *)
LEMMA CountsOfNew ==
    ASSUME NEW c \in Nat, NEW n \in Nat, NEW levels, NEW sim, Ladder(levels, c, sim, n),
           NEW d \in Nat, NEW thresholds, Descends(thresholds, d), NEW k \in 1..d, NEW P \in SUBSET (1..n),
           NEW picked, picked = NewlyReached(thresholds, levels, c, k),
           NEW list, Counting(list, c, picked, P, sim, levels)
    PROVE  ReachedOf(P, thresholds, sim, n, k - 1) + SumOf(list) = ReachedOf(P, thresholds, sim, n, k)
<1>1. PICK after, before, added : /\ after = Reached(thresholds, sim, n, k) \cap P
                                  /\ before = Reached(thresholds, sim, n, k - 1) \cap P
                                  /\ added = FibersUpTo(P, sim, levels, picked, c)
  OBVIOUS
<1>2. picked \in SUBSET (1..c)
  BY DEF Reached, NewlyReached
<1>3. SumOf(list) = Cardinality(added)
  BY <1>1, <1>2, FiberSum
<1>4. \A i \in 1..n : sim[i] \in Int
  BY DEF Ladder
<1>5. Reached(thresholds, sim, n, k - 1) \subseteq Reached(thresholds, sim, n, k)
  BY <1>4, ReachedGrows DEF Descends
<1>6. ASSUME NEW i \in P PROVE i \in added <=> i \in after /\ i \notin before
  <2>1. i \in 1..n
    OBVIOUS
  <2>2. i \in added <=> \E g \in picked : sim[i] = levels[g]
    BY <1>1, <1>2 DEF FibersUpTo
  <2>3. PICK h \in 1..c : levels[h] = sim[i]
    BY <2>1 DEF Ladder
  <2>4. i \in after <=> h \in Reached(thresholds, levels, c, k)
    BY <1>1, <2>1, <2>3 DEF Reached
  <2>5. i \in before <=> h \in Reached(thresholds, levels, c, k - 1)
    BY <1>1, <2>1, <2>3 DEF Reached
  <2>6. ASSUME NEW g \in picked, sim[i] = levels[g] PROVE g = h
    <3>1. g \in 1..c
      BY <1>2
    <3>2. g < h \/ h < g \/ g = h
      BY <3>1
    <3>3. (g < h => levels[g] > levels[h]) /\ (h < g => levels[h] > levels[g])
      BY <3>1 DEF Ladder
    <3>4. levels[g] \in Int
      BY <3>1 DEF Ladder
    <3> QED
      BY <2>3, <2>6, <3>2, <3>3, <3>4
  <2> QED
    BY <2>2, <2>3, <2>4, <2>5, <2>6 DEF NewlyReached
<1>7. after \subseteq P /\ before \subseteq after /\ added \subseteq P
  BY <1>1, <1>5 DEF FibersUpTo
<1>8. Parts(after, before, added, n)
  BY <1>6, <1>7 DEF Parts
<1>9. Cardinality(after) = Cardinality(before) + Cardinality(added)
  BY <1>8, PartsCount
<1> QED
  BY <1>1, <1>3, <1>9 DEF ReachedOf

(* The state of the sweep down the thresholds behind one of them.          *)
CountsAt(thresholds, sim, n, right, k) ==
    [threshold |-> thresholds[k], covered |-> ReachedOf(1..n, thresholds, sim, n, k),
     correct |-> ReachedOf(right, thresholds, sim, n, k)]

CountsUpTo(thresholds, sim, n, right, k) == {CountsAt(thresholds, sim, n, right, j) : j \in 1..k}

SweptTo(thresholds, levels, c, sim, n, right, k) ==
    [taken |-> Cardinality(Reached(thresholds, levels, c, k)),
     covered |-> ReachedOf(1..n, thresholds, sim, n, k),
     correct |-> ReachedOf(right, thresholds, sim, n, k),
     points |-> CountsUpTo(thresholds, sim, n, right, k)]

LevelGroups(groups, levels, c, sim, n, right) ==
    /\ Len(groups) = c /\ DOMAIN groups = 1..c
    /\ \A g \in 1..c : /\ groups[g].similarity = levels[g]
                       /\ groups[g].count = Cardinality(Fiber(1..n, sim, levels[g]))
                       /\ groups[g].correct = Cardinality(Fiber(right, sim, levels[g]))

LEMMA FiberCount ==
    ASSUME NEW n \in Nat, NEW P \in SUBSET (1..n), NEW sim, NEW s
    PROVE  Cardinality(Fiber(P, sim, s)) \in Nat
<1>1. IsFiniteSet(1..n)
  BY FS_Interval
<1>2. Fiber(P, sim, s) \subseteq 1..n
  BY DEF Fiber
<1>3. IsFiniteSet(Fiber(P, sim, s))
  BY <1>1, <1>2, FS_Subset
<1> QED
  BY <1>3, FS_CardinalityType

(* Taking up what a threshold adds leads from one state to the next.       *)
LEMMA TakeUpIs ==
    ASSUME NEW c \in Nat, NEW n \in Nat, NEW levels, NEW sim, Ladder(levels, c, sim, n),
           NEW d \in Nat, NEW thresholds, Descends(thresholds, d), NEW k \in 1..d, NEW right \in SUBSET (1..n),
           NEW groups, LevelGroups(groups, levels, c, sim, n, right),
           NEW acc, acc = SweptTo(thresholds, levels, c, sim, n, right, k - 1)
    PROVE  TakeUp(groups, acc, thresholds[k]) = SweptTo(thresholds, levels, c, sim, n, right, k)
<1>1. PICK new : new = NewGroups(groups, acc.taken, thresholds[k])
  OBVIOUS
<1>2. /\ acc.taken = Cardinality(Reached(thresholds, levels, c, k - 1))
      /\ acc.covered = ReachedOf(1..n, thresholds, sim, n, k - 1)
      /\ acc.correct = ReachedOf(right, thresholds, sim, n, k - 1)
      /\ acc.points = CountsUpTo(thresholds, sim, n, right, k - 1)
  BY DEF SweptTo
<1>3. /\ new = NewlyReached(thresholds, levels, c, k)
      /\ acc.taken + Cardinality(new) = Cardinality(Reached(thresholds, levels, c, k))
  <2>1. Len(groups) = c /\ \A g \in 1..c : groups[g].similarity = levels[g]
    BY DEF LevelGroups
  <2> QED
    BY <1>1, <1>2, <2>1, NewGroupsAre
<1> DEFINE counts == [g \in DOMAIN groups |-> IF g \in new THEN groups[g].count ELSE 0]
           rights == [g \in DOMAIN groups |-> IF g \in new THEN groups[g].correct ELSE 0]
<1>4. Counting(counts, c, new, 1..n, sim, levels)
  <2>1. 1..n \in SUBSET (1..n)
    OBVIOUS
  <2>2. \A g \in 1..c : Cardinality(Fiber(1..n, sim, levels[g])) \in Nat
    BY <2>1, FiberCount
  <2> QED
    BY <2>2 DEF LevelGroups, Counting, Numbers
<1>5. Counting(rights, c, new, right, sim, levels)
  <2>1. \A g \in 1..c : Cardinality(Fiber(right, sim, levels[g])) \in Nat
    BY FiberCount
  <2> QED
    BY <2>1 DEF LevelGroups, Counting, Numbers
<1>6. TakeUp(groups, acc, thresholds[k]) =
         [taken |-> acc.taken + Cardinality(new),
          covered |-> acc.covered + SumOf(counts), correct |-> acc.correct + SumOf(rights),
          points |-> acc.points \cup {[threshold |-> thresholds[k], covered |-> acc.covered + SumOf(counts),
                                       correct |-> acc.correct + SumOf(rights)]}]
  BY <1>1 DEF TakeUp
<1> HIDE DEF counts, rights
<1>7. acc.covered + SumOf(counts) = ReachedOf(1..n, thresholds, sim, n, k)
  <2>1. 1..n \in SUBSET (1..n)
    OBVIOUS
  <2> QED
    BY <1>2, <1>3, <1>4, <2>1, CountsOfNew
<1>8. acc.correct + SumOf(rights) = ReachedOf(right, thresholds, sim, n, k)
  BY <1>2, <1>3, <1>5, CountsOfNew
<1>9. acc.points \cup {CountsAt(thresholds, sim, n, right, k)} = CountsUpTo(thresholds, sim, n, right, k)
  <2>1. \A j : j \in 1..k <=> j \in 1..(k - 1) \/ j = k
    OBVIOUS
  <2>2. \A x : x \in CountsUpTo(thresholds, sim, n, right, k) <=>
                  \/ x \in CountsUpTo(thresholds, sim, n, right, k - 1)
                  \/ x = CountsAt(thresholds, sim, n, right, k)
    BY <2>1 DEF CountsUpTo
  <2> QED
    BY <1>2, <2>2
<1> QED
  BY <1>3, <1>6, <1>7, <1>8, <1>9 DEF SweptTo, CountsAt

LEMMA SweepDownIs ==
    ASSUME NEW c \in Nat, NEW n \in Nat, NEW levels, NEW sim, Ladder(levels, c, sim, n),
           NEW d \in Nat, NEW thresholds, Descends(thresholds, d), NEW right \in SUBSET (1..n),
           NEW groups, LevelGroups(groups, levels, c, sim, n, right)
    PROVE  SweepDown(groups, thresholds) = CountsUpTo(thresholds, sim, n, right, d)
<1> DEFINE start == [taken |-> 0, covered |-> 0, correct |-> 0, points |-> {}]
           next(acc, k) == TakeUp(groups, acc, thresholds[k])
           solves(u) == u = [k \in 0..d |-> IF k = 0 THEN start ELSE next(u[k - 1], k)]
           u == [k \in 0..d |-> SweptTo(thresholds, levels, c, sim, n, right, k)]
<1>1. Len(thresholds) = d
  <2>1. thresholds \in [1..d -> Int]
    BY DEF Descends
  <2> QED
    BY <2>1, LenProperties
<1>2. SweepDown(groups, thresholds) = (CHOOSE f : solves(f))[d].points
  BY <1>1 DEF SweepDown
<1>3. u[0] = start
  <2>1. Cardinality({}) = 0
    BY FS_EmptySet
  <2>2. Reached(thresholds, levels, c, 0) = {} /\ \A P : ReachedOf(P, thresholds, sim, n, 0) = Cardinality({})
    <3>1. Reached(thresholds, levels, c, 0) = {} /\ Reached(thresholds, sim, n, 0) = {}
      BY DEF Reached
    <3>2. \A P : {} \cap P = {}
      OBVIOUS
    <3> QED
      BY <3>1, <3>2, Zenon DEF ReachedOf
  <2>3. CountsUpTo(thresholds, sim, n, right, 0) = {}
    BY DEF CountsUpTo
  <2>4. Cardinality(Reached(thresholds, levels, c, 0)) = 0
    BY <2>1, <2>2, Zenon
  <2>5. u[0] = SweptTo(thresholds, levels, c, sim, n, right, 0)
    OBVIOUS
  <2> HIDE DEF u
  <2> QED
    BY <2>1, <2>2, <2>3, <2>4, <2>5 DEF SweptTo
<1>4. ASSUME NEW k \in 1..d PROVE u[k] = next(u[k - 1], k)
  <2>1. k - 1 \in 0..d /\ k \in 0..d
    OBVIOUS
  <2>2. u[k - 1] = SweptTo(thresholds, levels, c, sim, n, right, k - 1)
        /\ u[k] = SweptTo(thresholds, levels, c, sim, n, right, k)
    BY <2>1
  <2> HIDE DEF u
  <2> QED
    BY <2>2, TakeUpIs
<1> HIDE DEF start, next
<1>5. solves(u)
  <2>1. \A k \in 0..d : u[k] = IF k = 0 THEN start ELSE next(u[k - 1], k)
    <3> HIDE DEF u
    <3> QED
      BY <1>3, <1>4
  <2>2. u = [k \in 0..d |-> u[k]]
    OBVIOUS
  <2> HIDE DEF u
  <2> QED
    BY <2>1, <2>2
<1>6. u[d].points = CountsUpTo(thresholds, sim, n, right, d)
  BY DEF SweptTo
<1> HIDE DEF u
<1>7. PICK v : solves(v) /\ SweepDown(groups, thresholds) = v[d].points
  <2>1. solves(CHOOSE f : solves(f))
    <3> HIDE DEF solves
    <3> QED
      BY <1>5
  <2> QED
    BY <1>2, <2>1
<1>8. v[d] = u[d]
  <2> DEFINE C == {k \in 0..d : v[k] = u[k]}
  <2>1. \A k \in 0..d : v[k] = IF k = 0 THEN start ELSE next(v[k - 1], k)
    BY <1>7
  <2>2. \A k \in 0..d : u[k] = IF k = 0 THEN start ELSE next(u[k - 1], k)
    BY <1>5
  <2>3. 0 \in C
    BY <2>1, <2>2
  <2>4. ASSUME NEW k \in 1..d, k - 1 \in C PROVE k \in C
    BY <2>1, <2>2, <2>4
  <2>5. d \in C
    <3> HIDE DEF C
    <3> QED
      BY <2>3, <2>4, CountUp
  <2> QED
    BY <2>5
<1> QED
  BY <1>6, <1>7, <1>8

(* Observations: how similar each is, and the places of the right ones.    *)
Seeing(seen, n, sim, right) ==
    /\ DOMAIN seen = 1..n /\ sim \in [1..n -> Int] /\ right \in SUBSET (1..n)
    /\ \A i \in 1..n : seen[i].similarity = sim[i] /\ (seen[i].correct <=> i \in right)

ValuesIn(seen) == {seen[i].similarity : i \in DOMAIN seen}

LEMMA ValuesAre ==
    ASSUME NEW n \in Nat, NEW seen, NEW sim, NEW right, Seeing(seen, n, sim, right),
           NEW values, values = ValuesIn(seen)
    PROVE  values \in SUBSET Int /\ IsFiniteSet(values) /\ \A i \in 1..n : sim[i] \in values
<1>1. values \in SUBSET Int /\ \A i \in 1..n : sim[i] \in values
  BY DEF Seeing, ValuesIn
<1>2. \A v \in values : \E i \in 1..n : sim[i] = v
  BY DEF Seeing, ValuesIn
<1>3. sim \in [1..n -> values]
  BY <1>1 DEF Seeing
<1>4. sim \in Surjection(1..n, values)
  BY <1>2, <1>3 DEF Surjection
<1>5. IsFiniteSet(1..n)
  BY FS_Interval
<1> QED
  BY <1>1, <1>4, <1>5, FS_Surjection

(* The groups of the calibration, from the most similar down.              *)
GroupOf(seen, s) ==
    [similarity |-> s, count |-> Cardinality({i \in DOMAIN seen : seen[i].similarity = s}),
     correct |-> Cardinality({i \in DOMAIN seen : seen[i].similarity = s /\ seen[i].correct})]

GroupsDown(seen, levels) == [i \in DOMAIN levels |-> GroupOf(seen, levels[i])]

LEMMA GroupsDownAre ==
    ASSUME NEW n \in Nat, NEW seen, NEW sim, NEW right, Seeing(seen, n, sim, right),
           NEW c \in Nat, NEW levels, DOMAIN levels = 1..c
    PROVE  LevelGroups(GroupsDown(seen, levels), levels, c, sim, n, right)
<1> DEFINE groups == GroupsDown(seen, levels)
<1>1. DOMAIN groups = 1..c /\ \A g \in 1..c : groups[g] = GroupOf(seen, levels[g])
  BY DEF GroupsDown
<1>2. Len(groups) = c
  <2>1. groups = [g \in 1..c |-> groups[g]]
    BY DEF GroupsDown
  <2> HIDE DEF groups
  <2> QED
    BY <2>1, LenProperties
<1> HIDE DEF groups
<1>3. ASSUME NEW g \in 1..c
      PROVE  /\ groups[g].similarity = levels[g]
             /\ groups[g].count = Cardinality(Fiber(1..n, sim, levels[g]))
             /\ groups[g].correct = Cardinality(Fiber(right, sim, levels[g]))
  <2>1. PICK s : s = levels[g]
    OBVIOUS
  <2>2. {i \in DOMAIN seen : seen[i].similarity = s} = Fiber(1..n, sim, s)
    BY DEF Seeing, Fiber
  <2>3. {i \in DOMAIN seen : seen[i].similarity = s /\ seen[i].correct} = Fiber(right, sim, s)
    BY DEF Seeing, Fiber
  <2>4. groups[g] = GroupOf(seen, s)
    BY <1>1, <2>1
  <2>5. /\ GroupOf(seen, s).similarity = s
        /\ GroupOf(seen, s).count = Cardinality({i \in DOMAIN seen : seen[i].similarity = s})
        /\ GroupOf(seen, s).correct = Cardinality({i \in DOMAIN seen : seen[i].similarity = s /\ seen[i].correct})
    BY DEF GroupOf
  <2>6. /\ GroupOf(seen, s).count = Cardinality(Fiber(1..n, sim, s))
        /\ GroupOf(seen, s).correct = Cardinality(Fiber(right, sim, s))
    BY <2>2, <2>3, <2>5, Zenon
  <2> QED
    BY <2>1, <2>4, <2>5, <2>6
<1>4. LevelGroups(groups, levels, c, sim, n, right)
  BY <1>1, <1>2, <1>3 DEF LevelGroups
<1> QED
  BY <1>4 DEF groups

LEMMA CountsAreEvaluated ==
    ASSUME NEW n \in Nat, NEW seen, NEW sim, NEW right, Seeing(seen, n, sim, right),
           NEW thresholds, NEW k, k # 0, NEW point, point = CountsAt(thresholds, sim, n, right, k)
    PROVE  [covered |-> point.covered, correct |-> point.correct] = Evaluated(seen, point.threshold)
<1>1. PICK s : s = thresholds[k]
  OBVIOUS
<1>2. PICK covered : covered = {i \in DOMAIN seen : seen[i].similarity >= s}
  OBVIOUS
<1>3. covered = Reached(thresholds, sim, n, k) \cap (1..n)
  BY <1>1, <1>2 DEF Seeing, Reached
<1>4. {i \in covered : seen[i].correct} = Reached(thresholds, sim, n, k) \cap right
  BY <1>1, <1>2 DEF Seeing, Reached
<1>5. /\ point.threshold = s
      /\ point.covered = Cardinality(Reached(thresholds, sim, n, k) \cap (1..n))
      /\ point.correct = Cardinality(Reached(thresholds, sim, n, k) \cap right)
  BY <1>1 DEF CountsAt, ReachedOf
<1>6. Evaluated(seen, s) = [covered |-> Cardinality(covered), correct |-> Cardinality({i \in covered : seen[i].correct})]
  BY <1>2 DEF Evaluated
<1> QED
  BY <1>3, <1>4, <1>5, <1>6

(* Every calibration point counts what its threshold by itself reaches.    *)
LEMMA SimilarityPointsExact ==
    ASSUME NEW n \in Nat, NEW seen, NEW sim, NEW right, Seeing(seen, n, sim, right),
           NEW point \in SimilarityPoints(seen)
    PROVE  [covered |-> point.covered, correct |-> point.correct] = Evaluated(seen, point.threshold)
<1>1. PICK values, all, levels, thresholds :
        /\ values = ValuesIn(seen) /\ all = values \cup {0, Unit}
        /\ levels = Descending(values) /\ thresholds = Descending(all)
  OBVIOUS
<1>2. values \in SUBSET Int /\ IsFiniteSet(values) /\ \A i \in 1..n : sim[i] \in values
  BY <1>1, ValuesAre
<1>3. all \in SUBSET Int /\ IsFiniteSet(all)
  <2>1. IsFiniteSet({0, Unit})
    <3>1. Unit \in Nat
      BY ExperimentsAssumption
    <3>2. IsFiniteSet(0..Unit)
      BY <3>1, FS_Interval
    <3>3. {0, Unit} \in SUBSET (0..Unit)
      BY <3>1
    <3> QED
      BY <3>3, <3>2, FS_Subset
  <2>2. IsFiniteSet(values \cup {0, Unit})
    BY <1>2, <2>1, FS_Union
  <2> QED
    BY <1>1, <1>2, <2>2, ExperimentsAssumption
<1>4. PICK c \in Nat : /\ levels \in [1..c -> values]
                       /\ \A x \in values : \E i \in 1..c : levels[i] = x
                       /\ \A i, j \in 1..c : i < j => levels[i] > levels[j]
  <2>1. values \in SUBSET Int /\ IsFiniteSet(values)
    BY <1>2
  <2> QED
    BY <1>1, <2>1, DescendingLists
<1>5. PICK d \in Nat : /\ thresholds \in [1..d -> all]
                       /\ \A i, j \in 1..d : i < j => thresholds[i] > thresholds[j]
  BY <1>1, <1>3, DescendingLists
<1>6. Ladder(levels, c, sim, n)
  <2>1. levels \in [1..c -> Int] /\ \A i \in 1..n : \E k \in 1..c : levels[k] = sim[i]
    BY <1>2, <1>4
  <2> QED
    BY <1>4, <2>1 DEF Ladder, Seeing
<1>7. Descends(thresholds, d)
  BY <1>3, <1>5 DEF Descends
<1>8. PICK groups : groups = GroupsDown(seen, levels)
  OBVIOUS
<1>9. LevelGroups(groups, levels, c, sim, n, right)
  BY <1>4, <1>8, GroupsDownAre
<1>10. SimilarityPoints(seen) = SweepDown(groups, thresholds)
  BY <1>1, <1>8 DEF SimilarityPoints, GroupsDown, GroupOf, ValuesIn
<1>11. right \in SUBSET (1..n)
  BY DEF Seeing
<1>12. point \in CountsUpTo(thresholds, sim, n, right, d)
  BY <1>6, <1>7, <1>9, <1>10, <1>11, SweepDownIs
<1>13. PICK k \in 1..d : point = CountsAt(thresholds, sim, n, right, k)
  BY <1>12 DEF CountsUpTo
<1> QED
  BY <1>13, CountsAreEvaluated

LEMMA TracesAreLegal ==
    ASSUME NEW traces, Loaded(traces) = traces, traces # Error
    PROVE  traces # <<>> /\ \A i \in DOMAIN traces : LegalTrace(traces[i])
BY DEF Loaded

(* The model of the similarity router: a whole number for every label.     *)
PlacesOfLabel(traces, label) == {i \in DOMAIN traces : traces[i].preferred = label}

LEMMA PrototypesAre ==
    ASSUME NEW traces, IsList(traces), Loaded(traces) = traces, traces # Error, NEW label \in Labels(traces)
    PROVE  Prototypes(traces)[label] \in Int /\ label \in Nat
<1>1. PICK n \in Nat : n = Len(traces) /\ DOMAIN traces = 1..n
  BY LengthOfList
<1>2. PICK places : places = PlacesOfLabel(traces, label)
  OBVIOUS
<1> DEFINE list == [i \in DOMAIN traces |-> IF i \in places THEN traces[i].topic ELSE 0]
<1>3. \A i \in 1..n : LegalTrace(traces[i])
  BY <1>1, TracesAreLegal
<1>4. list \in Numbers(n)
  <2>1. \A i \in 1..n : traces[i].topic \in Int
    BY <1>3, ExperimentsAssumption DEF LegalTrace
  <2> QED
    BY <1>1, <2>1 DEF Numbers
<1>5. SumOf(list) \in Int
  <2> HIDE DEF list
  <2> QED
    BY <1>4, SumTyped
<1>6. Cardinality(places) \in Nat /\ Cardinality(places) > 0
  <2>1. places \in SUBSET (1..n) /\ \E i : i \in places
    BY <1>1, <1>2 DEF Labels, PlacesOfLabel
  <2>2. IsFiniteSet(1..n)
    BY FS_Interval
  <2>3. IsFiniteSet(places) /\ places # {}
    BY <2>1, <2>2, FS_Subset
  <2> QED
    BY <2>3, FS_EmptySet, FS_CardinalityType
<1>7. Prototypes(traces)[label] = SumOf(list) \div Cardinality(places)
  BY <1>2 DEF Prototypes, PlacesOfLabel
<1>8. label \in Nat
  <2>1. PICK i \in 1..n : traces[i].preferred = label /\ label # None
    BY <1>1 DEF Labels
  <2> QED
    BY <1>3, <2>1 DEF LegalTrace
<1> HIDE DEF list
<1> QED
  BY <1>5, <1>6, <1>7, <1>8

LEMMA MatchIs ==
    ASSUME NEW prototypes, NEW t, NEW D, D = DOMAIN prototypes, D \in SUBSET Nat, D # {},
           t.topic \in Int, \A m \in D : prototypes[m] \in Int
    PROVE  Match(prototypes, t) \in D
<1> DEFINE value == [m \in D |-> -Similarity(t.topic, prototypes[m])]
           key == [m \in D |-> <<-Similarity(t.topic, prototypes[m]), m>>]
<1>1. Match(prototypes, t) = LeastOf(D, key)
  BY DEF Match, Least
<1>2. \A m \in D : Similarity(t.topic, prototypes[m]) \in Int /\ Similarity(t.topic, prototypes[m]) <= Unit
  BY ExperimentsAssumption DEF Similarity
<1>3. /\ -Unit \in Int
      /\ \A m \in D : value[m] \in Int /\ -Unit <= value[m]
      /\ \A m \in D : key[m] = <<value[m], m>>
  BY <1>2, ExperimentsAssumption
<1> HIDE DEF value, key
<1> QED
  BY <1>1, <1>3, LeastOfPairs

Similarities(seen) == [i \in DOMAIN seen |-> seen[i].similarity]
RightPlaces(seen) == {i \in DOMAIN seen : seen[i].correct}

LEMMA ObservationsAre ==
    ASSUME NEW traces, IsList(traces), Loaded(traces) = traces, traces # Error,
           NEW prototypes, DOMAIN prototypes \in SUBSET Nat, DOMAIN prototypes # {},
           \A m \in DOMAIN prototypes : prototypes[m] \in Int,
           NEW seen, seen = Observations(prototypes, traces)
    PROVE  \E n \in Nat : Seeing(seen, n, Similarities(seen), RightPlaces(seen))
<1>1. PICK n \in Nat : n = Len(traces) /\ DOMAIN traces = 1..n
  BY LengthOfList
<1>2. DOMAIN seen = 1..n
  BY <1>1 DEF Observations
<1>3. ASSUME NEW i \in 1..n PROVE seen[i].similarity \in Int
  <2>1. PICK m : m = Match(prototypes, traces[i])
    OBVIOUS
  <2>2. traces[i].topic \in Int
    BY <1>1, <1>3, TracesAreLegal, ExperimentsAssumption DEF LegalTrace
  <2>3. m \in DOMAIN prototypes
    BY <2>1, <2>2, MatchIs
  <2>4. seen[i].similarity = Similarity(traces[i].topic, prototypes[m])
    BY <1>1, <1>3, <2>1 DEF Observations
  <2> QED
    BY <2>2, <2>3, <2>4, ExperimentsAssumption DEF Similarity
<1> QED
  BY <1>2, <1>3 DEF Seeing, Similarities, RightPlaces

(* A report of the similarity router is about what it read.                *)
ThreeParts(train, calibration, test) == [train |-> train, calibration |-> calibration, test |-> test]

FittedTo(parts, by, coverage) == OfLoaded(parts, LAMBDA d : Fitted(d, by, coverage))

LEMMA FittedIs ==
    ASSUME NEW train, NEW calibration, NEW test, NEW by, NEW coverage, NEW result,
           result = FittedTo(ThreeParts(train, calibration, test), by, coverage), result # Error
    PROVE  /\ Loaded(train) = train /\ train # Error
           /\ Loaded(calibration) = calibration /\ calibration # Error
           /\ AllLabelled(ThreeParts(train, calibration, test))
           /\ Labels(calibration) \subseteq DOMAIN Prototypes(train)
           /\ result.prototypes = Prototypes(train)
           /\ result.points = SimilarityPoints(Observations(Prototypes(train), calibration))
<1> DEFINE parts == ThreeParts(train, calibration, test)
           loaded == [a \in DOMAIN parts |-> Loaded(parts[a])]
<1>1. ~(\E a \in DOMAIN loaded : loaded[a] = Error) /\ result = Fitted(loaded, by, coverage)
  BY DEF OfLoaded, FittedTo
<1>2. \A a \in DOMAIN parts : loaded[a] = parts[a]
  BY <1>1, LoadedIsRead
<1>3. loaded = parts
  BY <1>2 DEF ThreeParts
<1>4. Loaded(train) = train /\ train # Error /\ Loaded(calibration) = calibration /\ calibration # Error
  <2>1. /\ "train" \in DOMAIN parts /\ "calibration" \in DOMAIN parts
        /\ parts.train = train /\ parts.calibration = calibration
    BY DEF ThreeParts
  <2>2. loaded["train"] = Loaded(parts.train) /\ loaded["calibration"] = Loaded(parts.calibration)
    BY <2>1
  <2>3. loaded["train"] # Error /\ loaded["calibration"] # Error
    BY <1>1, <2>1
  <2> HIDE DEF loaded
  <2> QED
    BY <1>2, <2>1, <2>2, <2>3
<1>5. result = Fitted(parts, by, coverage)
  BY <1>1, <1>3
<1> HIDE DEF loaded
<1>6. parts.train = train /\ parts.calibration = calibration /\ parts.test = test
  BY DEF ThreeParts
<1> HIDE DEF parts
<1>7. PICK prototypes, points, feasible :
         /\ prototypes = Prototypes(train) /\ points = SimilarityPoints(Observations(prototypes, calibration))
         /\ feasible = Feasible(points, Len(calibration), coverage)
  OBVIOUS
<1>8. /\ AllLabelled(parts) /\ Labels(calibration) \cup Labels(test) \subseteq DOMAIN prototypes
      /\ result = Reported(parts, prototypes, points, feasible)
  BY <1>5, <1>6, <1>7 DEF Fitted
<1>9. result.prototypes = prototypes /\ result.points = points
  BY <1>8 DEF Reported
<1> QED
  BY <1>4, <1>7, <1>8, <1>9 DEF parts

(* The label of any trace is one to match.                                 *)
LEMMA LabelsExist ==
    ASSUME NEW traces, IsList(traces), Loaded(traces) = traces, traces # Error,
           \A i \in DOMAIN traces : traces[i].preferred # None
    PROVE  Labels(traces) # {}
<1>1. PICK n \in Nat : n = Len(traces) /\ DOMAIN traces = 1..n
  BY LengthOfList
<1>2. n # 0
  BY <1>1, TracesAreLegal
<1>3. 1 \in DOMAIN traces
  BY <1>1, <1>2
<1> QED
  BY <1>3 DEF Labels

CountsRight(seen, point) ==
    [covered |-> point.covered, correct |-> point.correct] = Evaluated(seen, point.threshold)

(* SimilarityCountsAreExact: _calibration_points takes up groups of equal  *)
(* similarity on one way down the thresholds; each of its points counts    *)
(* what its threshold by itself covers and gets right.                     *)
THEOREM SimilarityCountsExact == Spec => []SimilarityCountsAreExact
<1>1. ASSUME Shape, ResultsInv, ListInv, NEW p \in Done("similarity"), NEW point \in proc[p].result.points
      PROVE  CountsRight(Observations(proc[p].result.prototypes, proc[p].read[2]), point)
  <2>1. p \in Procs /\ proc[p].pc = "done" /\ proc[p].command = "similarity"
    BY <1>1 DEF Done, At
  <2>2. Holds(p) /\ ReadLists(p) /\ ReadOK(p)
    BY <1>1, <2>1 DEF ResultsInv, ResultOK, Computes, ListInv, Shape
  <2>3. PICK train, calibration, test :
           train = proc[p].read[1] /\ calibration = proc[p].read[2] /\ test = proc[p].read[3]
    OBVIOUS
  <2>4. PICK result : result = proc[p].result
    OBVIOUS
  <2>5. /\ result = FittedTo(ThreeParts(train, calibration, test), proc[p].args[1], proc[p].args[2])
        /\ result # Error
    BY <2>1, <2>2, <2>3, <2>4 DEF Holds, Computed, ComputedOf, ThreeParts, FittedTo
  <2>6. IsList(train) /\ IsList(calibration)
    <3>1. Len(Plan(p)) = 3 /\ Plan(p)[1] = "train" /\ Plan(p)[2] = "calibration"
      BY <2>1 DEF Plan, ReadBy
    <3>2. Len(proc[p].read) = Len(Plan(p)) /\ \E S : proc[p].read \in Seq(S)
      BY <2>1, <2>2 DEF ReadOK, Later
    <3>3. 1 \in DOMAIN proc[p].read /\ 2 \in DOMAIN proc[p].read
      BY <3>1, <3>2
    <3>4. Plan(p)[1] \in ListFiles /\ Plan(p)[2] \in ListFiles
      BY <3>1, NamesAre DEF ListFiles
    <3> QED
      BY <2>2, <2>3, <3>3, <3>4 DEF ReadLists
  <2>7. PICK prototypes : prototypes = Prototypes(train)
    OBVIOUS
  <2>8. /\ Loaded(train) = train /\ train # Error
        /\ Loaded(calibration) = calibration /\ calibration # Error
        /\ AllLabelled(ThreeParts(train, calibration, test))
        /\ Labels(calibration) \subseteq DOMAIN prototypes
        /\ result.prototypes = prototypes
        /\ result.points = SimilarityPoints(Observations(prototypes, calibration))
    BY <2>5, <2>7, FittedIs
  <2>9. DOMAIN prototypes # {}
    <3>1. \A i \in DOMAIN calibration : calibration[i].preferred # None
      BY <2>8 DEF AllLabelled, ThreeParts
    <3>2. Labels(calibration) # {}
      BY <2>6, <2>8, <3>1, LabelsExist
    <3> QED
      BY <2>8, <3>2
  <2>10. DOMAIN prototypes = Labels(train)
    BY <2>7 DEF Prototypes
  <2>11. \A m \in DOMAIN prototypes : prototypes[m] \in Int /\ m \in Nat
    BY <2>6, <2>7, <2>8, <2>10, PrototypesAre
  <2>12. PICK seen : seen = Observations(prototypes, calibration)
    OBVIOUS
  <2>13. PICK n \in Nat : Seeing(seen, n, Similarities(seen), RightPlaces(seen))
    <3>1. DOMAIN prototypes \in SUBSET Nat
      BY <2>11
    <3> QED
      BY <2>6, <2>8, <2>9, <2>11, <2>12, <3>1, ObservationsAre
  <2>14. point \in SimilarityPoints(seen)
    BY <1>1, <2>4, <2>8, <2>12
  <2>15. CountsRight(seen, point)
    BY <2>13, <2>14, SimilarityPointsExact DEF CountsRight
  <2> QED
    BY <2>3, <2>4, <2>8, <2>12, <2>15
<1>2. ASSUME Shape, ResultsInv, ListInv PROVE SimilarityCountsAreExact
  BY <1>1, <1>2 DEF SimilarityCountsAreExact, CountsRight
<1> QED
  BY <1>2, ShapeInvariant, ResultsInvariant, ListInvariant, PTL
=============================================================================
