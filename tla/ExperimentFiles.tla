--------------------------- MODULE ExperimentFiles ---------------------------
(***************************************************************************)
(* The commands of the offline experiments on the files they share:        *)
(* split-traces, calibrate, train-similarity, train-factorization and      *)
(* benchmark-sweep (cli.py), facetroute-contamination-exclusions and       *)
(* facetroute-public-score-audit.  What they compute is Experiments.tla.   *)
(*                                                                         *)
(* Every command reads its files one at a time, each in one piece, while   *)
(* their owner edits them and other commands write theirs.  A check made   *)
(* between two reads can only make the command fail earlier, so it is made *)
(* with the others when all is read.                                       *)
(***************************************************************************)
EXTENDS Experiments

CONSTANTS
    Procs,
    Contents,       \* what the owner writes into each file of theirs
    Original,       \* what is there at first: their files, and what an earlier split left
    Studies,        \* or other files in their place, for one command alone
    SplitConfigs, SweepConfigs, GroupBys, Bounds, Coverages, Cutoff,
    FactorScores,   \* what the factorization may learn
    MaxCommands, MaxUpsets,
    Absent,         \* no such file
    Torn            \* content that cannot be read

Edited == DOMAIN Contents
Written == Names \cup {"manifest", "exclusions"}
Files == Edited \cup Written

\* What file f holds as long as no command has written it.
Given(f) == {files[f] : files \in {g \in Studies \cup {Original} : f \in DOMAIN g}}
            \cup UNION {Contents[g] : g \in Edited \cap {f}}

ASSUME FilesAssumption ==
    /\ Edited = {"source", "catalog", "examples", "training", "evaluation", "checkpoint", "scores"}
    /\ \A files \in Studies \cup {Original} : DOMAIN files \subseteq Files \ {"manifest"}

\* _embedding_set: a set that can be loaded has a vector, and an order of its identifiers.
ASSUME VectorsAssumption ==
    \A vectors \in (Given("training") \cup Given("evaluation")) \ {Absent, Torn} :
        /\ DOMAIN vectors # {} /\ DOMAIN vectors \subseteq Nat
        /\ \A id \in DOMAIN vectors : vectors[id] \in 0..Unit

\* A trace file is a sequence of lines, and the examples are a sequence.
ASSUME ListsAssumption ==
    \A f \in Names \cup {"source", "examples"} : \A list \in Given(f) \ {Absent, Torn} : list \in Seq(ToSet(list))

\* split_traces has a digest for the group of each trace of a source.
ASSUME SourcesAssumption ==
    \A lines \in Given("source") \ {Absent, Torn} :
        /\ Error \notin [Names -> Seq(ToSet(lines))]
        /\ Loaded(lines) # Error =>
              \A config \in SplitConfigs : Keys(lines, config.by) \subseteq DOMAIN DigestOrder \cup {None}

\* _fraction
ASSUME FractionsAssumption == \A config \in SplitConfigs : {config.train, config.calibration} \subseteq Int

ASSUME CutoffAssumption == Cutoff \in Int

ASSUME BoundsAssumption == MaxCommands \in Nat \ {0} /\ MaxUpsets \in Nat

VARIABLES
    file,       \* the content of each file
    cache,      \* the entries of the sweep cache, by key
    proc,       \* per process: command, arguments, position, what it has read, its result
    commands, upsets,  \* how many so far; edits, crashes and failing writes upset
    current,    \* history: nothing was written since the manifest, or before it by another split
    disturbed   \* history: splits another one wrote beside

vars == <<file, cache, proc, commands, upsets, current, disturbed>>

ReadBy(command, args) ==
    CASE command = "split" -> <<"source", "source">>
      [] command = "calibrate" -> <<"calibration", "test">>
      [] command = "similarity" -> <<"train", "calibration", "test">>
      [] command = "factorization" -> <<"train", "test">>
      [] command = "sweep" -> <<"catalog", "source">>
      [] command = "exclude" -> <<"examples", "training", "evaluation", "evaluation">>
      [] command = "audit" -> <<"examples", "checkpoint", "scores">> \o (IF args THEN <<"exclusions">> ELSE <<>>)
      [] OTHER -> <<>>

Arguments(command) ==
    CASE command = "split" -> SplitConfigs
      [] command = "calibrate" -> GroupBys \X Bounds
      [] command = "similarity" -> GroupBys \X Coverages
      [] command = "factorization" -> GroupBys \X FactorScores
      [] command = "sweep" -> SweepConfigs \X BOOLEAN
      [] command = "audit" -> BOOLEAN
      [] OTHER -> {None}

Idle == [command |-> "none", pc |-> "idle", args |-> None, read |-> <<>>, at |-> 1, result |-> None]

Ended(p) == proc[p].pc \in {"idle", "done", "refused", "stopped"}
At(p, pc) == proc[p].pc = pc

\* The owner's original files, with a study or without; a study is left alone with one command.
Init ==
    \E study \in Studies \cup {<<>>} :
        /\ file = [f \in Files |-> IF f \in DOMAIN study THEN study[f]
                                  ELSE IF f \in DOMAIN Original THEN Original[f] ELSE Absent]
        /\ current = FALSE /\ disturbed = {}
        /\ cache = <<>> /\ proc = [p \in Procs |-> Idle]
        /\ commands = IF study = <<>> THEN 0 ELSE MaxCommands - 1
        /\ upsets = IF study = <<>> THEN 0 ELSE MaxUpsets

Go(p, pc, result) == proc' = [proc EXCEPT ![p].pc = pc, ![p].result = result]
Refuse(p) == Go(p, "refused", None)

Start(p) ==
    /\ Ended(p) /\ commands < MaxCommands
    /\ \E c \in {"split", "calibrate", "similarity", "factorization", "sweep", "exclude", "audit"} :
          \E a \in Arguments(c) :
              proc' = [proc EXCEPT ![p] = [Idle EXCEPT !.command = c, !.args = a, !.pc = "reading"]]
    /\ commands' = commands + 1 /\ disturbed' = disturbed \ {p}
    /\ UNCHANGED <<file, cache, upsets, current>>

\* A file that is missing, or no file of its kind, ends the command.
Read(p) ==
    LET plan == ReadBy(proc[p].command, proc[p].args)
        content == file[plan[Len(proc[p].read) + 1]]
    IN /\ At(p, "reading")
       /\ IF content \in {Absent, Torn}
          THEN Refuse(p)
          ELSE proc' = [proc EXCEPT ![p].read = Append(@, content),
                            ![p].pc = IF Len(proc[p].read) + 1 = Len(plan) THEN "computing" ELSE @]
       /\ UNCHANGED <<file, cache, commands, upsets, current, disturbed>>

-----------------------------------------------------------------------------
(* What is computed of what was read *)

\* A computation of data sets that all can be loaded.
OfLoaded(parts, op(_)) ==
    LET of(loaded) == IF \E a \in DOMAIN loaded : loaded[a] = Error THEN Error ELSE op(loaded)
    IN of([a \in DOMAIN parts |-> Loaded(parts[a])])

\* Faulty: what is recorded as the source is not what was split.
SplitOfFirst(first, second, config) == OfLoaded(<<first>>, LAMBDA d : Split(d[1], config))
\* write_trace_partitions reads the source again, and splits it again.
SplitTwice(first, second, config) ==
    LET same(splits) == IF splits[1] = splits[2] THEN splits[1] ELSE Error
    IN OfLoaded(<<first, second>>, LAMBDA d : same([i \in 1..2 |-> Split(d[i], config)]))

\* Faulty: the file is hashed when its traces have been parsed.
ManifestOfFile(p) == [catalog |-> proc[p].read[1], source |-> file["source"], config |-> proc[p].args[1]]
\* load_sweep_traces parses and hashes the same bytes.
Manifest(p) == [catalog |-> proc[p].read[1], source |-> proc[p].read[2], config |-> proc[p].args[1]]

SweptOf(catalog, source, config) ==
    OfLoaded([source |-> source],
             LAMBDA d : IF ToSet(d.source[1].pair) \subseteq catalog THEN Swept(d.source, config) ELSE Error)
SweepOf(p) == SweptOf(proc[p].read[1], proc[p].read[2], proc[p].args[1])

ComputedOf(command, read, args) ==
    LET three == [train |-> read[1], calibration |-> read[2], test |-> read[3]]
        two == [train |-> read[1], test |-> read[2]]
    IN CASE command = "split" -> SplitTwice(read[1], read[2], args)
         [] command = "calibrate" -> OfLoaded(two, LAMBDA d : Calibrated(d.train, d.test, args[1], args[2]))
         [] command = "similarity" -> OfLoaded(three, LAMBDA d : Fitted(d, args[1], args[2]))
         [] command = "factorization" -> OfLoaded(two, LAMBDA d : Factored(d, args[1], args[2]))
         [] command = "exclude" -> Planned(read[1], read[2], read[3], read[4], Cutoff)
         [] command = "audit" -> Audited(read[1], read[2], read[3], IF args THEN read[4] ELSE {})
Computed(p) == ComputedOf(proc[p].command, proc[p].read, proc[p].args)

Conclude(p, result) ==
    IF result = Error THEN Refuse(p)
    ELSE Go(p, CASE proc[p].command = "split" -> "opening"
                 [] proc[p].command = "exclude" -> "creating"
                 [] OTHER -> "done", result)

Compute(p) ==
    /\ At(p, "computing") /\ proc[p].command # "sweep"
    /\ Conclude(p, Computed(p))
    /\ UNCHANGED <<file, cache, commands, upsets, current, disturbed>>

-----------------------------------------------------------------------------
(* write_trace_partitions *)

\* p has written a partition and is not finished.
Writing(p) == proc[p].pc \in {"filling", "checking", "naming", "signing"} \/ (At(p, "opening") /\ proc[p].at > 1)

Write(p, f, content) ==
    /\ file' = [file EXCEPT ![f] = content]
    /\ disturbed' = disturbed \cup {q \in Procs \ {p} : Writing(q)}
    /\ current' = (f = "manifest" /\ content # Torn /\ p \notin disturbed)
    /\ UNCHANGED <<cache, commands>>

Partition(p) == Partitions[proc[p].at]

OpenPartition(p) ==
    /\ At(p, "opening")
    /\ Write(p, Partition(p), <<>>)
    /\ proc' = [proc EXCEPT ![p].pc = "filling"]
    /\ UNCHANGED upsets

FillPartition(p) ==
    /\ At(p, "filling")
    /\ Write(p, Partition(p), proc[p].result[Partition(p)])
    /\ proc' = IF proc[p].at < 3 THEN [proc EXCEPT ![p].pc = "opening", ![p].at = @ + 1]
                                 ELSE [proc EXCEPT ![p].pc = "checking", ![p].at = 1]
    /\ UNCHANGED upsets

\* _manifest_partition: the file must be what was meant to be written.
CheckPartition(p) ==
    /\ At(p, "checking")
    /\ IF file[Partition(p)] # proc[p].result[Partition(p)] THEN Refuse(p)
       ELSE proc' = IF proc[p].at < 3 THEN [proc EXCEPT ![p].at = @ + 1] ELSE [proc EXCEPT ![p].pc = "naming"]
    /\ UNCHANGED <<file, cache, commands, upsets, current, disturbed>>

OpenManifest(p) ==
    /\ At(p, "naming")
    /\ Write(p, "manifest", Torn)
    /\ proc' = [proc EXCEPT ![p].pc = "signing"]
    /\ UNCHANGED upsets

FillManifest(p) ==
    /\ At(p, "signing")
    /\ Write(p, "manifest", [source |-> proc[p].read[2], config |-> proc[p].args, parts |-> proc[p].result])
    /\ proc' = [proc EXCEPT ![p].pc = "done"]
    /\ UNCHANGED upsets

-----------------------------------------------------------------------------
(* cached_threshold_sweep *)

Look(p, manifest, report) ==
    IF report = Error THEN Refuse(p)
    ELSE IF manifest \in DOMAIN cache /\ ~proc[p].args[2]
         THEN Go(p, "hitting", manifest)
         ELSE Go(p, "moving", [manifest |-> manifest, report |-> report, backup |-> Absent])

Lookup(p) ==
    /\ At(p, "computing") /\ proc[p].command = "sweep"
    /\ Look(p, Manifest(p), SweepOf(p))
    /\ UNCHANGED <<file, cache, commands, upsets, current, disturbed>>

\* _checked_cached_report: an entry that is gone, broken or of something else fails the command.
HitEntry(p) ==
    LET key == proc[p].result
    IN /\ At(p, "hitting")
       /\ IF key \in DOMAIN cache /\ cache[key] # Torn
          THEN Go(p, "done", [manifest |-> key, report |-> cache[key]])
          ELSE Refuse(p)
       /\ UNCHANGED <<file, cache, commands, upsets, current, disturbed>>

Without(key) == [k \in DOMAIN cache \ {key} |-> cache[k]]
With(key, entry) == [k \in DOMAIN cache \cup {key} |-> IF k = key THEN entry ELSE cache[k]]

MoveEntryAway(p) ==
    LET key == proc[p].result.manifest
    IN /\ At(p, "moving")
       /\ proc' = [proc EXCEPT ![p].pc = "installing",
                       ![p].result.backup = IF key \in DOMAIN cache THEN cache[key] ELSE Absent]
       /\ cache' = Without(key)
       /\ UNCHANGED <<file, commands, upsets, current, disturbed>>

InstallEntry(p) ==
    LET new == proc[p].result
    IN /\ At(p, "installing")
       /\ cache' = With(new.manifest, new.report)
       /\ Go(p, "done", [manifest |-> new.manifest, report |-> new.report])
       /\ UNCHANGED <<file, commands, upsets, current, disturbed>>

-----------------------------------------------------------------------------
(* contamination_exclusions_cli.py: a complete file is linked to a vacant name. *)

CreateExclusions(p) ==
    /\ At(p, "creating")
    /\ IF file["exclusions"] = Absent
       THEN file' = [file EXCEPT !["exclusions"] = proc[p].result.prompts] /\ Go(p, "done", proc[p].result)
       ELSE UNCHANGED file /\ Refuse(p)
    /\ UNCHANGED <<cache, commands, upsets, current, disturbed>>

-----------------------------------------------------------------------------
(* Faults and the owner *)

\* What part of a partition may have reached the file; a prefix of lines is a trace file.
Pieces(traces) == {<<Junk>>} \cup {SubSeq(traces, 1, n) : n \in 0..(Len(traces) - 1)}

\* A process dies, or a write raises.
Stop(p) ==
    /\ ~Ended(p) /\ upsets < MaxUpsets /\ upsets' = upsets + 1
    /\ IF At(p, "filling")
       THEN \E piece \in Pieces(proc[p].result[Partition(p)]) : Write(p, Partition(p), piece)
       ELSE UNCHANGED <<file, cache, commands, current, disturbed>>
    /\ Go(p, "stopped", None)

\* os.replace raises: the rollback puts the old entry back.
InstallEntryFails(p) ==
    LET new == proc[p].result
    IN /\ At(p, "installing") /\ upsets < MaxUpsets /\ upsets' = upsets + 1
       /\ cache' = IF new.backup = Absent THEN cache ELSE With(new.manifest, new.backup)
       /\ Go(p, "stopped", None)
       /\ UNCHANGED <<file, commands, current, disturbed>>

Spoil ==
    /\ upsets < MaxUpsets /\ upsets' = upsets + 1
    /\ \E key \in DOMAIN cache : cache' = [cache EXCEPT ![key] = Torn]
    /\ UNCHANGED <<file, proc, commands, current, disturbed>>

Edit ==
    /\ upsets < MaxUpsets /\ upsets' = upsets + 1
    /\ \E f \in Edited : \E content \in Contents[f] \ {file[f]} : file' = [file EXCEPT ![f] = content]
    /\ UNCHANGED <<cache, proc, commands, current, disturbed>>

Next ==
    \/ \E p \in Procs :
          \/ Start(p) \/ Read(p) \/ Compute(p)
          \/ OpenPartition(p) \/ FillPartition(p) \/ CheckPartition(p) \/ OpenManifest(p) \/ FillManifest(p)
          \/ Lookup(p) \/ HitEntry(p) \/ MoveEntryAway(p) \/ InstallEntry(p) \/ InstallEntryFails(p)
          \/ CreateExclusions(p) \/ Stop(p)
    \/ Spoil \/ Edit

Spec == Init /\ [][Next]_vars

Symmetry == Permutations(Procs)

-----------------------------------------------------------------------------
(* Properties *)

ExperimentsTypeOK ==
    /\ DOMAIN file = Files /\ disturbed \subseteq Procs
    /\ \A p \in Procs : proc[p].at \in 1..3 /\ Len(proc[p].read) <= 4
    /\ commands \in 0..MaxCommands /\ upsets \in 0..MaxUpsets

Done(command) == {p \in Procs : At(p, "done") /\ proc[p].command = command}

\* A split of a legal source never fails on its own account, and whatever the sizes of the groups
\* every partition gets some, no group two, and no record is lost (splitting.py 155-183, docstring 126-133).
SplitAlwaysFits ==
    \A p \in Procs : proc[p].command = "split" =>
        LET read == proc[p].read
            parts == proc[p].result
        IN /\ At(p, "refused") /\ Len(read) = 2 /\ read[1] = read[2] /\ p \notin disturbed
              => Loaded(read[1]) = Error \/ ~LegalSplit(read[1], proc[p].args)
           /\ parts # None =>
                 /\ Apart(parts, proc[p].args.by)
                 /\ \A name \in Names :
                       /\ parts[name] # <<>>
                       /\ \A m, n \in DOMAIN parts[name] : m < n =>
                             \E i, j \in DOMAIN read[1] :
                                i < j /\ parts[name][m] = read[1][i] /\ parts[name][n] = read[1][j]
                 /\ UNION {ToSet(parts[name]) : name \in Names} = ToSet(read[1])

\* The partitions a complete manifest names are a split of the very source it names, also when the source is
\* edited between the two times it is read; and as long as no other split wrote beside the one that signed it,
\* the files are those it names (splitting.py 271-309).
ManifestDescribes ==
    LET manifest == file["manifest"]
    IN manifest \notin {Absent, Torn} =>
          /\ Loaded(manifest.source) # Error /\ manifest.parts = Split(manifest.source, manifest.config)
          /\ current => \A name \in Names : file[name] = manifest.parts[name]

\* Also when a split rewrites the files between two reads, no report is about held-out records or
\* groups that it was fitted to (calibration.py 237-245, similarity.py 1031-1055, factorization.py 507-512).
HeldOutIsUnseen ==
    \A p \in Done("calibrate") \cup Done("similarity") \cup Done("factorization") :
        LET heldOut == ToSet(Last(proc[p].read))
            others == UNION {ToSet(proc[p].read[i]) : i \in 1..(Len(proc[p].read) - 1)}
        IN \A t \in heldOut, u \in others : t # u /\ GroupKey(t, proc[p].args[1]) # GroupKey(u, proc[p].args[1])

\* A sweep reports what a fresh computation on the very records it read would,
\* from the cache or not (benchmark_sweep.py 171-190, 380-455).
ReportsAreOfTheirInputs ==
    \A p \in Done("sweep") : proc[p].result = [manifest |-> Manifest(p), report |-> SweepOf(p)]

\* The most that is right, or the best quality, with one of the choices of calls for the strong model.
BestOf(weak, strong, choices) ==
    Max({SumOf([i \in DOMAIN weak |-> IF i \in chosen THEN strong[i] ELSE weak[i]]) : chosen \in choices})

\* The greedy oracle of every point of a sweep, from the cache or not, is the best quality that any choice of
\* at most as many strong calls reaches, and no cutoff beats its oracle (benchmark_sweep.py 304-317, 338-355).
SweepOraclesAreOptimal ==
    \A p \in Done("sweep") :
        LET traces == proc[p].read[2]
            weak == [i \in DOMAIN traces |-> Weak(traces[i]).quality]
            strong == [i \in DOMAIN traces |-> Strong(traces[i]).quality]
        IN \A point \in proc[p].result.report.points :
              /\ point.oracle = BestOf(weak, strong, {s \in SUBSET DOMAIN traces : Cardinality(s) <= point.calls})
              /\ point.quality + point.regret = point.oracle

\* The running counts of an audit down the scores, tied ones among them, are those of each threshold by itself,
\* of the records that are not excluded, and its oracles are the best choices of exactly as many calls
\* (public_score_audit.py 313-343).
AuditOraclesAreOptimal ==
    \A p \in Done("audit") :
        LET examples == proc[p].read[1]
            right == proc[p].read[2].correct
            out == IF proc[p].args THEN proc[p].read[4] ELSE {}
            kept == Ascending({i \in DOMAIN examples : examples[i].prompt \notin out})
            weak == [n \in DOMAIN kept |-> right[2 * kept[n] - 1]]
            strong == [n \in DOMAIN kept |-> right[2 * kept[n]]]
        IN \A i \in DOMAIN proc[p].result.points :
              LET point == proc[p].result.points[i]
                  chosen == {n \in DOMAIN kept : /\ point.threshold # None
                                                 /\ proc[p].read[3][examples[kept[n]].id] >= point.threshold}
              IN /\ point.calls = Cardinality(chosen) /\ point.correct = BestOf(weak, strong, {chosen})
                 /\ point.oracle = BestOf(weak, strong, {s \in SUBSET DOMAIN kept : Cardinality(s) = point.calls})

\* The running counts of the similarity router's calibration, which takes up groups of equal similarity on one way
\* down the thresholds, are those of each threshold by itself (similarity.py 1005-1027 and 967-989).
SimilarityCountsAreExact ==
    \A p \in Done("similarity") : \A point \in proc[p].result.points :
        [covered |-> point.covered, correct |-> point.correct] =
            Evaluated(Observations(proc[p].result.prototypes, proc[p].read[2]), point.threshold)

\* Also when the evaluation embeddings are replaced while they are used, the prompts left out are
\* those of the examples that, in the state whose identifiers were matched with the examples, are
\* near to some training vector (contamination_exclusions.py 103-121).
ExclusionsOfOneSnapshot ==
    \A p \in Done("exclude") :
        LET examples == proc[p].read[1]
            near(e) == \E id \in DOMAIN proc[p].read[2] :
                          Similarity(proc[p].read[4][e.id], proc[p].read[2][id]) >= Cutoff
        IN /\ DOMAIN proc[p].read[4] = Ids(examples)
           /\ proc[p].result.prompts =
                 {examples[i].prompt : i \in {j \in DOMAIN examples : near(examples[j])}}
=============================================================================
