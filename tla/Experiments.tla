----------------------------- MODULE Experiments -----------------------------
(***************************************************************************)
(* What the offline experiments compute: traces.py, splitting.py,          *)
(* calibration.py, benchmark_sweep.py, the experiment of similarity.py,    *)
(* contamination.py with its exclusions, and public_score_audit.py.        *)
(*                                                                         *)
(* A trace is an identifier, a user, a topic (the features of its query, a *)
(* point of a line), the outcomes of some models, and optionally a label,  *)
(* a strong and a weak model, and a route score.  Qualities, scores,       *)
(* topics and similarities are in 0..Unit.  Averages over one data set are *)
(* compared by their sums; float rounding is not modelled, nor are         *)
(* latencies, which are averaged as costs are.  Digests are the contents   *)
(* themselves, except for the order they give to groups.  An error is the  *)
(* value Error.                                                            *)
(***************************************************************************)
EXTENDS Orders

CONSTANTS
    Unit,
    DigestOrder,  \* rank of a group key by its SHA-256
    MaxRecords,   \* of a trace file
    Junk,         \* a line that is no trace
    Error,        \* ConfigurationError
    None

ASSUME ExperimentsAssumption ==
    /\ Unit \in Nat \ {0} /\ MaxRecords \in Nat /\ None \notin Int
    /\ DigestOrder \in [DOMAIN DigestOrder -> Int]
    /\ \A a, b \in DOMAIN DigestOrder : DigestOrder[a] = DigestOrder[b] => a = b

Partitions == <<"train", "calibration", "test">>
Names == ToSet(Partitions)

-----------------------------------------------------------------------------
(* Trace files *)

\* Models are numbers in the order of their identifiers; strong and weak are given together.
\* A route score of Unit is excluded: that threshold means "always weak".
LegalTrace(t) ==
    /\ t.topic \in 0..Unit
    /\ DOMAIN t.outcomes # {} /\ DOMAIN t.outcomes \subseteq Nat
    /\ \A model \in DOMAIN t.outcomes :
          t.outcomes[model].quality \in 0..Unit /\ t.outcomes[model].cost \in Nat
    /\ t.preferred \in DOMAIN t.outcomes \cup {None}
    /\ t.pair # None => /\ DOMAIN t.pair = {1, 2} /\ t.pair[1] # t.pair[2]
                        /\ ToSet(t.pair) \subseteq DOMAIN t.outcomes /\ t.score # None
    /\ t.score # None => t.score \in 0..(Unit - 1)

\* _iter_trace_stream and load_traces
Loaded(lines) ==
    IF /\ lines # <<>> /\ Len(lines) <= MaxRecords
       /\ \A i \in DOMAIN lines : lines[i] # Junk /\ LegalTrace(lines[i])
       /\ \A i, j \in DOMAIN lines : lines[i].id = lines[j].id => i = j
    THEN lines
    ELSE Error

-----------------------------------------------------------------------------
(* Splitting *)

GroupKey(t, by) == IF by = "request_id" THEN t.id ELSE t.user
Keys(traces, by) == {GroupKey(traces[i], by) : i \in DOMAIN traces}

\* Fractions are percentages, all three positive; every trace needs a key.
LegalSplit(traces, config) ==
    /\ config.train > 0 /\ config.calibration > 0 /\ config.train + config.calibration < 100
    /\ None \notin Keys(traces, config.by)
    /\ Cardinality(Keys(traces, config.by)) >= 3

OrderedGroups(traces, by) ==
    LET size == [key \in Keys(traces, by) |-> Cardinality({i \in DOMAIN traces : GroupKey(traces[i], by) = key})]
        ahead(a) == {b \in Keys(traces, by) : \/ size[b] > size[a]
                                              \/ size[b] = size[a] /\ DigestOrder[b] < DigestOrder[a]}
    IN Ordered(Keys(traces, by), [key \in Keys(traces, by) |-> ahead(key)])

\* Hundredths of records.
Target(traces, config, name) ==
    Len(traces) * CASE name = "train" -> config.train
                    [] name = "calibration" -> config.calibration
                    [] OTHER -> 100 - config.train - config.calibration

Counted(traces, config, of, name) ==
    LET key(i) == GroupKey(traces[i], config.by)
    IN Cardinality({i \in DOMAIN traces : key(i) \in DOMAIN of /\ of[key(i)] = name})

SquaredError(traces, config, of) ==
    LET off(name) == 100 * Counted(traces, config, of, name) - Target(traces, config, name)
        square(x) == x * x
    IN square(off("train")) + square(off("calibration")) + square(off("test"))

\* allocation_key: least squared error, then most still missing, then first.
Preferred(error, missing, open) ==
    CHOOSE a \in open : \A b \in open \ {a} :
        \/ error[a] < error[b]
        \/ error[a] = error[b] /\ missing[a] > missing[b]
        \/ error[a] = error[b] /\ missing[a] = missing[b] /\ (a = "train" \/ b = "test")

\* Faulty: no group is kept back for a partition that is still empty.
OpenToAll(of, groupsAfter) == Names
\* candidates: the empty partitions, once there are only enough groups left for them.
Open(of, groupsAfter) ==
    LET empty == Names \ {of[key] : key \in DOMAIN of}
    IN IF groupsAfter < Cardinality(empty) THEN empty ELSE Names

Placed(of, key, name) == [k \in DOMAIN of \cup {key} |-> IF k = key THEN name ELSE of[k]]
Place(traces, config, of, key, groupsAfter) ==
    Placed(of, key,
           Preferred([name \in Names |-> SquaredError(traces, config, Placed(of, key, name))],
                     [name \in Names |-> Target(traces, config, name) - 100 * Counted(traces, config, of, name)],
                     Open(of, groupsAfter)))

Assign(traces, config) ==
    LET groups == OrderedGroups(traces, config.by)
        first[n \in 0..Len(groups)] ==
            IF n = 0 THEN <<>> ELSE Place(traces, config, first[n - 1], groups[n], Len(groups) - n)
    IN first[Len(groups)]

\* Faulty: groups may cross from one data set to another.
ApartById(parts, by) ==
    \A a, b \in DOMAIN parts : a # b => Keys(parts[a], "request_id") \cap Keys(parts[b], "request_id") = {}
\* No record and no group is in two data sets, and every record has a group.
Apart(parts, by) ==
    \A a, b \in DOMAIN parts :
        /\ None \notin Keys(parts[a], by)
        /\ a # b => /\ Keys(parts[a], "request_id") \cap Keys(parts[b], "request_id") = {}
                    /\ Keys(parts[a], by) \cap Keys(parts[b], by) = {}

\* TracePartitions.__post_init__
ValidPartitions(parts, by) == Apart(parts, by) /\ \A name \in Names : parts[name] # <<>>

Partitioned(traces, by, of) ==
    LET records(name) == Ascending({i \in DOMAIN traces : of[GroupKey(traces[i], by)] = name})
    IN [name \in Names |-> [k \in DOMAIN records(name) |-> traces[records(name)[k]]]]

Split(traces, config) ==
    LET checked(parts) == IF ValidPartitions(parts, config.by) THEN parts ELSE Error
    IN IF LegalSplit(traces, config) THEN checked(Partitioned(traces, config.by, Assign(traces, config))) ELSE Error

-----------------------------------------------------------------------------
(* Cutoffs.  A trace whose score reaches the threshold goes to the strong model. *)

Goes(t, threshold) == t.score >= threshold
Strong(t) == t.outcomes[t.pair[1]]
Weak(t) == t.outcomes[t.pair[2]]
ChosenModel(t, threshold) == IF Goes(t, threshold) THEN t.pair[1] ELSE t.pair[2]
Chosen(t, threshold) == t.outcomes[ChosenModel(t, threshold)]
StrongCalls(traces, threshold) == {i \in DOMAIN traces : Goes(traces[i], threshold)}

\* Scored traces of one strong/weak pair
Comparable(traces) ==
    \A i \in DOMAIN traces : traces[i].pair # None /\ traces[i].pair = traces[1].pair

\* ThresholdCalibrator.__init__: a label is one of the two.
Calibratable(traces) ==
    Comparable(traces) /\ \A i \in DOMAIN traces : traces[i].preferred \in ToSet(traces[i].pair) \cup {None}

Labels(traces) == {traces[i].preferred : i \in DOMAIN traces} \ {None}
Agreeing(traces, threshold) == {i \in DOMAIN traces : traces[i].preferred = ChosenModel(traces[i], threshold)}

\* ThresholdCalibrator._point
Point(traces, threshold) ==
    [threshold |-> threshold,
     calls |-> Cardinality(StrongCalls(traces, threshold)),
     quality |-> SumOf([i \in DOMAIN traces |-> Chosen(traces[i], threshold).quality]),
     cost |-> SumOf([i \in DOMAIN traces |-> Chosen(traces[i], threshold).cost]),
     succeeded |-> Cardinality({i \in DOMAIN traces : Chosen(traces[i], threshold).success}),
     agreed |-> Cardinality(Agreeing(traces, threshold))]

DominatesPoint(left, right) ==
    /\ left.quality >= right.quality /\ left.cost <= right.cost
    /\ left.quality > right.quality \/ left.cost < right.cost

OnFront(points) == {p \in points : ~\E other \in points : DominatesPoint(other, p)}

Before(a, b) == \E i \in DOMAIN a : a[i] < b[i] /\ \A j \in 1..(i - 1) : a[j] = b[j]
LeastOf(points, key) == CHOOSE p \in points : ~\E q \in points : Before(key[q], key[p])
Least(points, key(_)) == LeastOf(points, [p \in points |-> key(p)])

\* The bound that is given decides by what a threshold is chosen.
Best(feasible, bounds, labels) ==
    CASE feasible = {} -> Error
      [] feasible # {} /\ bounds.cost # None -> Least(feasible, LAMBDA p : <<-p.quality, p.cost, p.threshold>>)
      [] feasible # {} /\ bounds.cost = None /\ bounds.quality # None ->
            Least(feasible, LAMBDA p : <<p.cost, -p.quality, p.threshold>>)
      [] OTHER -> IF labels = {} THEN Error
                  ELSE Least(feasible, LAMBDA p : <<-p.agreed, p.cost, p.threshold>>)

Selected(points, bounds, labels) ==
    Best({p \in points : /\ bounds.cost # None => p.cost <= bounds.cost
                         /\ bounds.quality # None => p.quality >= bounds.quality}, bounds, labels)

\* ThresholdCalibrator.calibrate, with held-out traces
Calibrated(traces, heldOut, by, bounds) ==
    LET report(points, selected) ==
            IF selected = Error THEN Error
            ELSE [points |-> points, front |-> OnFront(points), threshold |-> selected.threshold,
                  heldOut |-> Point(heldOut, selected.threshold)]
        select(points) == report(points, Selected(points, bounds, Labels(traces)))
    IN IF /\ Calibratable(traces) /\ Calibratable(heldOut)
          /\ heldOut[1].pair = traces[1].pair
          /\ None \notin Keys(traces, by) \cup Keys(heldOut, by)
          /\ Keys(traces, by) \cap Keys(heldOut, by) = {}
       THEN select({Point(traces, s) : s \in {0, Unit} \cup {traces[i].score : i \in DOMAIN traces}})
       ELSE Error

-----------------------------------------------------------------------------
(* Threshold sweeps *)

SweepThresholds(traces, config) ==
    LET scores == SortSeq([i \in DOMAIN traces |-> traces[i].score], <)
        n == Len(scores)
    IN {0, Unit} \cup IF config.thresholds # None
                      THEN config.thresholds
                      ELSE {scores[Min({n - 1, (k * n) \div config.bins}) + 1] : k \in 1..(config.bins - 1)}

\* The sum of so many gains, the largest first.
LargestSum(gains, calls) ==
    LET order == LargestFirst(gains) IN SumOf([n \in 1..calls |-> gains[order[n]]])

Gain(t) == Strong(t).quality - Weak(t).quality
\* Faulty: the oracle counts the gains of all records, losses among them.
BestGainsUnclipped(traces, calls) == LargestSum([i \in DOMAIN traces |-> Gain(traces[i])], calls)
\* oracle_prefix
BestGains(traces, calls) == LargestSum([i \in DOMAIN traces |-> Max({0, Gain(traces[i])})], calls)

WeakQuality(traces) == SumOf([i \in DOMAIN traces |-> Weak(traces[i]).quality])

SweepPoint(traces, threshold) ==
    LET p == Point(traces, threshold)
        oracle == WeakQuality(traces) + BestGains(traces, p.calls)
    IN [threshold |-> threshold, calls |-> p.calls, quality |-> p.quality, cost |-> p.cost,
        gain |-> p.quality - WeakQuality(traces), oracle |-> oracle, regret |-> Max({0, oracle - p.quality})]

\* run_threshold_sweep; the catalog matters to the manifest only.
Swept(traces, config) ==
    IF ~Comparable(traces) THEN Error
    ELSE LET points == {SweepPoint(traces, s) : s \in SweepThresholds(traces, config)}
         IN [points |-> points, front |-> OnFront(points)]

-----------------------------------------------------------------------------
(* The similarity router's experiment.  The model keeps, for every label of  *)
(* the training traces, the mean of their topics.                           *)

Similarity(a, b) == Unit - (IF a > b THEN a - b ELSE b - a)

\* SimilarityModel.fit
Prototypes(traces) ==
    LET group(label) == {i \in DOMAIN traces : traces[i].preferred = label}
        sum(places) == SumOf([i \in DOMAIN traces |-> IF i \in places THEN traces[i].topic ELSE 0])
    IN [label \in Labels(traces) |-> sum(group(label)) \div Cardinality(group(label))]

\* The first of SimilarityModel.rank: of equally similar models the smallest identifier.
Match(prototypes, t) == Least(DOMAIN prototypes, LAMBDA m : <<-Similarity(t.topic, prototypes[m]), m>>)

\* What _calibration_points and _evaluate ask the model for each trace.
Observations(prototypes, traces) ==
    LET observed(t, model) == [similarity |-> Similarity(t.topic, prototypes[model]), correct |-> model = t.preferred]
    IN [i \in DOMAIN traces |-> observed(traces[i], Match(prototypes, traces[i]))]

\* Faulty: a similarity must exceed the threshold.
PassesAbove(similarity, threshold) == similarity > threshold
Passes(similarity, threshold) == similarity >= threshold

\* The groups of equal similarity that are reached at a threshold after the first so many.
NewGroups(groups, taken, threshold) == {g \in (taken + 1)..Len(groups) : Passes(groups[g].similarity, threshold)}

TakeUp(groups, acc, threshold) ==
    LET new == NewGroups(groups, acc.taken, threshold)
        covered == acc.covered + SumOf([g \in DOMAIN groups |-> IF g \in new THEN groups[g].count ELSE 0])
        correct == acc.correct + SumOf([g \in DOMAIN groups |-> IF g \in new THEN groups[g].correct ELSE 0])
    IN [taken |-> acc.taken + Cardinality(new), covered |-> covered, correct |-> correct,
        points |-> acc.points \cup {[threshold |-> threshold, covered |-> covered, correct |-> correct]}]

\* _calibration_points: one sweep down the thresholds, taking up groups of equal similarity.
SweepDown(groups, thresholds) ==
    LET after[n \in 0..Len(thresholds)] ==
            IF n = 0 THEN [taken |-> 0, covered |-> 0, correct |-> 0, points |-> {}]
                     ELSE TakeUp(groups, after[n - 1], thresholds[n])
    IN after[Len(thresholds)].points

SimilarityPoints(seen) ==
    LET values == {seen[i].similarity : i \in DOMAIN seen}
        group(s) == [similarity |-> s,
                     count |-> Cardinality({i \in DOMAIN seen : seen[i].similarity = s}),
                     correct |-> Cardinality({i \in DOMAIN seen : seen[i].similarity = s /\ seen[i].correct})]
        down(sorted) == [i \in DOMAIN sorted |-> group(sorted[i])]
    IN SweepDown(down(Descending(values)), Descending(values \cup {0, Unit}))

\* Accuracy, of nothing covered worse than any; then coverage; then the smaller threshold.
Preferable(p, q) ==
    LET better(a, b) == a.covered > 0 /\ (b.covered = 0 \/ a.correct * b.covered > b.correct * a.covered)
    IN \/ better(p, q)
       \/ ~better(q, p) /\ (p.covered > q.covered \/ (p.covered = q.covered /\ p.threshold < q.threshold))

\* _evaluate
Evaluated(seen, threshold) ==
    LET covered == {i \in DOMAIN seen : seen[i].similarity >= threshold}
    IN [covered |-> Cardinality(covered), correct |-> Cardinality({i \in covered : seen[i].correct})]

\* _ordered_traces: every trace is labelled.
AllLabelled(parts) == \A a \in DOMAIN parts : \A i \in DOMAIN parts[a] : parts[a][i].preferred # None

\* Points that cover enough, the minimum coverage in percent.
Feasible(points, records, coverage) == {p \in points : 100 * p.covered >= coverage * records}
Preference(feasible) == CHOOSE p \in feasible : \A q \in feasible \ {p} : Preferable(p, q)

Reported(parts, prototypes, points, feasible) ==
    LET report(threshold) == [prototypes |-> prototypes, points |-> points, threshold |-> threshold,
                              heldOut |-> Evaluated(Observations(prototypes, parts.test), threshold)]
    IN IF feasible = {} THEN Error ELSE report(Preference(feasible).threshold)

\* fit_calibrate_evaluate
Fitted(parts, by, coverage) ==
    LET report(prototypes, points) ==
            Reported(parts, prototypes, points, Feasible(points, Len(parts.calibration), coverage))
        fit(prototypes) ==
            IF Labels(parts.calibration) \cup Labels(parts.test) \subseteq DOMAIN prototypes
            THEN report(prototypes, SimilarityPoints(Observations(prototypes, parts.calibration)))
            ELSE Error
    IN IF AllLabelled(parts) /\ Apart(parts, by) THEN fit(Prototypes(parts.train)) ELSE Error

-----------------------------------------------------------------------------
(* The factorization router's experiment.  What its optimisation arrives at, *)
(* the score of every observed model by topic, is a parameter.              *)

Observed(traces) == UNION {DOMAIN traces[i].outcomes : i \in DOMAIN traces}

\* PairwiseFactorModel.fit: the labelled model against every other outcome of its trace.
Comparisons(traces) ==
    {<<i, loser>> : i \in DOMAIN traces, loser \in Observed(traces)}
        \cap UNION {{i} \X (DOMAIN traces[i].outcomes \ {traces[i].preferred}) : i \in DOMAIN traces}

\* evaluate_held_out, after fit
Factored(parts, by, scores) ==
    LET models == Observed(parts.train)
        test == parts.test
        score(i, model) == scores[test[i].topic][model]
        winner(i) == Least(DOMAIN test[i].outcomes, LAMBDA m : <<-score(i, m), m>>)
        several == {i \in DOMAIN test : Cardinality(DOMAIN test[i].outcomes) > 1}
    IN IF \/ ~AllLabelled(parts) \/ ~Apart(parts, by)
          \/ Cardinality(models) < 2 \/ Comparisons(parts.train) = {}
          \/ ~(Observed(test) \subseteq models)
       THEN Error
       ELSE [pairs |-> Cardinality(Comparisons(parts.train)),
             evaluable |-> Cardinality(several),
             correct |-> Cardinality({i \in several : winner(i) = test[i].preferred}),
             compared |-> Cardinality(Comparisons(test)),
             won |-> Cardinality({c \in Comparisons(test) :
                                     score(c[1], test[c[1]].preferred) > score(c[1], c[2])})]

-----------------------------------------------------------------------------
(* Contamination: embeddings are points of the same line.  A prompt may      *)
(* occur in several examples.                                               *)

\* The nearest training vector, of equally near ones the one with the smallest identifier.
Nearest(vector, training) ==
    Least(DOMAIN training, LAMBDA id : <<-Similarity(vector, training[id]), id>>)

\* audit_contamination
Hits(training, evaluation, cutoff) ==
    {id \in DOMAIN evaluation : Similarity(evaluation[id], training[Nearest(evaluation[id], training)]) >= cutoff}

Ids(examples) == {examples[i].id : i \in DOMAIN examples}
Prompts(examples) == {examples[i].prompt : i \in DOMAIN examples}

\* Faulty: only the identifiers are compared.
SameIds(again, evaluation) == DOMAIN again = DOMAIN evaluation
SameSnapshot(again, evaluation) == again = evaluation

\* plan_contamination_exclusions, of the snapshots it takes: the evaluation's twice.
Planned(examples, training, evaluation, again, cutoff) ==
    LET hits == Hits(training, evaluation, cutoff)
        out == {examples[i].prompt : i \in {j \in DOMAIN examples : examples[j].id \in hits}}
    IN IF ~SameSnapshot(again, evaluation) \/ DOMAIN again # Ids(examples) THEN Error
       ELSE [prompts |-> out, hits |-> Cardinality(hits),
             excluded |-> Len(SelectSeq(examples, LAMBDA e : e.prompt \in out))]

-----------------------------------------------------------------------------
(* The audit of a finished public score run *)

AuditPoint(rows, threshold, calls, correct) ==
    [threshold |-> threshold, calls |-> calls, correct |-> correct,
     oracle |-> SumOf([i \in DOMAIN rows |-> rows[i].weak])
                + LargestSum([i \in DOMAIN rows |-> rows[i].strong - rows[i].weak], calls)]

\* Faulty: the records of one score are one call.
NextPointOfScore(rows, last, score) ==
    LET gains == [i \in DOMAIN rows |-> IF rows[i].score = score THEN rows[i].strong - rows[i].weak ELSE 0]
    IN AuditPoint(rows, score, last.calls + 1, last.correct + SumOf(gains))
NextPoint(rows, last, score) ==
    LET group == {i \in DOMAIN rows : rows[i].score = score}
        gains == [i \in DOMAIN rows |-> IF i \in group THEN rows[i].strong - rows[i].weak ELSE 0]
    IN AuditPoint(rows, score, last.calls + Cardinality(group), last.correct + SumOf(gains))

\* One point per observed score, from the highest down, after the weak-only point.
AuditPoints(rows) ==
    LET scores == Descending({rows[i].score : i \in DOMAIN rows})
        first[n \in 0..Len(scores)] ==
            IF n = 0 THEN <<AuditPoint(rows, None, 0, SumOf([i \in DOMAIN rows |-> rows[i].weak]))>>
                     ELSE LET points == first[n - 1] IN Append(points, NextPoint(rows, Last(points), scores[n]))
    IN first[Len(scores)]

\* _archive: the checkpoint is the one of a finished run of these examples.
Finished(checkpoint, examples) ==
    /\ checkpoint.source = examples /\ ~checkpoint.pending
    /\ checkpoint.correct \in [1..(2 * Len(examples)) -> {0, 1}]
\* _scores: one for each example.  _exclusions: prompts of examples.
ScoresOf(scores, examples) == scores \in [Ids(examples) -> 0..Unit]
ExclusionsOf(excluded, examples) == excluded \subseteq Prompts(examples)

\* audit_public_scores
Audited(examples, checkpoint, scores, excluded) ==
    LET kept == Ascending({i \in DOMAIN examples : examples[i].prompt \notin excluded})
        row(i) == [score |-> scores[examples[i].id],
                   weak |-> checkpoint.correct[2 * i - 1], strong |-> checkpoint.correct[2 * i]]
    IN IF \/ ~Finished(checkpoint, examples) \/ ~ScoresOf(scores, examples)
          \/ ~ExclusionsOf(excluded, examples) \/ kept = <<>>
       THEN Error
       ELSE [records |-> Len(kept), points |-> AuditPoints([n \in DOMAIN kept |-> row(kept[n])])]
=============================================================================
