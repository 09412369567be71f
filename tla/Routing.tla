------------------------------- MODULE Routing -------------------------------
(***************************************************************************)
(* How a request is routed: constraints.py, scoring.py, pareto.py,         *)
(* rules.py, routers.py, features.py, the records of types.py they work    *)
(* on, and the route methods of bandit.py, similarity.py and               *)
(* factorization.py.  A router is configured, then routes a batch one      *)
(* request at a time.                                                      *)
(*                                                                         *)
(* Figures are integers on a common scale: qualities and bonuses in        *)
(* 1/Unit, money and milliseconds as they come.  A quotient of the code    *)
(* becomes a product with the denominators of the others, so comparisons   *)
(* are exact; its float rounding is not modelled.  What a learned model    *)
(* says of a route is a number per model, chosen from LearnedScores.       *)
(***************************************************************************)
EXTENDS Orders

CONSTANTS
    RawCatalogs,    \* sequences of candidates offered to the constructor, legal or not
    RawProfiles,    \* functions from some users to preferences, legal or not
    RawRules,       \* sequences of rules, legal or not
    Batches,        \* sequences of requests
    LearnedScores,  \* functions from the trained models to scores
    Policies,       \* a subset of Learners and {"rule", "pareto"}
    Unit,           \* the quality of a perfect model
    Threshold,      \* similarity_threshold
    PriorWeight,    \* prior_weight, in tenths
    PreferredBonus, \* preferred_model_bonus
    MaxQuery,       \* max_query_characters of a similarity model
    None            \* an optional value that is absent

Learners == {"linucb", "similarity", "factorization"}

Objectives == {"quality", "cost", "latency"}

ASSUME RoutingAssumption ==
    /\ Policies \subseteq Learners \cup {"rule", "pareto"}
    /\ Unit \in Nat \ {0} /\ Threshold \in 0..Unit
    /\ PriorWeight \in Nat /\ PreferredBonus \in Nat /\ MaxQuery \in Nat
    /\ None \notin {"NoEligibleModelError", "ConfigurationError"}

\* Lists are finite, and so are mappings; identifiers are ordered; a learned score is a number.
ASSUME InputsAssumption ==
    /\ \A cs \in RawCatalogs : /\ cs \in Seq(ToSet(cs))
                             /\ \A c \in ToSet(cs) : c.id \in Int /\ IsFiniteSet(DOMAIN c.quality)
    /\ \A rs \in RawRules : rs \in Seq(ToSet(rs))
    /\ \A requests \in Batches : requests \in Seq(ToSet(requests))
    /\ \A learned \in LearnedScores : \A id \in DOMAIN learned : learned[id] \in Int

VARIABLES
    router,     \* what the constructor was given, and the policy it implements
    batch,      \* the requests of route_many, and its fail_fast
    index,      \* the next of them
    decisions,  \* decisions, in order
    errors,     \* errors by index
    raised      \* an exception left route_many, and its result with it

routingVars == <<router, batch, index, decisions, errors, raised>>

-----------------------------------------------------------------------------
(* Records and what their constructors accept *)

\* ModelCandidate.__post_init__
LegalCandidate(c) ==
    /\ {c.input, c.output, c.p50, c.p95} \subseteq Nat
    /\ c.p95 >= c.p50
    /\ c.context > 0
    /\ DOMAIN c.quality # {}
    /\ \A task \in DOMAIN c.quality : c.quality[task] \in 0..Unit

\* RuleRouter.__init__
LegalCatalog(cs) ==
    /\ cs # <<>>
    /\ \A i \in DOMAIN cs : LegalCandidate(cs[i])
    /\ \A i, j \in DOMAIN cs : cs[i].id = cs[j].id => i = j

ListsDisjoint(p) == p.preferred \cap p.blocked = {}

\* UserPreferences.__post_init__.  An override may sum to zero, and nobody checks.
LegalProfile(p) ==
    /\ p.weights \in [Objectives -> Nat]
    /\ \E o \in Objectives : p.weights[o] > 0
    /\ {p.maxCost, p.maxLatency} \subseteq Nat \cup {None}
    /\ p.minQuality \in 0..Unit \cup {None}
    /\ ListsDisjoint(p)
    /\ \A task \in DOMAIN p.overrides : \A o \in DOMAIN p.overrides[task] :
          o \in Objectives /\ p.overrides[task][o] \in Nat

\* RouteRequest.__post_init__
LegalRequest(r) ==
    /\ r.query.chars \in Nat \ {0} /\ r.outputTokens \in Nat
    /\ {r.contextTokens, r.maxCost, r.maxLatency} \subseteq Nat \cup {None}
    /\ r.sensitivity \in {"normal", "sensitive", "restricted"}

\* RoutingRule.__post_init__
LegalRule(r) ==
    /\ r.prefer # {}
    /\ 0 <= r.low /\ r.low <= r.high /\ r.high <= 1000000
    /\ r.bonus \in Nat

\* The constructors of the learned routers
LegalLearned(policy, learned, ids) ==
    CASE policy = "linucb" -> ids \subseteq DOMAIN learned
      [] policy \in {"similarity", "factorization"} -> DOMAIN learned \subseteq ids
      [] OTHER -> TRUE

Ids(cs) == {cs[i].id : i \in DOMAIN cs}

DefaultProfile == [weights |-> [quality |-> 60, cost |-> 25, latency |-> 15],
                   overrides |-> <<>>, preferred |-> {}, blocked |-> {}, region |-> None,
                   maxCost |-> None, maxLatency |-> None, minQuality |-> None]

Profile(profiles, user) == IF user \in DOMAIN profiles THEN profiles[user] ELSE DefaultProfile

-----------------------------------------------------------------------------
(* Features.  A query is its counts: characters, words, marker hits, key words. *)

Least(a, b) == IF a < b THEN a ELSE b
PerWord(hits, q) == Least(1000000, (hits * 1000000) \div (IF q.words = 0 THEN 1 ELSE q.words))

InferredTask(q) ==
    CASE PerWord(q.code, q) >= 25000 \/ q.keyword = "code" -> "code"
      [] PerWord(q.math, q) >= 40000 \/ q.keyword = "math" -> "math"
      [] q.keyword \in {"translation", "summarization"} -> q.keyword
      [] q.multistep -> "reasoning"
      [] OTHER -> "general"

\* In millionths, as the code rounds to six digits.
Difficulty(q) ==
    Least(1000000, 200000 + (350000 * Least(1200, q.chars)) \div 1200
                   + (IF q.multistep THEN 200000 ELSE 0)
                   + Least(150000, PerWord(q.code, q) \div 2)
                   + Least(100000, (PerWord(q.math, q) * 4) \div 10))

Features(r) ==
    LET task == IF r.hint # None THEN r.hint ELSE InferredTask(r.query)
    IN [task |-> task,
        tokens |-> IF r.contextTokens # None THEN r.contextTokens ELSE (r.query.chars + 3) \div 4,
        difficulty |-> Difficulty(r.query),
        caps |-> r.caps \cup {"text"} \cup ({task} \cap {"code", "math", "reasoning"})
                 \cup (IF r.tools THEN {"tools"} ELSE {}) \cup (IF r.json THEN {"json"} ELSE {})]

-----------------------------------------------------------------------------
(* Constraints *)

QualityFor(c, task) ==
    CASE task \in DOMAIN c.quality -> c.quality[task]
      [] task \notin DOMAIN c.quality /\ "default" \in DOMAIN c.quality -> c.quality["default"]
      [] OTHER -> Total(c.quality) \div Cardinality(DOMAIN c.quality)

\* f are the features of the request r.
Cost(c, r, f) == f.tokens * c.input + r.outputTokens * c.output

MinimumOptional(a, b) == IF {a, b} = {None} THEN None ELSE Min({a, b} \ {None})
Exceeds(x, limit) == limit # None /\ x > limit

\* The reasons for which ConstraintEngine.filter rejects a candidate.
Reasons(c, r, f, p) ==
    LET needed == (f.caps \ IF r.tools THEN {"tools"} ELSE {}) \ IF r.json THEN {"json"} ELSE {}
        region == IF r.region # None THEN r.region ELSE p.region
        conflict == None \notin {r.region, p.region} /\ r.region # p.region
        holds == [disabled |-> ~c.enabled,
                  blocked |-> c.id \in p.blocked,
                  capabilities |-> ~(needed \subseteq c.caps),
                  tools |-> r.tools /\ ~c.tools,
                  json |-> r.json /\ ~c.json,
                  context |-> c.context < f.tokens + r.outputTokens,
                  region |-> \/ conflict
                             \/ region # None /\ c.regions # {} /\ region \notin c.regions,
                  restricted |-> r.sensitivity = "restricted" /\ ~c.local,
                  cost |-> Exceeds(Cost(c, r, f), MinimumOptional(r.maxCost, p.maxCost)),
                  latency |-> Exceeds(c.p95, MinimumOptional(r.maxLatency, p.maxLatency)),
                  quality |-> p.minQuality # None /\ QualityFor(c, f.task) < p.minQuality]
    IN {kind \in DOMAIN holds : holds[kind]}

Named(cs, id) == CHOOSE c \in ToSet(cs) : c.id = id
Eligible(cs, r, f, p) == Among(cs, {c \in ToSet(cs) : Reasons(c, r, f, p) = {}})
Rejected(cs, eligible, r, f, p) ==
    [id \in Ids(cs) \ Ids(eligible) |-> Reasons(Named(cs, id), r, f, p)]

-----------------------------------------------------------------------------
(* The Pareto front, rule bonuses and scores *)

Gains(a, b, r, f) ==
    {QualityFor(a, f.task) - QualityFor(b, f.task), Cost(b, r, f) - Cost(a, r, f), b.p95 - a.p95}
Dominates(a, b, r, f) == (\A gain \in Gains(a, b, r, f) : gain >= 0) /\ \E gain \in Gains(a, b, r, f) : gain > 0

\* Faulty: the front compares quality and cost only.
FrontWithoutLatency(cs, r, f) ==
    LET quick(c) == [c EXCEPT !.p95 = 0]
    IN Among(cs, {c \in ToSet(cs) : ~\E other \in ToSet(cs) :
                                        other.id # c.id /\ Dominates(quick(other), quick(c), r, f)})
ParetoFront(cs, r, f) ==
    Among(cs, {c \in ToSet(cs) : ~\E other \in ToSet(cs) : other.id # c.id /\ Dominates(other, c, r, f)})

Matches(rule, f) ==
    /\ rule.tasks = {} \/ f.task \in rule.tasks
    /\ rule.caps \subseteq f.caps
    /\ rule.low <= f.difficulty /\ f.difficulty <= rule.high

Applied(rules, pool, f) ==
    {k \in DOMAIN rules : Matches(rules[k], f) /\ rules[k].prefer \cap Ids(pool) # {}}

RuleBonus(rules, c, pool, f) ==
    Total([k \in {k \in Applied(rules, pool, f) : c.id \in rules[k].prefer} |-> rules[k].bonus])

\* objective_weights before they are divided by their sum.
Weights(p, task) ==
    LET override(o) == task \in DOMAIN p.overrides /\ o \in DOMAIN p.overrides[task]
    IN [o \in Objectives |-> IF override(o) THEN p.overrides[task][o] ELSE p.weights[o]]
WeightSum(w) == w.quality + w.cost + w.latency

\* An inverse min-max utility as numerator and denominator.
InverseMinmax(x, xs) ==
    IF Cardinality(xs) = 1 THEN [num |-> 1, den |-> 1] ELSE [num |-> Max(xs) - x, den |-> Max(xs) - Min(xs)]

\* What the objectives are weighted and measured by: the weights, the cost of each model of
\* the pool and its latencies.
Measures(pool, r, f, p) ==
    [weights |-> Weights(p, f.task),
     costs |-> {Cost(o, r, f) : o \in ToSet(pool)},
     delays |-> {o.p95 : o \in ToSet(pool)}]

Scaled(quality, cost, latency, bonus, w) ==
    w.quality * quality * cost.den * latency.den
      + w.cost * Unit * cost.num * latency.den
      + w.latency * Unit * latency.num * cost.den
      + bonus * WeightSum(w) * cost.den * latency.den

\* The totals of MultiObjectiveScorer.score for the measures m, all times ObjectiveScale.
ObjectiveTotal(c, pool, r, f, p, rules, m) ==
    Scaled(QualityFor(c, f.task), InverseMinmax(Cost(c, r, f), m.costs), InverseMinmax(c.p95, m.delays),
           RuleBonus(rules, c, pool, f) + (IF c.id \in p.preferred THEN PreferredBonus ELSE 0), m.weights)

ObjectiveScale(m) ==
    WeightSum(m.weights) * InverseMinmax(0, m.costs).den * InverseMinmax(0, m.delays).den

-----------------------------------------------------------------------------
(* Policies: which models are listed, and the total they are ordered by *)

Trained(pool, learned) == Among(pool, {c \in ToSet(pool) : c.id \in DOMAIN learned})

Learned(pool, learned) == {learned[id] : id \in Ids(Trained(pool, learned))}

\* Whether SimilarityRouter and FactorizationRouter order by what was learned.
SimilarityApplies(pool, learned) == \E x \in Learned(pool, learned) : x >= Threshold
FactorizationApplies(pool, learned) == Learned(pool, learned) # {}
UsesLearned(policy, pool, learned) ==
    \/ policy = "similarity" /\ SimilarityApplies(pool, learned)
    \/ policy = "factorization" /\ FactorizationApplies(pool, learned)

Listed(policy, eligible, r, f, learned) ==
    CASE policy = "pareto" -> ParetoFront(eligible, r, f)
      [] UsesLearned(policy, eligible, learned) -> Trained(eligible, learned)
      [] OTHER -> eligible

\* LinUCB's upper confidence, or Thompson's sample, plus the weighted prior, on one scale.
Confidence(id, objective, learned, m) == 10 * learned[id] * ObjectiveScale(m) + PriorWeight * objective

Totals(rt, listed, pool, r, f, p, m) ==
    LET objective(c) == ObjectiveTotal(c, pool, r, f, p, rt.rules, m)
    IN [id \in Ids(listed) |->
          CASE UsesLearned(rt.policy, pool, rt.learned) -> rt.learned[id]
            [] rt.policy = "linucb" -> Confidence(id, objective(Named(listed, id)), rt.learned, m)
            [] OTHER -> objective(Named(listed, id))]

\* Faulty: sorted by -total, ties as they come.
RankedByTotal(cs, total) ==
    LET ahead(i) == {j \in DOMAIN cs : \/ total[cs[j].id] > total[cs[i].id]
                                       \/ total[cs[j].id] = total[cs[i].id] /\ j < i}
        places == Ordered(DOMAIN cs, [i \in DOMAIN cs |-> ahead(i)])
    IN [k \in DOMAIN places |-> cs[places[k]].id]
\* sorted by (-total, model_id)
Ranked(cs, total) ==
    LET ahead(a) == {b \in Ids(cs) : total[b] > total[a] \/ (total[b] = total[a] /\ b < a)}
    IN Ordered(Ids(cs), [a \in Ids(cs) |-> ahead(a)])

\* The decision, for the totals and the order they give.  The models that are neither rejected
\* nor listed are those that ParetoRouter reports as dominated.
Decision(rt, rejected, matched, total, order) ==
    [error |-> None, selected |-> Head(order),
     alternatives |-> [i \in 1..(Len(order) - 1) |-> <<order[i + 1], total[order[i + 1]]>>],
     score |-> total[Head(order)],
     excluded |-> rejected,
     matched |-> matched,
     dominated |-> IF rt.policy = "pareto" THEN Ids(rt.catalog) \ (DOMAIN rejected \cup ToSet(order)) ELSE {}]

Decided(rt, rejected, matched, total, listed) == Decision(rt, rejected, matched, total, Ranked(listed, total))

\* The fallback scores the whole pool of eligible models, the Pareto router its front.
RouteAmong(rt, r, f, p, eligible, listed, pool) ==
    Decided(rt, Rejected(rt.catalog, eligible, r, f, p), Applied(rt.rules, pool, f),
            Totals(rt, listed, pool, r, f, p, Measures(pool, r, f, p)), listed)

RouteEligible(rt, r, f, p, eligible, listed) ==
    IF eligible = <<>> THEN [error |-> "NoEligibleModelError"]
    ELSE IF WeightSum(Weights(p, f.task)) = 0 THEN [error |-> "ConfigurationError"]
    ELSE RouteAmong(rt, r, f, p, eligible, listed, IF rt.policy = "pareto" THEN listed ELSE eligible)

RouteWith(rt, r, f, p) ==
    LET among(eligible) == RouteEligible(rt, r, f, p, eligible, Listed(rt.policy, eligible, r, f, rt.learned))
    IN among(Eligible(rt.catalog, r, f, p))

\* What route returns, or the error it raises.
Route(rt, r) ==
    IF rt.policy = "similarity" /\ r.query.chars > MaxQuery THEN [error |-> "ConfigurationError"]
    ELSE RouteWith(rt, r, Features(r), Profile(rt.profiles, r.user))

-----------------------------------------------------------------------------
(* Configuring a router and routing a batch with it *)

RoutingInit ==
    /\ router \in [policy : Policies, catalog : {cs \in RawCatalogs : LegalCatalog(cs)},
                   profiles : {ps \in RawProfiles : \A u \in DOMAIN ps : LegalProfile(ps[u])},
                   rules : {rs \in RawRules : \A k \in DOMAIN rs : LegalRule(rs[k])},
                   learned : LearnedScores]
    /\ LegalLearned(router.policy, router.learned, Ids(router.catalog))
    /\ batch \in [requests : {rs \in Batches : \A k \in DOMAIN rs : LegalRequest(rs[k])}, failFast : BOOLEAN]
    /\ index = 1 /\ decisions = <<>> /\ errors = <<>> /\ raised = FALSE

Pending == ~raised /\ index <= Len(batch.requests)
Outcome == Route(router, batch.requests[index])

RouteOne ==
    /\ Pending
    /\ Outcome.error = None
    /\ decisions' = Append(decisions, Outcome)
    /\ index' = index + 1
    /\ UNCHANGED <<router, batch, errors, raised>>

Filed(place) == [i \in DOMAIN errors \cup {place} |-> IF i = place THEN Outcome.error ELSE errors[i]]

\* Faulty: the error is filed under the number of decisions so far.
RecordErrorByDecisions ==
    /\ Pending
    /\ Outcome.error # None
    /\ ~batch.failFast
    /\ errors' = Filed(Len(decisions) + 1)
    /\ index' = index + 1
    /\ UNCHANGED <<router, batch, decisions, raised>>

RecordError ==
    /\ Pending
    /\ Outcome.error # None
    /\ ~batch.failFast
    /\ errors' = Filed(index)
    /\ index' = index + 1
    /\ UNCHANGED <<router, batch, decisions, raised>>

RaiseError ==
    /\ Pending
    /\ Outcome.error # None
    /\ batch.failFast
    /\ raised' = TRUE
    /\ UNCHANGED <<router, batch, index, decisions, errors>>

RoutingNext == RouteOne \/ RecordError \/ RaiseError

RoutingSpec == RoutingInit /\ [][RoutingNext]_routingVars

-----------------------------------------------------------------------------
(* Properties *)

\* The request that the i-th decision answers: decisions skip the requests that failed.
Answered(i) == CHOOSE n \in 1..(index - 1) \ DOMAIN errors : Cardinality(1..n \ DOMAIN errors) = i

ListedIds(d) == {d.selected} \cup {d.alternatives[i][1] : i \in DOMAIN d.alternatives}

Listings(models) == {cs \in [1..Cardinality(models) -> models] : ToSet(cs) = models}

\* The models a decision rests on: those it lists, or those it does not reject, for routers
\* that score the whole pool.
Kept(rt, d) == IF rt.policy = "pareto" THEN ListedIds(d) ELSE Ids(rt.catalog) \ DOMAIN d.excluded

\* What was rejected, or left the front, influences nothing, and neither does the order in
\* which the catalog lists its models: without them, and in any order, the router says the same.
OnlyTheListedMatter ==
    \A i \in DOMAIN decisions :
        LET d == decisions[i]
        IN \A cs \in Listings({c \in ToSet(router.catalog) : c.id \in Kept(router, d)}) :
               LET again == Route([router EXCEPT !.catalog = cs], batch.requests[Answered(i)])
               IN /\ again.error = None
                  /\ <<again.selected, again.alternatives, again.score>> = <<d.selected, d.alternatives, d.score>>

\* The decision d on the request r leaves no model of the catalog out without a reason.
AccountsForAll(rt, r, d) ==
    LET model(id) == Named(rt.catalog, id)
        rest == Ids(rt.catalog) \ (DOMAIN d.excluded \cup ListedIds(d))
    IN /\ DOMAIN d.excluded \cap ListedIds(d) = {}
       /\ CASE rt.policy = "pareto" ->
                  /\ rest = d.dominated
                  /\ \A id \in rest : \E l \in ListedIds(d) : Dominates(model(l), model(id), r, Features(r))
                  /\ \A id \in Ids(rt.catalog) \ DOMAIN d.excluded :
                         ~Dominates(model(id), model(d.selected), r, Features(r))
            [] rt.policy \in {"similarity", "factorization"} -> rest \cap DOMAIN rt.learned = {}
            [] OTHER -> rest = {}

\* A model of the catalog is rejected for a reason, or listed; it is left out otherwise only if
\* the Pareto router knows a listed model that is better, or a learned router does not know it.
\* What the Pareto router chooses is dominated by no model that was eligible.
EveryModelAccountedFor ==
    \A i \in DOMAIN decisions : AccountsForAll(router, batch.requests[Answered(i)], decisions[i])

\* Each request that route_many has passed has one decision or one error, in the order of the
\* requests; a batch that raises returns neither.
BatchAccounts ==
    /\ Len(decisions) + Cardinality(DOMAIN errors) = index - 1
    /\ \A i \in DOMAIN decisions : decisions[i] = Route(router, batch.requests[Answered(i)])
    /\ raised => errors = <<>>
=============================================================================
