------------------------------ MODULE MCRouting ------------------------------
(* A small catalog for Routing: ties, a dominated model with a bonus, a local   *)
(* model, unknown quality figures, and records the constructors must refuse.   *)
EXTENDS Routing

Model(id, cost, p95, quality) ==
    [id |-> id, enabled |-> TRUE, caps |-> {"text", "code", "math", "reasoning"}, tools |-> FALSE,
     json |-> FALSE, local |-> FALSE, context |-> 400, regions |-> {}, input |-> 0, output |-> cost,
     p50 |-> 1, p95 |-> p95, quality |-> quality]

Small == Model(1, 1, 2, [default |-> 50])
Twin == Model(2, 1, 2, [default |-> 50, code |-> 40])
Large == [Model(3, 6, 9, [code |-> 90, math |-> 70]) EXCEPT !.tools = TRUE]
Slow == Model(4, 4, 9, [default |-> 45])
Quick == Model(6, 4, 1, [default |-> 45])
Local == [Model(5, 2, 5, [default |-> 60]) EXCEPT !.local = TRUE, !.regions = {"eu"}]

MCCatalogs == {<<Small, Twin, Large, Quick>>, <<Local, Slow, Large, Small>>,
               <<Small, Small>>, <<[Small EXCEPT !.p50 = 7]>>}

Cautious == [DefaultProfile EXCEPT !.preferred = {4}, !.blocked = {1}, !.minQuality = 45, !.maxCost = 9]
MCProfiles == {<<>>, [u |-> Cautious], [u |-> [DefaultProfile EXCEPT !.overrides =
                   [code |-> [quality |-> 0, cost |-> 0, latency |-> 0]], !.region = "eu"]],
               [u |-> [DefaultProfile EXCEPT !.preferred = {1}, !.blocked = {1}]]}

Rule(prefer, tasks, low) ==
    [prefer |-> prefer, tasks |-> tasks, caps |-> {"text"}, low |-> low, high |-> 1000000, bonus |-> 40]
MCRules == {<<>>, <<Rule({4, 9}, {}, 300000), Rule({2}, {"code"}, 0)>>, <<Rule({}, {}, 0)>>}

Query == [chars |-> 360, words |-> 40, code |-> 0, math |-> 0, keyword |-> "none", multistep |-> FALSE]
Ask == [query |-> Query, user |-> "u", outputTokens |-> 2, caps |-> {}, maxCost |-> None, maxLatency |-> None,
        region |-> None, tools |-> FALSE, json |-> FALSE, sensitivity |-> "normal", hint |-> None,
        contextTokens |-> None]
AskCode == [Ask EXCEPT !.query.code = 1, !.maxCost = 8, !.query.multistep = TRUE]
AskTools == [Ask EXCEPT !.tools = TRUE, !.caps = {"tools"}, !.user = "v", !.query.math = 2]
AskPrivate == [Ask EXCEPT !.sensitivity = "restricted", !.region = "us", !.contextTokens = 10]
AskQuick == [Ask EXCEPT !.maxLatency = 5, !.hint = "math", !.query.chars = 1200]

MCBatches == {<<Ask, AskCode>>, <<[Ask EXCEPT !.outputTokens = -1]>>, <<AskCode, AskTools, AskPrivate, AskQuick>>, <<AskQuick, Ask>>}
MCLearned == {(1 :> 30) @@ (2 :> 30) @@ (3 :> 80) @@ (4 :> 10) @@ (5 :> 30) @@ (6 :> 20), (2 :> 70) @@ (3 :> 70), (3 :> 20)}
=============================================================================
