------------------------- MODULE MCExperimentFiles -------------------------
(* Small data sets for ExperimentFiles. *)
EXTENDS ExperimentFiles

Outcome(quality, cost) == [quality |-> quality, cost |-> cost, success |-> quality > 4]
\* Model 1 is weak, 2 strong, and a third is observed sometimes.
Trace(id, user, topic, weak, strong, score, label) ==
    [id |-> id, user |-> user, topic |-> topic, pair |-> <<2, 1>>, score |-> score, preferred |-> label,
     outcomes |-> (1 :> Outcome(weak, 1)) @@ (2 :> Outcome(strong, 4)) @@
                  (IF id = 4 THEN 3 :> Outcome(5, 2) ELSE <<>>)]

First == <<Trace(1, 11, 2, 4, 9, 5, 2), Trace(2, 11, 3, 6, 5, 2, 1), Trace(3, 12, 8, 3, 7, 5, 2), Trace(4, 13, 9, 5, 8, 7, 2)>>
\* The users change places, and a record is new.
Second == <<Trace(1, 13, 2, 4, 9, 5, 2), Trace(2, 12, 3, 6, 5, 2, 1), Trace(5, 12, 7, 3, 7, 5, 2), Trace(4, 11, 9, 5, 8, 6, 2)>>
Unlabelled == [First EXCEPT ![3].preferred = None, ![2].user = None]

Study(users, weak, scores) ==
    [i \in DOMAIN users |-> Trace(i, 10 + users[i], (3 * i) % 11, weak[i], 6, scores[i], 1 + (i % 2))]
Example(id, prompt) == [id |-> id, prompt |-> prompt]
Three == <<Example(1, "p"), Example(2, "q"), Example(3, "q"), Example(4, "r")>>
Two == <<Example(1, "p"), Example(2, "q")>>

MCDigestOrder == (1 :> 4) @@ (2 :> 1) @@ (3 :> 6) @@ (4 :> 2) @@ (5 :> 5) @@ (6 :> 3) @@ (11 :> 8) @@ (12 :> 7) @@ (13 :> 9)
MCSplitConfigs == {[train |-> 40, calibration |-> 30, by |-> "user"], [train |-> 80, calibration |-> 10, by |-> "request_id"]}

MCOriginal ==
    [source |-> First, catalog |-> {1, 2, 3}, examples |-> Three, training |-> (7 :> 2) @@ (8 :> 9),
     evaluation |-> (1 :> 2) @@ (2 :> 5) @@ (3 :> 8) @@ (4 :> 4),
     checkpoint |-> [source |-> Three, pending |-> FALSE, correct |-> <<0, 1, 1, 0, 1, 1, 0, 1>>],
     scores |-> (1 :> 4) @@ (2 :> 9) @@ (3 :> 4) @@ (4 :> 1)]
    @@ Split(First, [train |-> 60, calibration |-> 20, by |-> "request_id"])
MCContents ==
    [f \in DOMAIN MCOriginal \ Names |->
        {MCOriginal[f]} \cup CASE f = "source" -> {Second}
                               [] f = "catalog" -> {{1, 3}}
                               [] f = "examples" -> {Two}
                               [] f = "evaluation" -> {(1 :> 2) @@ (2 :> 5), (1 :> 9) @@ (2 :> 4) @@ (3 :> 4) @@ (4 :> 5)}
                               [] OTHER -> {}]

\* The sizes of groups and where they stand; gains and losses, tied scores; embeddings near and far.
Sources ==
    {Study(<<1>> \o users, <<4, 9, 6, 2, 7>>, <<1, 3, 3, 5, 7>>) : users \in [1..4 -> 1..3]}
    \cup {Study(<<1, 2, 3, 1>>, weak, scores) :
              weak \in [1..4 -> {3, 8}], scores \in {<<2, 2, 6, 6>>, <<6, 2, 6, 2>>, <<0, 3, 6, 9>>}}
MCStudies ==
    UNION {{Split(s, config) @@ [source |-> s] : s \in {s \in Sources : Split(s, config) # Error}} : config \in MCSplitConfigs}
    \cup {[source |-> s] : s \in Sources \cup {Unlabelled, <<First[1], Junk, First[2]>>, <<First[1], First[1]>>, <<>>}}
    \cup {[scores |-> scores, exclusions |-> {"q"},
           checkpoint |-> [MCOriginal.checkpoint EXCEPT !.correct = <<a, 1, 1, b, c, 1, 0, 0>>]] :
              scores \in [1..4 -> {1, 4}], a, b, c \in {0, 1}}
    \cup {[training |-> (7 :> t) @@ (8 :> 9)] : t \in {1, 4, 6}}

MCSweepConfigs == {[thresholds |-> None, bins |-> 3], [thresholds |-> {5}, bins |-> 1]}
MCBounds == {[cost |-> 3 * 4, quality |-> None], [cost |-> None, quality |-> 9], [cost |-> None, quality |-> None]}
MCFactorScores == {[topic \in 0..10 |-> (1 :> 5) @@ (2 :> topic) @@ (3 :> 5)]}
=============================================================================
