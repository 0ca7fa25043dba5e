----------------------------- MODULE MCScoring ------------------------------
(***************************************************************************)
(* Instances of Scoring for TLC: two annotations and up to three            *)
(* predictions in the first sample, a second sample that shares the         *)
(* ranking, and annotations that are missing or too few.                    *)
(***************************************************************************)
EXTENDS Scoring

Deploy(task, layout, nc) == [task |-> task, layout |-> layout, nc |-> nc]
Models ==
    {Deploy("detection", "bnc6", 2), Deploy("detection", "pair", 2), Deploy("detection", "dense", 2),
     Deploy("obb", "obb", 2), Deploy("pose", "pose", 2), Deploy("segment", "segment", 2),
     Deploy("cls", "cls", 3), Deploy("depth", "dense", 1), Deploy("sem", "dense", 2),
     Deploy("sem", "sem", 2)}

\* A head of every layout that is detected for detections.
DetectionModels == {Deploy("detection", l, 3) : l \in DetLayouts}

Pred(score, cls, sim) == [score |-> score, cls |-> cls, sim |-> sim]
Sample(preds, over, gts) == [preds |-> preds, over |-> over, gts |-> gts]
Tuples(S, n) == [1..n -> S]

Predictions == {Pred(s, c, sim) : s \in {50, 80}, c \in {0, 1}, sim \in Tuples({40, 60, 90}, 2)}
OfOneClass == {Pred(s, 0, sim) : s \in {20, 50, 80}, sim \in Tuples({60, 90}, 2) \union {<<60, 40>>}}
Pairs == {Sample(p, over, gts) :
             p \in Tuples(Predictions, 2), over \in {{}, {{1, 2}}}, gts \in {<<0, 0>>, <<0, 1>>}}
Triples == {Sample(p, over, <<0, 0>>) : p \in Tuples(OfOneClass, 3), over \in {{}, {{1, 2}, {2, 3}}}}
Seconds == {Sample(<<>>, {}, <<0>>), Sample(<<Pred(70, 0, <<>>)>>, {}, <<>>),
            Sample(<<Pred(60, 0, <<75>>)>>, {}, <<0>>)}

OfObjects == (Pairs \X Seconds) \union (Triples \X {Sample(<<Pred(60, 0, <<75>>)>>, {}, <<0>>)})
OfMasks == {<<Sample(p, over, <<0>>), t>> :
               p \in Tuples({Pred(s, 0, <<m>>) : s \in {50, 80}, m \in {40, 60, 90}}, 2),
               over \in {{}, {{1, 2}}},
               t \in {Sample(<<>>, {}, <<0>>), Sample(<<Pred(60, 0, <<75>>)>>, {}, <<0>>)}}
OfClasses == Tuples({Sample(p, {}, c) : p \in Tuples({10, 20, 30}, 3), c \in 1..2}, 2)
OfPixels == Tuples({Sample(p, {}, g) : p \in Tuples(0..2, 2), g \in {<<0, 1>>, <<1, 2>>, <<1>>}}, 2)

Data == [t \in {"detection", "obb", "pose"} |-> OfObjects]
        @@ ("segment" :> OfMasks) @@ ("cls" :> OfClasses)
        @@ [t \in {"depth", "sem"} |-> OfPixels]
FewData == [t \in {"detection"} |-> {<<Sample(<<Pred(80, 0, <<90>>)>>, {}, <<0>>)>>}]
=============================================================================
