------------------------------- MODULE Scoring -------------------------------
(***************************************************************************)
(* The application-level evaluators: a model is run on annotated samples,   *)
(* its outputs are decoded, matched with the annotations and scored.  How   *)
(* alike a prediction and an annotation are (IoU of boxes, rotated boxes or *)
(* masks, OKS of key points) is a percentage that comes with the sample.    *)
(* Fractions are in units of 1/Unit, cut off below.                         *)
(***************************************************************************)
EXTENDS Integers, SequencesExt, FiniteSetsExt

CONSTANTS
    Deployments,    \* [task, layout, nc]: build_evaluator's arguments
    Datasets,       \* task -> sequences of samples
    Unit,
    TopK            \* top-k of a classification

Boxed == {"detection", "obb", "pose", "segment"}

\* A sample has gts, what is annotated, and preds, what the network emits.
\* Objects: gts are classes; a pred has score, cls and sim, a percentage per
\* annotation; over holds the pairs of preds that NMS takes for the same one.
\* Classification: a class, and a score per class.  Maps: a value per pixel.
Objects == [preds : Seq([score : Int, cls : Int, sim : Seq(Int)]), over : SUBSET SUBSET Nat,
            gts : Seq(Int)]
SamplesOf(task) ==
    IF task \in Boxed
    THEN {s \in Objects : /\ \A i \in DOMAIN s.preds : Len(s.preds[i].sim) = Len(s.gts)
                          /\ task = "segment" => Len(s.gts) = 1}
    ELSE [preds : Seq(Int), over : {{}}, gts : IF task = "cls" THEN Int ELSE Seq(Int)]

ASSUME ScoringAssumption ==
    /\ Unit \in Nat \ {0} /\ TopK \in Nat \ {0}
    /\ \A m \in Deployments : Datasets[m.task] \subseteq Seq(SamplesOf(m.task))

VARIABLES
    model, samples,
    annotated,      \* how many annotations came with the samples
    phase,
    at,             \* the sample to be run next
    records,        \* what is kept of the samples run
    verdict         \* what evaluate() returned

vars == <<model, samples, annotated, phase, at, records, verdict>>
inputs == <<model, samples, annotated>>

-----------------------------------------------------------------------------
(* Sorting and suppression.                                                 *)

\* The elements of S as earlier, a set of pairs, puts them in order.
Ranked(S, earlier) ==
    CHOOSE order \in [1..Cardinality(S) -> S] :
        \A j, k \in DOMAIN order : j < k => <<order[j], order[k]>> \in earlier

\* np.argsort(-scores); equal scores stay in order.
ByScore(score) ==
    {e \in (DOMAIN score) \X (DOMAIN score) :
        score[e[1]] > score[e[2]] \/ (score[e[1]] = score[e[2]] /\ e[1] < e[2])}
ScoresOf(preds) == [p \in DOMAIN preds |-> preds[p].score]

\* Greedy NMS, whatever the class: the indices kept, by descending score.
Nms(preds, over, from) ==
    LET order == Ranked(from, ByScore(ScoresOf(preds)))
        kept[k \in 0..Len(order)] ==
            IF k = 0 THEN <<>>
            ELSE IF \A i \in Range(kept[k - 1]) : {i, order[k]} \notin over
                 THEN Append(kept[k - 1], order[k]) ELSE kept[k - 1] IN
    kept[Len(order)]

Take(preds, order) == [i \in DOMAIN order |-> preds[order[i]]]

-----------------------------------------------------------------------------
(* Decoding: the predictions of a sample that are scored, in order.         *)

DetLayouts == {"bcn", "bnc", "bnc6", "pair"}

\* The label of a row is a float32 array, which cannot index its scores.
Raises(m) == \/ m.layout \in {"bcn", "bnc"}
             \/ m.layout = "pair" /\ m.nc > 1

Above(preds, conf) == {i \in DOMAIN preds : preds[i].score >= conf}

DecodeDetections(s) == Take(s.preds, Nms(s.preds, s.over, Above(s.preds, 25)))
DecodePoses(s) == Take(s.preds, Nms(s.preds, s.over, Above(s.preds, 5)))
DecodeObb(s) == Take(s.preds, Nms(s.preds, s.over, DOMAIN s.preds))

\* One candidate of a segmentation: the first of the second half of those kept.
DecodeSegment(s) ==
    LET kept == Nms(s.preds, s.over, DOMAIN s.preds)
        side == IF Len(kept) > 1 THEN Len(kept) \div 2 + 1 ELSE 1 IN
    IF kept = <<>> THEN <<>> ELSE <<s.preds[kept[side]]>>

Decoded(task, s) ==
    CASE task = "segment" -> DecodeSegment(s)
      [] task = "pose" -> DecodePoses(s)
      [] task = "obb" -> DecodeObb(s)
      [] OTHER -> DecodeDetections(s)

-----------------------------------------------------------------------------
(* Matching predictions with annotations at a threshold.                    *)

\* A segmentation has one mask and one annotation, whatever the class.
PredsOf(task, r, cls) == {p \in DOMAIN r.preds : task = "segment" \/ r.preds[p].cls = cls}
GtsOf(task, r, cls) == {g \in DOMAIN r.gts : task = "segment" \/ r.gts[g] = cls}

BestOf(sim, among) ==
    {g \in among : \A h \in among : sim[g] > sim[h] \/ (sim[g] = sim[h] /\ g <= h)}

\* A bug: an annotation is found again by the next prediction.
BugFound(task, sim, gts, taken, thr) == {g \in BestOf(sim, gts) : sim[g] >= thr}

\* A detection goes for its best annotation, taken or not; rotated boxes and
\* poses for the best one that is left.
Found(task, sim, gts, taken, thr) ==
    {g \in BestOf(sim, IF task = "detection" THEN gts ELSE gts \ taken) :
        sim[g] >= thr /\ g \notin taken}

\* Who is matched with what, in the order of the scores.
Match(task, r, cls, thr) ==
    LET order == Ranked(PredsOf(task, r, cls), ByScore(ScoresOf(r.preds)))
        match[k \in 0..Len(order)] ==
            IF k = 0 THEN {}
            ELSE match[k - 1] \union
                 ({order[k]} \X Found(task, r.preds[order[k]].sim, GtsOf(task, r, cls),
                                     {m[2] : m \in match[k - 1]}, thr)) IN
    match[Len(order)]

ClassesOf(task, rs) ==
    IF task = "segment" THEN {0}
    ELSE UNION {{p.cls : p \in Range(r.preds)} \union Range(r.gts) : r \in Range(rs)}

\* The predictions and the annotations of a class in all records.
AllPreds(task, rs, cls) == UNION {{i} \X PredsOf(task, rs[i], cls) : i \in DOMAIN rs}
AllGts(task, rs, cls) == UNION {{i} \X GtsOf(task, rs[i], cls) : i \in DOMAIN rs}
Hits(task, rs, cls, thr) ==
    {x \in AllPreds(task, rs, cls) : \E m \in Match(task, rs[x[1]], cls, thr) : m[1] = x[2]}

-----------------------------------------------------------------------------
(* Average precision.                                                       *)

Ratio(a, b) == (a * Unit) \div b

\* The records one after the other; np.argsort(-scores) again.
Overall(rs, all) ==
    LET score(x) == rs[x[1]].preds[x[2]].score IN
    {e \in all \X all :
        \/ score(e[1]) > score(e[2])
        \/ /\ score(e[1]) = score(e[2])
           /\ e[1][1] < e[2][1] \/ (e[1][1] = e[2][1] /\ e[1][2] < e[2][2])}

\* A bug: precision is summed as it is, without the envelope from the right.
BugEnvelope(mpre, k) == mpre[k]

Envelope(mpre, k) == Max({mpre[j] : j \in {i \in DOMAIN mpre : i >= k}})

\* compute_ap: recall, in annotations, and precision along the ranking,
\* bracketed by 0 and 1, the envelope of the precision from the right, the
\* area under the steps.
ComputeAp(order, hits, numGt) ==
    LET n == Len(order)
        tp(k) == Cardinality({j \in 1..k : order[j] \in hits})
        mrec == [k \in 0..(n + 1) |-> IF k = n + 1 THEN Max({numGt, 1}) ELSE tp(k)]
        mpre == [k \in 0..(n + 1) |->
                    IF k = 0 THEN Unit ELSE IF k = n + 1 THEN 0 ELSE Ratio(tp(k), k)] IN
    IF n = 0 THEN 0
    ELSE SumFunction([k \in 1..(n + 1) |-> (mrec[k] - mrec[k - 1]) * Envelope(mpre, k)])
            \div Max({numGt, 1})

ClassAp(task, rs, cls, thr) ==
    LET all == AllPreds(task, rs, cls) IN
    ComputeAp(Ranked(all, Overall(rs, all)), Hits(task, rs, cls, thr),
              Cardinality(AllGts(task, rs, cls)))

\* The mean over the classes seen, in a prediction or in an annotation.
MeanAp(task, rs, thr) ==
    LET classes == ClassesOf(task, rs) IN
    IF classes = {} THEN 0
    ELSE SumFunction([c \in classes |-> ClassAp(task, rs, c, thr)]) \div Cardinality(classes)

Thresholds == [i \in 1..10 |-> 45 + 5 * i]

-----------------------------------------------------------------------------
(* Classification, depth and semantic segmentation.                         *)

Top(probs, k) == LET order == Ranked(DOMAIN probs, ByScore(probs)) IN
                 {order[i] : i \in 1..Min({k, Len(probs)})}

\* Depth: pixels whose prediction is within a quarter of the annotation.
\* Semantic: pixels of the class annotated, classes cut to those of the model.
Agrees(p, g) == IF model.task = "depth" THEN 4 * p < 5 * Max({g, 1})
                ELSE Min({p, model.nc - 1}) = Min({g, model.nc - 1})

-----------------------------------------------------------------------------
(* An evaluation.                                                           *)

NoVerdict == [available |-> FALSE, ap |-> <<>>, hits |-> 0, topk |-> 0, total |-> 0]

LayoutWanted ==
    [classification |-> {"cls"}, cls |-> {"cls"}, pose |-> {"pose"}, segment |-> {"segment"},
     obb |-> {"obb"}, depth |-> {"dense"}, sem |-> {"sem"}]
\* An unknown task falls to the detection evaluator.
Expected(task) == IF task \in DOMAIN LayoutWanted THEN LayoutWanted[task] ELSE DetLayouts

Init ==
    /\ model \in Deployments
    /\ samples \in Datasets[model.task]
    /\ annotated \in 0..Len(samples)
    /\ phase = "asked"
    /\ at = 1
    /\ records = <<>>
    /\ verdict = NoVerdict

\* No annotations, another layout, or not one annotation for every sample.
Refused == \/ annotated = 0
           \/ model.layout \notin Expected(model.task)
           \/ annotated # Len(samples)

Ask ==
    /\ phase = "asked"
    /\ phase' = IF Refused THEN "done" ELSE "running"
    /\ UNCHANGED <<inputs, at, records, verdict>>

Record(task, s) == [s EXCEPT !.preds = IF task \in Boxed THEN Decoded(task, s) ELSE @]

\* An exception ends the evaluation without a verdict: a head that cannot be
\* indexed, or a depth map of another size than its annotation.
Fails(s) ==
    \/ model.task = "detection" /\ Raises(model)
    \/ model.task = "depth" /\ s.preds # <<>> /\ Len(s.preds) # Len(s.gts)

\* A segmentation without a candidate leaves no record, not even of its
\* annotation; the other tasks keep the annotations.
Run ==
    /\ phase = "running"
    /\ at <= Len(samples)
    /\ LET r == Record(model.task, samples[at]) IN
       IF Fails(samples[at])
       THEN phase' = "done" /\ UNCHANGED <<at, records>>
       ELSE /\ at' = at + 1
            /\ records' = IF model.task = "segment" /\ r.preds = <<>>
                          THEN records ELSE Append(records, r)
            /\ UNCHANGED phase
    /\ UNCHANGED <<inputs, verdict>>

\* Nothing was decoded, or, of poses, nothing was annotated.
NothingToScore ==
    \/ model.task = "segment" /\ records = <<>>
    \/ /\ model.task = "pose"
       /\ \/ \A r \in Range(records) : r.gts = <<>>
          \/ \A r \in Range(records) : r.preds = <<>>

Score(tasks, available, metrics) ==
    /\ phase = "running"
    /\ at > Len(samples)
    /\ model.task \in tasks
    /\ verdict' = IF available THEN metrics ELSE NoVerdict
    /\ phase' = "done"
    /\ UNCHANGED <<inputs, at, records>>

ScoreObjects ==
    Score(Boxed, ~NothingToScore,
          [NoVerdict EXCEPT !.available = TRUE,
                            !.ap = [i \in 1..10 |-> MeanAp(model.task, records, Thresholds[i])]])

ScoreClasses ==
    LET within(k) == Cardinality({i \in DOMAIN records :
                                    records[i].gts \in Top(records[i].preds, k)}) IN
    Score({"cls"}, TRUE, [NoVerdict EXCEPT !.available = TRUE, !.hits = within(1),
                                           !.topk = within(TopK), !.total = Len(records)])

\* Pixels are counted over all samples; what was not decoded, and a map of classes
\* of another size, is left out.  (The code's depth metrics are means over the
\* samples of the means over their pixels.)
ScorePixels ==
    LET read == {i \in DOMAIN records : Len(records[i].preds) = Len(records[i].gts)}
        pixels == UNION {{i} \X DOMAIN records[i].gts : i \in read}
        agree == {p \in pixels : Agrees(records[p[1]].preds[p[2]], records[p[1]].gts[p[2]])} IN
    Score({"depth", "sem"}, pixels # {},
          [NoVerdict EXCEPT !.available = TRUE, !.hits = Cardinality(agree),
                            !.total = Cardinality(pixels)])

Next == Ask \/ Run \/ ScoreObjects \/ ScoreClasses \/ ScorePixels

Spec == Init /\ [][Next]_vars

-----------------------------------------------------------------------------
(* What the numbers mean.                                                   *)

\* Average precision of a detection by its definition: for the k-th annotation
\* of a class found, the best precision of any cut of the ranking that finds as
\* many.  A prediction x is a record and a place in it.
ScoreOf(rs, x) == rs[x[1]].preds[x[2]].score
SimOf(rs, x) == rs[x[1]].preds[x[2]].sim
Before(rs, x, y) == \/ ScoreOf(rs, x) > ScoreOf(rs, y)
                    \/ /\ ScoreOf(rs, x) = ScoreOf(rs, y)
                       /\ x[1] < y[1] \/ (x[1] = y[1] /\ x[2] <= y[2])

Annotations(rs, x, cls) == {g \in DOMAIN rs[x[1]].gts : rs[x[1]].gts[g] = cls}
Target(rs, x, cls) == CHOOSE g \in Annotations(rs, x, cls) :
    \A h \in Annotations(rs, x, cls) : /\ SimOf(rs, x)[g] >= SimOf(rs, x)[h]
                                       /\ h < g => SimOf(rs, x)[h] < SimOf(rs, x)[g]

\* Some annotation is like enough; no prediction before went for the same one.
Finds(rs, x, cls, thr) == \E g \in Annotations(rs, x, cls) : SimOf(rs, x)[g] >= thr
FindsFirst(rs, all, x, cls, thr) ==
    /\ Finds(rs, x, cls, thr)
    /\ \A y \in all : y # x /\ y[1] = x[1] /\ Before(rs, y, x) /\ Finds(rs, y, cls, thr)
                         => Target(rs, y, cls) # Target(rs, x, cls)

Precision(rs, all, cut, cls, thr) ==
    LET above == {x \in all : Before(rs, x, cut)} IN
    <<Cardinality({x \in above : FindsFirst(rs, all, x, cls, thr)}), Cardinality(above)>>
ApOf(rs, cls, thr) ==
    LET numGt == Cardinality(AllGts("detection", rs, cls))
        all == AllPreds("detection", rs, cls)
        cuts == {Precision(rs, all, x, cls, thr) : x \in all}
        best(k) == Max({0} \union {Ratio(c[1], c[2]) : c \in {d \in cuts : d[1] >= k}}) IN
    IF numGt = 0 THEN 0 ELSE SumFunction([k \in 1..numGt |-> best(k)]) \div numGt

Scored(tasks) == phase = "done" /\ verdict.available /\ model.task \in tasks

\* The AP of a detection is the area under the best precision at every recall,
\* an annotation being found by the first prediction that goes for it.
ApSound ==
    Scored({"detection"}) =>
        LET classes == ClassesOf("detection", records) IN
        \A i \in 1..10 :
            verdict.ap[i] = IF classes = {} THEN 0
                ELSE SumFunction([c \in classes |-> ApOf(records, c, Thresholds[i])])
                        \div Cardinality(classes)

\* No task scores above 1, and a stricter threshold never scores higher, so
\* that mAP50 bounds mAP; a class found first is found among the first k.
ScoresBounded ==
    /\ Scored(Boxed) => /\ verdict.ap[1] <= Unit
                        /\ \A i \in 1..9 : verdict.ap[i + 1] <= verdict.ap[i]
    /\ Scored({"cls"}) => verdict.hits <= verdict.topk /\ verdict.topk <= verdict.total

\* A detection model with its annotations is scored, whatever its layout
\* (application.py: bnc, bcn, bnc6 and pair are supported).
DetectionScored ==
    phase = "done" /\ model.task = "detection" /\ ~Refused => verdict.available
=============================================================================
