------------------------------ MODULE Detection ------------------------------
(***************************************************************************)
(* The serving runtime from a picture to the reply: letterbox, the model,   *)
(* the decoder the output contract selects, CPU NMS, the way back to the    *)
(* picture and the confidence table.  The contract is what the converter    *)
(* found in the exported graph.  Lengths are in quarters of a pixel, scores *)
(* in thousandths; a row of the output holds its columns in the order the   *)
(* network emits them.  A head has more candidates than columns.            *)
(***************************************************************************)
EXTENDS Integers, SequencesExt, FiniteSetsExt

CONSTANTS
    Heads,          \* [task, layout, nc, obj, extra, hint]: what the network emits
    Images,         \* [w, h, up]: a picture, and letterbox_scale_up
    Scenes,         \* sequences of objects: box in the picture, obj, cls, conf
    Tables,         \* confidence.json: class -> [export, conf], or Unreadable
    Net,            \* the side of the network's input
    NumMasks,       \* mask coefficients the runtime assumes: 32
    Candidates,     \* rows of a head, the background included
    ConfThres,      \* in thousandths
    IouThres,       \* in hundredths
    MaxDet

Unreadable == <<>>      \* missing, not JSON, or empty

ASSUME DetectionAssumption ==
    /\ MaxDet \in Nat \ {0}
    /\ ConfThres \in Nat
    /\ IouThres \in 0..100
    /\ Net \in Nat \ {0}
    /\ NumMasks \in Nat /\ Candidates \in Nat

HeadLayouts == {"bcn", "bnc", "bnc6", "embedded", "pair", "segment", "pose", "obb", "cls", "dense"}
HeadTasks == {"detection", "segment", "pose", "obb", "cls", "depth", "sem"}

\* Classes and maps have heads of their own; the mask coefficients the runtime
\* counts on are there.
ASSUME InputsAssumption ==
    /\ Heads \subseteq [task : HeadTasks, layout : HeadLayouts, nc : Nat, obj : BOOLEAN,
                        extra : Nat, hint : Nat]
    /\ \A hd \in Heads : /\ hd.layout = "cls" <=> hd.task = "cls"
                         /\ hd.layout = "dense" <=> hd.task \in {"depth", "sem"}
                         /\ hd.layout = "segment" <=> hd.task = "segment"
                         /\ hd.task = "segment" => hd.extra >= NumMasks
    /\ Images \subseteq [w : Nat \ {0}, h : Nat \ {0}, up : BOOLEAN]
    /\ Scenes \subseteq Seq([box : [1..4 -> Nat], obj : Nat, cls : Nat, conf : Nat])

VARIABLES
    head, image, scene, table,      \* the inputs, which do not change
    phase,
    contract,       \* runtime.yaml: layout, num_classes, has_objectness
    cand,           \* the rows above the threshold: box, score, cls, extra
    rest,           \* rows NMS has not yet settled
    kept,           \* rows NMS kept, class by class
    result,         \* what predict() returned
    loaded,         \* the confidence table this process has read, <<>> before
    reply           \* the data of the answer

vars == <<head, image, scene, table, phase, contract, cand, rest, kept, result, loaded, reply>>
inputs == <<head, image, scene, table>>

-----------------------------------------------------------------------------
(* Letterbox: the picture shrinks to fit, or also grows when asked to.      *)

\* int(round(a / b)): a half goes to the even neighbour.
Nearest(a, b) == LET f == a \div b
                     r == 2 * (a % b) IN
                 CASE r < b -> f [] r > b -> f + 1 [] OTHER -> f + (f % 2)

Axis(i) == IF i \in {1, 3} THEN 1 ELSE 2
Extent(img, i) == IF Axis(i) = 1 THEN img.w ELSE img.h

Side(img) == Max({img.w, img.h} \union (IF img.up THEN {} ELSE {Net}))
Shrunk(img, i) == Nearest(Extent(img, i) * Net, Side(img))
Margin(img) == <<2 * (Net - Shrunk(img, 1)), 2 * (Net - Shrunk(img, 2))>>
\* The border is a whole number of pixels; the margin may be half a pixel more.
Border(img) == <<4 * (Margin(img)[1] \div 4), 4 * (Margin(img)[2] \div 4)>>

\* Where the network sees a box: on the nearest pixels of its input.
Seen(img, box) ==
    [i \in 1..4 |-> 4 * Nearest(box[i] * Shrunk(img, i), Extent(img, i)) + Border(img)[Axis(i)]]

Clip(v, hi) == IF v < 0 THEN 0 ELSE IF v > hi THEN hi ELSE v
Remap(img, box) ==
    [i \in 1..4 |-> Clip(((box[i] - Margin(img)[Axis(i)]) * Side(img)) \div Net, 4 * Extent(img, i))]

-----------------------------------------------------------------------------
(* What the network emits for an object: columns of its head.               *)

Centred(b) == <<(b[1] + b[3]) \div 2, (b[2] + b[4]) \div 2, b[3] - b[1], b[4] - b[2]>>
Classes(hd, o) == [c \in 1..hd.nc |-> IF c = o.cls THEN o.conf ELSE o.conf \div 2]
Extra(hd, i) == [j \in 1..hd.extra |-> 10 * i + j]
Objectness(hd, o) == IF hd.obj THEN <<o.obj>> ELSE <<>>
Confidence(hd, o) == IF hd.obj THEN o.obj * o.conf ELSE 10 * o.conf

Row(hd, img, o, i) ==
    LET box == Seen(img, o.box) IN
    CASE hd.layout \in {"bnc6", "embedded"} -> box \o <<Confidence(hd, o), o.cls - 1>>
      [] hd.layout = "pair" -> box \o Classes(hd, o)
      [] hd.layout = "obb" -> Centred(box) \o Extra(hd, i) \o Classes(hd, o)
      [] hd.layout = "cls" -> Classes(hd, o)
      [] hd.layout = "dense" -> Extra(hd, i)
      [] OTHER -> Centred(box) \o Objectness(hd, o) \o Classes(hd, o) \o Extra(hd, i)

Rows(hd, img, sc) == [i \in DOMAIN sc |-> Row(hd, img, sc[i], i)]

Columns(hd) == CASE hd.layout \in {"bnc6", "embedded"} -> 6
                 [] hd.layout = "pair" -> 4
                 [] OTHER -> 4 + hd.nc + hd.extra + (IF hd.obj THEN 1 ELSE 0)
Shape(hd) == IF hd.layout \in {"bnc", "bnc6", "pair", "embedded"}
             THEN <<Candidates, Columns(hd)>> ELSE <<Columns(hd), Candidates>>

-----------------------------------------------------------------------------
(* The output contract, detected on the graph that is compiled.             *)

MatchesChannels(n, nc) == n >= 4 /\ (IF nc > 0 THEN n \in {4 + nc, 5 + nc} ELSE n > 6)

Contract(layout, nc, obj) == [layout |-> layout, nc |-> nc, obj |-> obj]
FillNumClasses(n, nc) == IF nc > 0 THEN nc ELSE Max({0, n - 4})

DetectShape(shape, nc) ==
    CASE shape[2] = 6 -> Contract("bnc6", nc, FALSE)
      [] shape[2] # 6 /\ MatchesChannels(shape[2], nc) ->
            Contract("bnc", FillNumClasses(shape[2], nc), shape[2] = 5 + nc)
      [] shape[2] # 6 /\ ~MatchesChannels(shape[2], nc) /\ MatchesChannels(shape[1], nc) ->
            Contract("bcn", FillNumClasses(shape[1], nc), shape[1] = 5 + nc)
      [] OTHER -> Contract("unknown", nc, FALSE)

Detect(hd) ==
    CASE hd.layout = "embedded" -> Contract("bnc6", hd.hint, FALSE)
      [] hd.layout = "pair" -> Contract("pair", hd.nc, FALSE)
      [] OTHER -> DetectShape(Shape(hd), hd.hint)

TaskLayout == [segment |-> "segment", pose |-> "pose", obb |-> "obb", cls |-> "cls",
               depth |-> "dense", sem |-> "dense"]

DetectForTask(hd) ==
    IF hd.task \in DOMAIN TaskLayout
    THEN [Detect(hd) EXCEPT !.layout = TaskLayout[hd.task]]
    ELSE Detect(hd)

Layouts == {"bcn", "bnc", "bnc6", "pair", "segment", "pose", "obb", "cls", "dense"}

-----------------------------------------------------------------------------
(* Decoders: a row to a candidate.                                          *)

ArgMax(s) == CHOOSE i \in DOMAIN s : (\A j \in DOMAIN s : s[i] >= s[j]) /\ (\A j \in 1..(i - 1) : s[j] < s[i])
ToXyxy(r) == <<r[1] - r[3] \div 2, r[2] - r[4] \div 2, r[1] + r[3] \div 2, r[2] + r[4] \div 2>>
Found(box, score, cls, extra) == [box |-> box, score |-> score, cls |-> cls, extra |-> extra]

FromColumns(row, nc, hasObjectness, extra) ==
    LET has == IF nc > 0 THEN Len(row) = 5 + nc ELSE hasObjectness
        first == IF has THEN 6 ELSE 5
        classes == SubSeq(row, first, IF nc > 0 THEN Min({Len(row), first + nc - 1}) ELSE Len(row))
        best == ArgMax(classes) IN
    Found(ToXyxy(row), (IF has THEN row[5] ELSE 10) * classes[best], best - 1, extra)

Split(row, n) == <<SubSeq(row, 1, n), SubSeq(row, n + 1, Len(row))>>

SegmentRow(row, ct) ==
    LET given == IF ct.nc > 0 THEN ct.nc + 4 ELSE Len(row) - NumMasks
        box == IF given < 5 \/ Len(row) >= given + NumMasks THEN Len(row) - NumMasks ELSE given
        part == Split(row, box) IN
    FromColumns(part[1], ct.nc, ct.obj, part[2])

\* A bug: a pose head is taken to have no objectness column.
BugPoseRow(row, ct) ==
    LET part == Split(row, ct.nc + 4) IN FromColumns(part[1], ct.nc, FALSE, part[2])

PoseRow(row, ct) ==
    LET plain == ct.nc + 4
        box == IF (Len(row) - plain) % 3 = 0 THEN plain ELSE plain + 1
        part == Split(row, box) IN
    FromColumns(part[1], ct.nc, box > plain, part[2])

ObbRow(row, ct) ==
    FromColumns(SubSeq(row, 1, 4) \o SubSeq(row, 6, Len(row)),
                IF Len(row) = 5 + ct.nc THEN ct.nc ELSE Len(row) - 5, ct.obj, <<row[5]>>)

End2EndRow(row) == Found(SubSeq(row, 1, 4), row[5], row[6], <<>>)

PairRow(row) ==
    LET scores == SubSeq(row, 5, Len(row))
        best == ArgMax(scores) IN
    Found(SubSeq(row, 1, 4), 10 * scores[best], best - 1, <<>>)

DecodeRow(row, ct) ==
    CASE ct.layout \in {"bnc", "bcn"} -> FromColumns(row, ct.nc, ct.obj, <<>>)
      [] ct.layout = "bnc6" -> End2EndRow(row)
      [] ct.layout = "pair" -> PairRow(row)
      [] ct.layout = "segment" -> SegmentRow(row, ct)
      [] ct.layout = "pose" -> PoseRow(row, ct)
      [] ct.layout = "obb" -> ObbRow(row, ct)

Decode(rows, ct) ==
    LET all == [i \in DOMAIN rows |-> DecodeRow(rows[i], ct)] IN
    Restrict(all, {i \in DOMAIN rows : all[i].score >= ConfThres})

\* Classification: the classes in descending order that reach the threshold,
\* and the best one when none does.
TopK(probs) ==
    LET order == SetToSortSeq(DOMAIN probs, LAMBDA a, b : probs[a] > probs[b]
                                              \/ (probs[a] = probs[b] /\ a > b))
        keep == SelectSeq(order, LAMBDA c : 10 * probs[c] >= ConfThres) IN
    [i \in DOMAIN (IF keep = <<>> THEN <<order[1]>> ELSE keep) |->
        [cls |-> order[i] - 1, score |-> 10 * probs[order[i]]]]

-----------------------------------------------------------------------------
(* Overlap of two boxes, in the terms NMS compares.                         *)

Area(b) == Max({0, b[3] - b[1]}) * Max({0, b[4] - b[2]})
Inter(a, b) == Max({0, Min({a[3], b[3]}) - Max({a[1], b[1]})})
             * Max({0, Min({a[4], b[4]}) - Max({a[2], b[2]})})
Overlap(a, b) ==
    LET inter == Inter(a, b)
        union == Area(a) + Area(b) - inter IN
    union > 0 /\ 100 * inter > IouThres * union

-----------------------------------------------------------------------------
(* A reply.                                                                 *)

Init ==
    /\ head \in Heads
    /\ image \in Images
    /\ scene \in Scenes
    /\ \A i \in DOMAIN scene, s \in 1..4 : scene[i].box[s] <= Extent(image, s)
    /\ table \in Tables
    /\ phase = "convert"
    /\ contract = Contract("unknown", 0, FALSE)
    /\ cand = <<>> /\ rest = {} /\ kept = <<>>
    /\ result = <<>> /\ loaded = <<>> /\ reply = <<>>

\* The converter writes the contract it detects, whatever model.yaml declares.
Convert ==
    /\ phase = "convert"
    /\ contract' = DetectForTask(head)
    /\ phase' = "deploy"
    /\ UNCHANGED <<inputs, cand, rest, kept, result, loaded, reply>>

\* DecoderFactory.create: no decoder for a layout that is not known.
Deploy ==
    /\ phase = "deploy"
    /\ phase' = IF contract.layout \in Layouts THEN "ready" ELSE "refused"
    /\ UNCHANGED <<inputs, contract, cand, rest, kept, result, loaded, reply>>

Boxed == {"bcn", "bnc", "bnc6", "pair"}
Tasked == {"segment", "pose", "obb"}

\* Detection goes back to the picture before NMS, the other tasks after it.
Candidate(f) == IF contract.layout \in Boxed THEN [f EXCEPT !.box = Remap(image, @)] ELSE f

PredictBoxes ==
    /\ phase = "ready"
    /\ contract.layout \in Boxed \union Tasked
    /\ LET found == Decode(Rows(head, image, scene), contract) IN
       /\ cand' = [i \in DOMAIN found |-> Candidate(found[i])]
       /\ rest' = DOMAIN found
       /\ phase' = IF DOMAIN found = {} THEN "predicted" ELSE "nms"
    /\ UNCHANGED <<inputs, contract, kept, result, loaded, reply>>

PredictMap ==
    /\ phase = "ready"
    /\ contract.layout \in {"cls", "dense"}
    /\ LET row == Rows(head, image, scene)[1] IN
       result' = IF contract.layout = "cls" THEN TopK(row) ELSE <<row[1]>>
    /\ phase' = "predicted"
    /\ UNCHANGED <<inputs, contract, cand, rest, kept, loaded, reply>>

\* A bug: a kept box also removes the boxes of other classes it overlaps.
BugSuppress ==
    /\ phase = "nms"
    /\ rest # {}
    /\ LET class == Min({cand[i].cls : i \in rest}) IN
       \E best \in {i \in rest : cand[i].cls = class} :
          /\ \A i \in rest : cand[i].cls = class => cand[i].score <= cand[best].score
          /\ kept' = Append(kept, best)
          /\ rest' = rest \ {i \in rest : i = best \/ Overlap(cand[best].box, cand[i].box)}
    /\ UNCHANGED <<inputs, phase, contract, cand, result, loaded, reply>>

\* One round of _nms_single, class after class.  argsort leaves equal scores
\* in any order.
Suppress ==
    /\ phase = "nms"
    /\ rest # {}
    /\ LET class == Min({cand[i].cls : i \in rest})
           same == {i \in rest : cand[i].cls = class} IN
       \E best \in same :
          /\ \A i \in same : cand[i].score <= cand[best].score
          /\ kept' = Append(kept, best)
          /\ rest' = rest \ {i \in same : i = best \/ Overlap(cand[best].box, cand[i].box)}
    /\ UNCHANGED <<inputs, phase, contract, cand, result, loaded, reply>>

\* keep_all.sort(reverse=True) keeps the order of equal scores: places in kept,
\* in the order of earlier.
Earlier ==
    {p \in (DOMAIN kept) \X (DOMAIN kept) :
        \/ cand[kept[p[1]]].score > cand[kept[p[2]]].score
        \/ cand[kept[p[1]]].score = cand[kept[p[2]]].score /\ p[1] < p[2]}
Ranked(S, earlier) ==
    CHOOSE order \in [1..Cardinality(S) -> S] :
        \A j, k \in DOMAIN order : j < k => <<order[j], order[k]>> \in earlier

\* A bug: max_det cuts before the classes are sorted together.
BugBest == 1..Min({MaxDet, Len(kept)})

Best == LET order == Ranked(DOMAIN kept, Earlier) IN
        {order[k] : k \in 1..Min({MaxDet, Len(kept)})}

Narrow(b) == b[3] - b[1] < 4 \/ b[4] - b[2] < 4
Whole(b) == [i \in 1..4 |-> Nearest(b[i], 4)]
Object(c) ==
    [id |-> c.cls + 1, score |-> c.score, extra |-> c.extra,
     box |-> Whole(IF contract.layout \in Boxed THEN c.box ELSE Remap(image, c.box))]

\* Detections less than a pixel wide or high are left out.
Returned == {k \in Best : contract.layout \in Boxed => ~Narrow(cand[kept[k]].box)}

Finish ==
    /\ phase = "nms"
    /\ rest = {}
    /\ LET order == Ranked(Returned, Earlier) IN
       result' = [i \in DOMAIN order |-> Object(cand[kept[order[i]]])]
    /\ phase' = "predicted"
    /\ UNCHANGED <<inputs, contract, cand, rest, kept, loaded, reply>>

\* round(score, 2)
Hundredths(v) == 10 * ((v + 5) \div 10)

Exported(t, id) == id \in DOMAIN t /\ t[id].export

\* Detections compare the rounded confidence, the other tasks the score.
Passes(t, o) == IF head.task = "detection" THEN Hundredths(o.score) >= t[o.id].conf
                ELSE o.score >= t[o.id].conf
Listed(t, o) == Exported(t, o.id) /\ Passes(t, o)
Answer(o) == [o EXCEPT !.score = Hundredths(@)]
\* The objects that are listed, each at its place in the result.
Answers(t) == LET listed == {k \in DOMAIN result : Listed(t, result[k])} IN
              [k \in listed |-> Answer(result[k])]

FormatObjects ==
    /\ phase = "predicted"
    /\ contract.layout \in Boxed \union Tasked
    /\ IF table = Unreadable
       THEN phase' = "failed" /\ UNCHANGED <<loaded, reply>>
       ELSE phase' = "answered" /\ loaded' = table /\ reply' = Answers(table)
    /\ UNCHANGED <<inputs, contract, cand, rest, kept, result>>

\* The classes are looked up in the table as this process has it.
FormatClasses ==
    /\ phase = "predicted"
    /\ contract.layout = "cls"
    /\ reply' = SelectSeq(result, LAMBDA c : Exported(loaded, c.cls + 1))
    /\ phase' = "answered"
    /\ UNCHANGED <<inputs, contract, cand, rest, kept, result, loaded>>

FormatMap ==
    /\ phase = "predicted"
    /\ contract.layout = "dense"
    /\ reply' = result
    /\ phase' = "answered"
    /\ UNCHANGED <<inputs, contract, cand, rest, kept, result, loaded>>

Next ==
    \/ Convert \/ Deploy
    \/ PredictBoxes \/ PredictMap
    \/ Suppress \/ Finish
    \/ FormatObjects \/ FormatClasses \/ FormatMap

Spec == Init /\ [][Next]_vars

-----------------------------------------------------------------------------
(* What is meant by a good answer, in terms of the picture.                 *)

Suppressed == (DOMAIN cand) \ (rest \union Range(kept))

\* Throughout NMS no two kept candidates of a class overlap, none of those
\* still to be settled overlaps one kept before it, and a candidate that was
\* dropped overlaps a kept one of its class whose score is no lower.
NmsSound ==
    /\ \A i, j \in Range(kept) \union rest :
          i # j /\ {i, j} \cap Range(kept) # {} /\ cand[i].cls = cand[j].cls
              => ~Overlap(cand[i].box, cand[j].box)
    /\ \A i \in Suppressed : \E k \in Range(kept) :
          /\ cand[k].cls = cand[i].cls
          /\ cand[k].score >= cand[i].score
          /\ Overlap(cand[k].box, cand[i].box)

\* A coordinate is rounded when the picture is resized, when the network reports
\* it and where the border is half a pixel less than the margin, each time by up
\* to half a pixel of the input; then to a quarter of a pixel, and to a whole one.
Near(a, b) == 4 * Net * Max({a - b, b - a}) <= 6 * Side(image) + 3 * Net
ObjectExtra(i) == IF head.task = "detection" THEN <<>> ELSE Extra(head, i)
IsObject(o, i) ==
    /\ o.id = scene[i].cls
    /\ \A s \in 1..4 : Near(o.box[s], scene[i].box[s])
    /\ o.score = Confidence(head, scene[i])
    /\ o.extra = ObjectExtra(i)

\* Every object predict() returns is one of the objects in the picture, at
\* its place within the rounding, with its class, its score and its own key
\* points, angle or mask coefficients; and no object is returned twice.
Truthful ==
    phase \in {"predicted", "answered", "failed"} /\ contract.layout \in Boxed \union Tasked =>
        \E f \in [DOMAIN result -> DOMAIN scene] :
            /\ IsInjective(f)
            /\ \A i \in DOMAIN result : IsObject(result[i], f[i])

\* What the runtime asks of a network and never checks: the columns of its
\* output are those the decoder of the contract counts on.
Fits(hd, ct) ==
    /\ hd.nc > 0
    /\ CASE ct.layout \in {"bcn", "bnc"} ->
                /\ hd.layout \in {"bcn", "bnc"} /\ hd.extra = 0
                /\ ct.nc >= hd.nc /\ (hd.obj => ct.nc = hd.nc)
         [] ct.layout = "bnc6" -> hd.layout \in {"bnc6", "embedded"}
         [] ct.layout = "pair" -> hd.layout = "pair" /\ ~hd.obj
         [] ct.layout = "segment" -> ct.nc = hd.nc /\ hd.extra = NumMasks
         [] ct.layout = "pose" -> hd.layout = "pose" /\ ct.nc = hd.nc /\ hd.extra % 3 = 0
         [] ct.layout = "obb" -> hd.layout = "obb" /\ hd.extra = 1 /\ ~hd.obj

FindsBoxes(hd) == DetectForTask(hd).layout \in Boxed \union Tasked
HeadsFit == \A hd \in Heads : FindsBoxes(hd) => Fits(hd, DetectForTask(hd))
\* A network finds objects of its own classes, with a score above zero.
SceneObjects == UNION {Range(sc) : sc \in Scenes}
ScenesFit == \A hd \in Heads : FindsBoxes(hd) =>
                \A o \in SceneObjects : o.cls \in 1..hd.nc /\ o.conf > 0

Visible(o) == o.box[3] - o.box[1] >= 2 /\ o.box[4] - o.box[2] >= 2

\* What a detection head's boxes go through before NMS compares them leaves an
\* object in sight, and brings no two of them together.
Placed(img, o) == Remap(img, Seen(img, o.box))
Inside(img, o) == \A s \in 1..4 : o.box[s] <= Extent(img, s)
PlacesFit == (\E hd \in Heads : hd.task = "detection") =>
    \A img \in Images, o, q \in SceneObjects : Inside(img, o) /\ Inside(img, q) /\ Visible(o) =>
        /\ ~Narrow(Placed(img, o))
        /\ Overlap(Placed(img, q), Placed(img, o)) =>
               ~Narrow(Placed(img, q)) /\ Overlap(Seen(img, q.box), Seen(img, o.box))

\* Thresholds are given in hundredths.
TablesFit == \A t \in Tables : \A id \in DOMAIN t : t[id].conf \in Nat /\ t[id].conf % 10 = 0

Wanted(o) == /\ Confidence(head, o) >= ConfThres
             /\ Exported(table, o.cls)
             /\ Confidence(head, o) >= table[o.cls].conf
             /\ Visible(o)
Reported(i) == \E a \in Range(reply) :
                  /\ a.score = Hundredths(Confidence(head, scene[i]))
                  /\ IsObject([a EXCEPT !.score = Confidence(head, scene[i])], i)
Rivals(i) == {j \in DOMAIN scene :
                 /\ scene[j].cls = scene[i].cls
                 /\ Confidence(head, scene[j]) >= Confidence(head, scene[i])
                 /\ Overlap(Seen(image, scene[j].box), Seen(image, scene[i].box))}

\* An object the confidence table asks for is in the answer, unless an object
\* of its class and of no lower score that it overlaps is, or max_det others
\* of no lower score were kept.
NothingLost ==
    phase = "answered" /\ contract.layout \in Boxed \union Tasked =>
        \A i \in DOMAIN scene : Wanted(scene[i]) =>
            \/ \E j \in Rivals(i) \union {i} : Reported(j)
            \/ Cardinality({k \in Range(kept) :
                               cand[k].score >= Confidence(head, scene[i])}) > MaxDet

\* The layout a detection head is announced under is the one it has
\* (contract/output.py: the semantics of the output made explicit).
LayoutRight ==
    contract.layout # "unknown" /\ head.task = "detection" =>
        contract.layout = IF head.layout = "embedded" THEN "bnc6" ELSE head.layout

\* A classification whose best class is exported is answered with a class
\* (nwai_utils.py: classes, codes and thresholds come from confidence.json).
ClassesAnswered ==
    phase = "answered" /\ contract.layout = "cls" /\ Exported(table, result[1].cls + 1)
        => reply # <<>>
=============================================================================
