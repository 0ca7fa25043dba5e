---------------------------- MODULE MCDetection -----------------------------
(***************************************************************************)
(* Instances of Detection for TLC: a network of 8 by 8, one head of every   *)
(* layout, pictures that shrink, grow, or leave an odd margin, and scenes   *)
(* of up to three objects whose boxes overlap in a chain.                   *)
(***************************************************************************)
EXTENDS Detection

HeadOf(task, layout, nc, obj, extra, hint) ==
    [task |-> task, layout |-> layout, nc |-> nc, obj |-> obj, extra |-> extra, hint |-> hint]

DetectionHeads ==
    {HeadOf("detection", "bcn", 3, FALSE, 0, 3),
     HeadOf("detection", "bnc", 3, TRUE, 0, 3),
     HeadOf("detection", "bcn", 3, FALSE, 0, 0),
     HeadOf("detection", "embedded", 2, FALSE, 0, 2),
     HeadOf("detection", "bnc6", 2, FALSE, 0, 2),
     HeadOf("detection", "pair", 2, FALSE, 0, 2)}

TaskHeads ==
    {HeadOf("segment", "segment", 2, FALSE, 2, 2),
     HeadOf("pose", "pose", 2, FALSE, 6, 2),
     HeadOf("pose", "pose", 2, TRUE, 3, 2),
     HeadOf("obb", "obb", 2, FALSE, 1, 2),
     HeadOf("cls", "cls", 3, FALSE, 0, 3),
     HeadOf("depth", "dense", 0, FALSE, 1, 0),
     HeadOf("detection", "bcn", 2, FALSE, 0, 5)}   \* not the class count that was declared

AllHeads == DetectionHeads \union TaskHeads

\* One class and an objectness score, or two classes: six columns.
SixColumns == {HeadOf("detection", "bnc", 1, TRUE, 0, 1), HeadOf("detection", "bnc", 2, FALSE, 0, 2)}
ClassHeads == {HeadOf("cls", "cls", 3, FALSE, 0, 3)}

Picture(w, h, up) == [w |-> w, h |-> h, up |-> up]
Pictures == {Picture(16, 9, FALSE), Picture(4, 5, FALSE), Picture(4, 5, TRUE)}
OnePicture == {Picture(8, 6, FALSE)}

Boxes == {<<0, 0, 4, 2>>, <<1, 0, 5, 2>>, <<2, 0, 6, 2>>}
Objects == [box : Boxes \union {<<0, 0, 1, 4>>}, obj : {10}, cls : 1..2, conf : {62, 90}]
Faint == [box : {<<0, 0, 4, 2>>}, obj : {6, 8}, cls : {1}, conf : {20, 62}]
FewObjects == [box : Boxes, obj : {10}, cls : {1}, conf : {62, 90}]
                  \union [box : {<<1, 0, 5, 2>>}, obj : {10}, cls : {2}, conf : {62, 90}]
Tuples(S, n) == [1..n -> S]

SomeScenes == Tuples(Objects \union Faint, 1) \union Tuples(Objects \union Faint, 2)
                  \union Tuples(FewObjects, 3)
OneObject == Tuples(Objects, 1)

Row1(export, conf) == [export |-> export, conf |-> conf]
SomeTables == {(1 :> Row1(TRUE, 500)) @@ (2 :> Row1(TRUE, 700)),
               (1 :> Row1(TRUE, 500)) @@ (2 :> Row1(FALSE, 0)),
               Unreadable}
\* What the theorems ask of networks, pictures and tables holds of these.
ASSUME InstanceFits ==
    Heads = AllHeads => HeadsFit /\ ScenesFit /\ PlacesFit /\ TablesFit

OneTable == {[c \in 1..3 |-> Row1(TRUE, 300)]}
=============================================================================
