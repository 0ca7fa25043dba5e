--------------------------- MODULE DetectionProofs ---------------------------
(***************************************************************************)
(* Proofs about Detection: NMS keeps, class by class, boxes that do not    *)
(* overlap, and drops only boxes that a better one of their class covers,  *)
(* for every head, picture, scene and threshold; and every box predict()   *)
(* returns is one of an object of the picture, at its place and with its   *)
(* class and score, for every head whose columns are where its contract    *)
(* says they are (HeadsFit; DeclaredHeadsFit proves it of every head that  *)
(* declares its classes).  No object that is asked for is lost, where the  *)
(* letterbox leaves boxes apart (PlacesFit; FramedPlacesFit proves it of   *)
(* pictures that are not scaled).                                          *)
(***************************************************************************)
EXTENDS Detection, SequenceTheorems, FiniteSetTheorems, FunctionTheorems, TLAPS

USE DetectionAssumption

Objects == [box : [1..4 -> Nat], obj : Nat, cls : Nat, conf : Nat]
Pictures == [w : Nat \ {0}, h : Nat \ {0}, up : BOOLEAN]

(* Four coordinates. *)
IsBox(b) == \A i \in 1..4 : b[i] \in Int

-----------------------------------------------------------------------------
(* The greatest of two is one of them. *)
LEMMA MaxOfTwo ==
    ASSUME NEW a \in Int, NEW b \in Int
    PROVE  Max({a, b}) \in Int /\ (Max({a, b}) = a \/ Max({a, b}) = b)
<1>1. \E m \in {a, b} : \A x \in {a, b} : m >= x
  OBVIOUS
<1> QED BY <1>1 DEF Max

(* The greatest of three is one of them. *)
LEMMA MaxOfThree ==
    ASSUME NEW a \in Int, NEW b \in Int, NEW c \in Int
    PROVE  Max({a, b, c}) \in Int /\ (Max({a, b, c}) = a \/ Max({a, b, c}) = b \/ Max({a, b, c}) = c)
<1>1. \E m \in {a, b, c} : \A x \in {a, b, c} : m >= x
  OBVIOUS
<1> QED BY <1>1 DEF Max

(* None of them is greater than the greatest. *)
LEMMA MaxOfTwoBounds ==
    ASSUME NEW a \in Int, NEW b \in Int
    PROVE  Max({a, b}) >= a /\ Max({a, b}) >= b
<1>1. \E m \in {a, b} : \A x \in {a, b} : m >= x
  OBVIOUS
<1> QED BY <1>1 DEF Max

(* ... and none of them is greater. *)
LEMMA MaxOfThreeBounds ==
    ASSUME NEW a \in Int, NEW b \in Int, NEW c \in Int
    PROVE  Max({a, b, c}) >= a /\ Max({a, b, c}) >= b /\ Max({a, b, c}) >= c
<1>1. \E m \in {a, b, c} : \A x \in {a, b, c} : m >= x
  OBVIOUS
<1> QED BY <1>1 DEF Max

(* The lesser of two. *)
LEMMA MinOfTwo ==
    ASSUME NEW a \in Int, NEW b \in Int
    PROVE  Min({a, b}) \in Int
<1>1. \E m \in {a, b} : \A x \in {a, b} : m <= x
  OBVIOUS
<1> QED BY <1>1 DEF Min

(* The least of two is one of them, and neither is less. *)
LEMMA MinOfTwoBounds ==
    ASSUME NEW a \in Int, NEW b \in Int
    PROVE  Min({a, b}) \in {a, b} /\ Min({a, b}) <= a /\ Min({a, b}) <= b
<1>1. \E m \in {a, b} : \A x \in {a, b} : m <= x
  OBVIOUS
<1> QED BY <1>1 DEF Min

(* What is compared of two boxes is numbers. *)
LEMMA AreaIs ==
    ASSUME NEW a, NEW b, IsBox(a), IsBox(b)
    PROVE  Area(a) \in Int /\ Area(b) \in Int /\ Inter(a, b) \in Int
<1>1. \A v \in Int : Max({0, v}) \in Int
  BY MaxOfTwo
<1>2. ASSUME NEW c, IsBox(c) PROVE Area(c) \in Int
  <2>1. c[3] - c[1] \in Int /\ c[4] - c[2] \in Int
    BY <1>2 DEF IsBox
  <2>2. Max({0, c[3] - c[1]}) \in Int /\ Max({0, c[4] - c[2]}) \in Int
    BY <1>1, <2>1
  <2> QED BY <2>2 DEF Area
<1>3. Inter(a, b) \in Int
  <2>1. \A k \in 1..4 : a[k] \in Int /\ b[k] \in Int
    BY DEF IsBox
  <2>2. /\ Min({a[3], b[3]}) - Max({a[1], b[1]}) \in Int
        /\ Min({a[4], b[4]}) - Max({a[2], b[2]}) \in Int
    BY <2>1, MaxOfTwo, MinOfTwo
  <2>3. /\ Max({0, Min({a[3], b[3]}) - Max({a[1], b[1]})}) \in Int
        /\ Max({0, Min({a[4], b[4]}) - Max({a[2], b[2]})}) \in Int
    BY <1>1, <2>2
  <2> QED BY <2>3 DEF Inter
<1> QED BY <1>2, <1>3

(* Overlap does not ask which box comes first. *)
LEMMA OverlapIsSymmetric ==
    ASSUME NEW a, NEW b, IsBox(a), IsBox(b)
    PROVE  Overlap(a, b) <=> Overlap(b, a)
<1>1. Inter(a, b) = Inter(b, a)
  <2>1. \A k \in 1..4 : {a[k], b[k]} = {b[k], a[k]}
    OBVIOUS
  <2>2. /\ {a[1], b[1]} = {b[1], a[1]} /\ {a[2], b[2]} = {b[2], a[2]}
        /\ {a[3], b[3]} = {b[3], a[3]} /\ {a[4], b[4]} = {b[4], a[4]}
    BY <2>1
  <2> QED BY <2>2 DEF Inter
<1>2. Area(a) \in Int /\ Area(b) \in Int /\ Inter(a, b) \in Int /\ Inter(b, a) \in Int
  BY AreaIs
<1> QED BY <1>1, <1>2 DEF Overlap

-----------------------------------------------------------------------------
(* Boxes have coordinates.                                                  *)

(* Division, and what is left of it. *)
LEMMA Divided ==
    ASSUME NEW a \in Int, NEW b \in Nat \ {0}
    PROVE  /\ a \div b \in Int /\ a % b \in 0..(b - 1)
           /\ a = b * (a \div b) + (a % b)
OBVIOUS

(* Rounding misses by half of what is divided by at the most. *)
LEMMA NearestIs ==
    ASSUME NEW a \in Int, NEW b \in Nat \ {0}
    PROVE  /\ Nearest(a, b) \in Int
           /\ 2 * (b * Nearest(a, b)) - 2 * a <= b
           /\ 2 * a - 2 * (b * Nearest(a, b)) <= b
<1> DEFINE f == a \div b
           m == a % b
           n == Nearest(a, b)
<1>1. f \in Int /\ m \in 0..(b - 1) /\ a = b * f + m
  BY Divided
<1>2. f % 2 \in 0..1
  BY <1>1
<1>3. /\ 2 * m < b => n = f
      /\ 2 * m > b => n = f + 1
      /\ 2 * m = b => n = f + (f % 2)
  <2>1. 2 * m \in Int /\ b \in Int
    BY <1>1
  <2> DEFINE mm == 2 * m
  <2>2. n = CASE mm < b -> f [] mm > b -> f + 1 [] OTHER -> f + (f % 2)
    BY Zenon DEF Nearest
  <2> HIDE DEF n, mm, f
  <2>3. mm < b => ~(mm > b)
    BY <2>1 DEF mm
  <2>4. mm = b => ~(mm < b) /\ ~(mm > b)
    BY <2>1 DEF mm
  <2>5. mm < b => n = f
    BY <2>2, <2>3
  <2>6. mm > b => n = f + 1
    BY <2>1, <2>2 DEF mm
  <2>7. mm = b => n = f + (f % 2)
    BY <2>2, <2>4
  <2> QED BY <2>5, <2>6, <2>7 DEF mm
<1>4. b * (f + 1) = b * f + b /\ b * f \in Int
  BY <1>1
<1> HIDE DEF f, m, n
<1>5. CASE 2 * m < b
  <2>1. n = f
    BY <1>3, <1>5
  <2> QED BY <1>1, <1>4, <1>5, <2>1 DEF n
<1>6. CASE 2 * m > b
  <2>1. n = f + 1
    BY <1>1, <1>3, <1>6
  <2>2. b * n = b * f + b
    BY <1>4, <2>1
  <2> QED BY <1>1, <1>4, <1>6, <2>1, <2>2 DEF n
<1>7. CASE 2 * m = b
  <2>1. n = f \/ n = f + 1
    BY <1>1, <1>2, <1>3, <1>7
  <2>2. b * n = b * f \/ b * n = b * f + b
    BY <1>4, <2>1
  <2> QED BY <1>1, <1>4, <1>7, <2>1, <2>2 DEF n
<1> QED BY <1>1, <1>5, <1>6, <1>7

(* A picture has a longer side; what is shrunk to the network is a number,  *)
(* and so is what comes back.                                               *)
LEMMA Letterboxed ==
    ASSUME NEW img \in Pictures
    PROVE  /\ Side(img) \in Nat \ {0}
           /\ \A i \in 1..4 : Extent(img, i) \in Nat \ {0} /\ Extent(img, i) <= Side(img)
           /\ \A i \in 1..4 : Shrunk(img, i) \in Int
           /\ Margin(img)[1] \in Int /\ Margin(img)[2] \in Int
           /\ Border(img)[1] \in Int /\ Border(img)[2] \in Int
<1>1. img.w \in Nat \ {0} /\ img.h \in Nat \ {0} /\ img.up \in BOOLEAN
  BY DEF Pictures
<1>2. Side(img) \in Nat \ {0} /\ img.w <= Side(img) /\ img.h <= Side(img)
  <2> DEFINE w == img.w
             h == img.h
             m == Side(img)
  <2>1. w \in Nat \ {0} /\ h \in Nat \ {0}
    BY <1>1
  <2>2. /\ img.up => m = Max({w, h} \union {})
        /\ ~img.up => m = Max({w, h} \union {Net})
    BY DEF Side
  <2> HIDE DEF w, h, m
  <2>3. {w, h} \union {} = {w, h} /\ {w, h} \union {Net} = {w, h, Net}
    OBVIOUS
  <2>4. m \in Nat \ {0} /\ w <= m /\ h <= m
    <3>1. CASE img.up
      <4>1. m = Max({w, h})
        BY <2>2, <2>3, <3>1
      <4>2. Max({w, h}) = w \/ Max({w, h}) = h
        BY <2>1, MaxOfTwo
      <4>3. Max({w, h}) >= w /\ Max({w, h}) >= h
        BY <2>1, MaxOfTwoBounds
      <4> QED BY <2>1, <4>1, <4>2, <4>3
    <3>2. CASE ~img.up
      <4>1. m = Max({w, h, Net})
        BY <2>2, <2>3, <3>2
      <4>2. Max({w, h, Net}) = w \/ Max({w, h, Net}) = h \/ Max({w, h, Net}) = Net
        BY <2>1, MaxOfThree
      <4>3. Max({w, h, Net}) >= w /\ Max({w, h, Net}) >= h
        BY <2>1, MaxOfThreeBounds
      <4> QED BY <2>1, <4>1, <4>2, <4>3
    <3> QED BY <3>1, <3>2
  <2> QED BY <2>4 DEF w, h, m
<1>3. ASSUME NEW i \in 1..4
      PROVE  /\ Extent(img, i) \in Nat \ {0} /\ Extent(img, i) <= Side(img)
             /\ Shrunk(img, i) \in Int
  <2>1. Extent(img, i) \in Nat \ {0} /\ Extent(img, i) <= Side(img)
    BY <1>1, <1>2 DEF Extent
  <2>2. Extent(img, i) * Net \in Int
    BY <2>1
  <2> QED BY <1>2, <2>1, <2>2, NearestIs DEF Shrunk
<1>4. Margin(img)[1] \in Int /\ Margin(img)[2] \in Int
  <2>1. Shrunk(img, 1) \in Int /\ Shrunk(img, 2) \in Int
    BY <1>3
  <2> QED BY <2>1 DEF Margin
<1>5. Border(img)[1] \in Int /\ Border(img)[2] \in Int
  BY <1>4 DEF Border
<1> QED BY <1>2, <1>3, <1>4, <1>5

(* A box as the model sees it, letterboxed, is four integers. *)
LEMMA SeenIsBox ==
    ASSUME NEW img \in Pictures, NEW box \in [1..4 -> Nat]
    PROVE  Seen(img, box) \in Seq(Int) /\ Len(Seen(img, box)) = 4
<1>1. ASSUME NEW i \in 1..4
      PROVE  4 * Nearest(box[i] * Shrunk(img, i), Extent(img, i)) + Border(img)[Axis(i)] \in Int
  <2>1. Extent(img, i) \in Nat \ {0} /\ box[i] * Shrunk(img, i) \in Int
    BY Letterboxed
  <2>2. Nearest(box[i] * Shrunk(img, i), Extent(img, i)) \in Int
    BY <2>1, NearestIs
  <2>3. Border(img)[Axis(i)] \in Int
    BY Letterboxed DEF Axis
  <2> QED BY <2>2, <2>3
<1> QED BY <1>1 DEF Seen

(* Undoing the letterbox leaves a box of integers a box of integers. *)
LEMMA RemapIsBox ==
    ASSUME NEW img \in Pictures, NEW box, IsBox(box)
    PROVE  IsBox(Remap(img, box))
<1> SUFFICES ASSUME NEW i \in 1..4 PROVE Remap(img, box)[i] \in Int
  BY DEF IsBox
<1>1. Extent(img, i) \in Nat
  BY Letterboxed
<1>2. box[i] - Margin(img)[Axis(i)] \in Int /\ Side(img) \in Nat \ {0}
  BY Letterboxed DEF IsBox, Axis
<1> DEFINE p == (box[i] - Margin(img)[Axis(i)]) * Side(img)
<1>3. p \in Int
  BY <1>2
<1> HIDE DEF p
<1>4. p \div Net \in Int
  BY <1>3
<1> QED BY <1>1, <1>4 DEF Remap, Clip, p

(* The columns of a network's output are numbers, the box comes first.      *)
LEMMA RowHasBox ==
    ASSUME NEW hd \in Heads, hd.layout \notin {"cls", "dense"},
           NEW img \in Pictures, NEW o \in Objects, NEW i \in Nat
    PROVE  /\ Row(hd, img, o, i) \in Seq(Int) /\ Len(Row(hd, img, o, i)) >= 4
           /\ hd.layout = "segment" => Len(Row(hd, img, o, i)) >= 4 + hd.extra
<1> DEFINE box == Seen(img, o.box)
<1>1. /\ hd.nc \in Nat /\ hd.extra \in Nat /\ hd.obj \in BOOLEAN
      /\ o.box \in [1..4 -> Nat] /\ o.obj \in Nat /\ o.cls \in Nat /\ o.conf \in Nat
  BY InputsAssumption DEF Objects
<1>2. box \in Seq(Int) /\ Len(box) >= 4
  <2>1. box \in Seq(Int) /\ Len(box) = 4
    BY <1>1, SeenIsBox
  <2> HIDE DEF box
  <2> QED BY <2>1
<1>3. Centred(box) \in Seq(Int) /\ Len(Centred(box)) >= 4
  <2>1. \A k \in 1..4 : box[k] \in Int
    BY <1>2
  <2> HIDE DEF box
  <2> QED BY <2>1 DEF Centred
<1>4. Classes(hd, o) \in Seq(Int) /\ Len(Classes(hd, o)) = hd.nc
  <2>1. o.conf \div 2 \in Int
    BY <1>1
  <2>2. ASSUME NEW c \in 1..hd.nc
        PROVE  (IF c = o.cls THEN o.conf ELSE o.conf \div 2) \in Int
    BY <1>1, <2>1
  <2>3. Classes(hd, o) \in [1..hd.nc -> Int]
    BY <2>2 DEF Classes
  <2> QED BY <1>1, <2>3
<1>5. Extra(hd, i) \in Seq(Int) /\ Len(Extra(hd, i)) = hd.extra
  <2>1. hd.extra \in Nat /\ \A j \in 1..hd.extra : 10 * i + j \in Int
    BY <1>1
  <2> QED BY <2>1 DEF Extra
<1>6. Objectness(hd, o) \in Seq(Int)
  BY <1>1 DEF Objectness
<1>7. Confidence(hd, o) \in Int
  <2>1. \A m, n \in Nat : m * n \in Int
    OBVIOUS
  <2>2. o.obj * o.conf \in Int /\ 10 * o.conf \in Int
    BY <1>1, <2>1
  <2> QED BY <2>2 DEF Confidence
<1> DEFINE tail == <<Confidence(hd, o), o.cls - 1>>
<1>8. tail \in Seq(Int)
  BY <1>1, <1>7
<1> HIDE DEF box, tail
<1>10. CASE hd.layout \in {"bnc6", "embedded"}
  <2>1. Row(hd, img, o, i) = box \o tail
    BY <1>10 DEF Row, box, tail
  <2>2. box \o tail \in Seq(Int) /\ Len(box \o tail) >= 4
    BY <1>2, <1>8
  <2> QED BY <1>10, <2>1, <2>2
<1>11. CASE hd.layout = "pair"
  <2>1. Row(hd, img, o, i) = box \o Classes(hd, o)
    BY <1>11 DEF Row, box
  <2>2. box \o Classes(hd, o) \in Seq(Int) /\ Len(box \o Classes(hd, o)) >= 4
    BY <1>2, <1>4
  <2> QED BY <1>11, <2>1, <2>2
<1>12. CASE hd.layout = "obb"
  <2> DEFINE d == Centred(box) \o Extra(hd, i)
             e == d \o Classes(hd, o)
  <2>1. Row(hd, img, o, i) = e
    BY <1>12 DEF Row, box
  <2>2. d \in Seq(Int) /\ Len(d) >= 4
    BY <1>3, <1>5
  <2> HIDE DEF d
  <2>3. e \in Seq(Int) /\ Len(e) >= 4
    BY <1>4, <2>2
  <2> HIDE DEF e
  <2> QED BY <1>12, <2>1, <2>3
<1>13. CASE hd.layout \notin {"bnc6", "embedded", "pair", "obb"}
  <2> DEFINE d == Centred(box) \o Objectness(hd, o)
             e == d \o Classes(hd, o)
             f == e \o Extra(hd, i)
  <2>1. Row(hd, img, o, i) = f
    BY <1>13 DEF Row, box
  <2>2. d \in Seq(Int) /\ Len(d) >= 4
    BY <1>3, <1>6
  <2> HIDE DEF d
  <2>3. e \in Seq(Int) /\ Len(e) >= 4
    BY <1>4, <2>2
  <2> HIDE DEF e
  <2>4. f \in Seq(Int) /\ Len(f) >= 4 + hd.extra
    BY <1>5, <2>3
  <2> HIDE DEF f
  <2> QED BY <1>1, <2>1, <2>4
<1> QED BY <1>10, <1>11, <1>12, <1>13

(* Whatever the head, the contract has a class count, and it selects a      *)
(* decoder of boxes only for heads that have boxes.                         *)
LEMMA ContractFits ==
    ASSUME NEW hd \in Heads
    PROVE  LET ct == DetectForTask(hd) IN
           /\ ct.nc \in Nat
           /\ ct.layout \in Boxed \union Tasked => hd.layout \notin {"cls", "dense"}
           /\ ct.layout = "segment" => hd.layout = "segment" /\ hd.extra >= NumMasks
<1>1. /\ hd.task \in HeadTasks /\ hd.layout \in HeadLayouts /\ hd.nc \in Nat /\ hd.hint \in Nat
      /\ hd.extra \in Nat /\ hd.obj \in BOOLEAN
      /\ hd.layout = "cls" <=> hd.task = "cls"
      /\ hd.layout = "dense" <=> hd.task \in {"depth", "sem"}
      /\ hd.layout = "segment" <=> hd.task = "segment"
      /\ hd.task = "segment" => hd.extra >= NumMasks
  BY InputsAssumption
<1>2. \A n \in Nat, nc \in Nat : FillNumClasses(n, nc) \in Nat
  <2>1. ASSUME NEW n \in Nat PROVE Max({0, n - 4}) \in Nat
    <3>1. \E m \in {0, n - 4} : \A x \in {0, n - 4} : m >= x
      OBVIOUS
    <3> QED BY <3>1 DEF Max
  <2> QED BY <2>1 DEF FillNumClasses
<1>3. Shape(hd)[1] \in Nat /\ Shape(hd)[2] \in Nat
  BY <1>1 DEF Shape, Columns
<1> DEFINE Kinds == {"bnc6", "bnc", "bcn", "pair", "unknown"}
           Announced(r) == \E l \in Kinds, n \in Nat : \E b : r = Contract(l, n, b)
<1>4. ASSUME NEW shape, shape[1] \in Nat, shape[2] \in Nat, NEW nc \in Nat
      PROVE  Announced(DetectShape(shape, nc))
  <2>1. FillNumClasses(shape[1], nc) \in Nat /\ FillNumClasses(shape[2], nc) \in Nat
    BY <1>2, <1>4
  <2>2. CASE shape[2] = 6
    BY <2>2 DEF DetectShape
  <2>3. CASE shape[2] # 6 /\ MatchesChannels(shape[2], nc)
    <3> DEFINE b == shape[2] = 5 + nc
    <3>1. DetectShape(shape, nc) = Contract("bnc", FillNumClasses(shape[2], nc), b)
      BY <2>3 DEF DetectShape
    <3> HIDE DEF b
    <3> QED BY <2>1, <3>1, Zenon
  <2>4. CASE shape[2] # 6 /\ ~MatchesChannels(shape[2], nc) /\ MatchesChannels(shape[1], nc)
    <3> DEFINE b == shape[1] = 5 + nc
    <3>1. DetectShape(shape, nc) = Contract("bcn", FillNumClasses(shape[1], nc), b)
      BY <2>4 DEF DetectShape
    <3> HIDE DEF b
    <3> QED BY <2>1, <3>1, Zenon
  <2>5. CASE shape[2] # 6 /\ ~MatchesChannels(shape[2], nc) /\ ~MatchesChannels(shape[1], nc)
    BY <2>5 DEF DetectShape
  <2> QED BY <2>2, <2>3, <2>4, <2>5
<1>5. Announced(Detect(hd))
  <2>1. CASE hd.layout \in {"embedded", "pair"}
    BY <1>1, <2>1 DEF Detect
  <2>2. CASE hd.layout \notin {"embedded", "pair"}
    <3>1. Detect(hd) = DetectShape(Shape(hd), hd.hint)
      BY <2>2 DEF Detect
    <3> QED BY <1>1, <1>3, <1>4, <3>1
  <2> QED BY <2>1, <2>2
<1>6. DOMAIN TaskLayout = {"segment", "pose", "obb", "cls", "depth", "sem"}
  BY DEF TaskLayout
<1>7. CASE hd.task \in DOMAIN TaskLayout
  <2>1. DetectForTask(hd).nc \in Nat /\ DetectForTask(hd).layout = TaskLayout[hd.task]
    BY <1>5, <1>7 DEF DetectForTask, Contract
  <2>2. /\ TaskLayout["segment"] = "segment" /\ TaskLayout["pose"] = "pose"
        /\ TaskLayout["obb"] = "obb" /\ TaskLayout["cls"] = "cls"
        /\ TaskLayout["depth"] = "dense" /\ TaskLayout["sem"] = "dense"
    BY DEF TaskLayout
  <2> QED BY <1>1, <1>6, <1>7, <2>1, <2>2 DEF Boxed, Tasked
<1>8. CASE hd.task \notin DOMAIN TaskLayout
  BY <1>1, <1>5, <1>6, <1>8 DEF DetectForTask, Contract, HeadTasks, Tasked
<1> QED BY <1>7, <1>8

(* Whatever the decoder makes of a row, its box has four coordinates.       *)
LEMMA Decoded ==
    ASSUME NEW row \in Seq(Int), Len(row) >= 4, NEW ct, ct.nc \in Nat,
           ct.layout \in Boxed \union Tasked,
           ct.layout = "segment" => Len(row) >= 4 + NumMasks
    PROVE  \E b, score, cls, extra : DecodeRow(row, ct) = Found(b, score, cls, extra) /\ IsBox(b)
<1>1. IsBox(row)
  BY DEF IsBox
<1>2. ASSUME NEW r, IsBox(r), NEW nc, NEW has, NEW extra
      PROVE  \E b, score, cls : FromColumns(r, nc, has, extra) = Found(b, score, cls, extra) /\ IsBox(b)
  <2>1. IsBox(ToXyxy(r))
    <3>1. r[1] \in Int /\ r[2] \in Int /\ r[3] \in Int /\ r[4] \in Int
      BY <1>2 DEF IsBox
    <3>2. r[3] \div 2 \in Int /\ r[4] \div 2 \in Int
      BY <3>1
    <3>3. /\ r[1] - r[3] \div 2 \in Int /\ r[2] - r[4] \div 2 \in Int
          /\ r[1] + r[3] \div 2 \in Int /\ r[2] + r[4] \div 2 \in Int
      <4>1. \A v \in Int, w \in Int : v - w \in Int /\ v + w \in Int
        OBVIOUS
      <4> QED BY <3>1, <3>2, <4>1, Zenon
    <3>4. \A a, b, c, d : a \in Int /\ b \in Int /\ c \in Int /\ d \in Int => IsBox(<<a, b, c, d>>)
      BY DEF IsBox
    <3> QED BY <3>3, <3>4 DEF ToXyxy
  <2> DEFINE full == IF nc > 0 THEN Len(r) = 5 + nc ELSE has
             first == IF full THEN 6 ELSE 5
             classes == SubSeq(r, first, IF nc > 0 THEN Min({Len(r), first + nc - 1}) ELSE Len(r))
             best == ArgMax(classes)
             score == (IF full THEN r[5] ELSE 10) * classes[best]
             cls == best - 1
  <2>2. FromColumns(r, nc, has, extra) = Found(ToXyxy(r), score, cls, extra)
    BY Zenon DEF FromColumns
  <2> HIDE DEF score, cls
  <2> QED BY <2>1, <2>2
<1>3. ASSUME NEW n \in Nat, n >= 4 PROVE IsBox(SubSeq(row, 1, n))
  <2> DEFINE S == {row[i] : i \in 1..n}
  <2>1. \A i \in 1..n : row[i] \in S
    OBVIOUS
  <2> HIDE DEF S
  <2>2. \A k \in 1..(n - 1 + 1) : SubSeq(row, 1, n)[k] = row[1 + k - 1]
    BY <1>3, <2>1, SubSeqProperties
  <2> QED BY <1>1, <1>3, <2>2 DEF IsBox
<1>4. CASE ct.layout \in {"bnc", "bcn"}
  <2>1. DecodeRow(row, ct) = FromColumns(row, ct.nc, ct.obj, <<>>)
    BY <1>4 DEF DecodeRow
  <2> QED BY <1>1, <1>2, <2>1
<1>5. CASE ct.layout = "bnc6"
  <2>1. DecodeRow(row, ct) = Found(SubSeq(row, 1, 4), row[5], row[6], <<>>)
    BY <1>5 DEF DecodeRow, End2EndRow
  <2> QED BY <1>3, <2>1
<1>6. CASE ct.layout = "pair"
  <2>1. DecodeRow(row, ct) = PairRow(row)
    BY <1>6 DEF DecodeRow
  <2>2. \E score, cls : PairRow(row) = Found(SubSeq(row, 1, 4), score, cls, <<>>)
    BY Zenon DEF PairRow
  <2> QED BY <1>3, <2>1, <2>2
<1>7. CASE ct.layout = "segment"
  <2>1. DecodeRow(row, ct) = SegmentRow(row, ct)
    BY <1>7 DEF DecodeRow
  <2> DEFINE given == IF ct.nc > 0 THEN ct.nc + 4 ELSE Len(row) - NumMasks
             box == IF given < 5 \/ Len(row) >= given + NumMasks THEN Len(row) - NumMasks ELSE given
             part == Split(row, box)
  <2>2. given \in Int
    OBVIOUS
  <2>3. box \in Nat /\ box >= 4
    <3> HIDE DEF given
    <3> QED BY <1>7, <2>2
  <2>4. SegmentRow(row, ct) = FromColumns(part[1], ct.nc, ct.obj, part[2])
    BY Zenon DEF SegmentRow
  <2>5. part[1] = SubSeq(row, 1, box)
    BY DEF Split
  <2> HIDE DEF box, part
  <2> QED BY <1>2, <1>3, <2>1, <2>3, <2>4, <2>5
<1>8. CASE ct.layout = "pose"
  <2>1. DecodeRow(row, ct) = PoseRow(row, ct)
    BY <1>8 DEF DecodeRow
  <2> DEFINE box == IF (Len(row) - (ct.nc + 4)) % 3 = 0 THEN ct.nc + 4 ELSE ct.nc + 4 + 1
             has == box > ct.nc + 4
             part == Split(row, box)
  <2>2. box \in Nat /\ box >= 4
    <3>1. box = ct.nc + 4 \/ box = ct.nc + 4 + 1
      BY Zenon
    <3> HIDE DEF box
    <3> QED BY <3>1
  <2>3. PoseRow(row, ct) = FromColumns(part[1], ct.nc, has, part[2])
    BY Zenon DEF PoseRow
  <2>4. part[1] = SubSeq(row, 1, box)
    BY DEF Split
  <2> HIDE DEF box, has, part
  <2> QED BY <1>2, <1>3, <2>1, <2>2, <2>3, <2>4
<1>9. CASE ct.layout = "obb"
  <2> DEFINE plain == SubSeq(row, 1, 4) \o SubSeq(row, 6, Len(row))
             nc == IF Len(row) = 5 + ct.nc THEN ct.nc ELSE Len(row) - 5
  <2>1. DecodeRow(row, ct) = FromColumns(plain, nc, ct.obj, <<row[5]>>)
    BY <1>9 DEF DecodeRow, ObbRow
  <2>2. IsBox(plain)
    <3>1. SubSeq(row, 1, 4) \in Seq(Int) /\ Len(SubSeq(row, 1, 4)) = 4
      OBVIOUS
    <3>2. SubSeq(row, 6, Len(row)) \in Seq(Int)
      OBVIOUS
    <3>3. plain \in Seq(Int) /\ Len(plain) >= 4
      <4> DEFINE a == SubSeq(row, 1, 4)
                 c == SubSeq(row, 6, Len(row))
      <4>1. a \in Seq(Int) /\ Len(a) >= 4 /\ c \in Seq(Int)
        BY <3>1, <3>2
      <4> HIDE DEF a, c
      <4>2. a \o c \in Seq(Int) /\ Len(a \o c) >= 4
        BY <4>1
      <4> QED BY <4>2 DEF a, c
    <3> QED BY <3>3 DEF IsBox
  <2> HIDE DEF plain, nc
  <2> QED BY <1>2, <2>1, <2>2
<1> QED BY <1>4, <1>5, <1>6, <1>7, <1>8, <1>9 DEF Boxed, Tasked

-----------------------------------------------------------------------------
(* The inductive invariant.  NmsSound alone is not inductive: that a box     *)
(* kept later does not overlap one kept before needs Overlap to be           *)
(* symmetric, and so the boxes of the candidates to have coordinates, which  *)
(* comes from the head, the contract and the decoder it selects.             *)

FromInputs == head \in Heads /\ image \in Images /\ scene \in Scenes
AsDetected == phase # "convert" => contract = DetectForTask(head)
NothingYet == phase \in {"convert", "deploy", "ready"} => cand = <<>> /\ rest = {} /\ kept = <<>>
RowsOfCand == kept \in Seq(DOMAIN cand) /\ rest \subseteq DOMAIN cand
BoxesOfCand == \A i \in DOMAIN cand : IsBox(cand[i].box)
KeptOnce == /\ Range(kept) \intersect rest = {}
            /\ \A a, b \in DOMAIN kept : kept[a] = kept[b] => a = b
NmsInv ==
    /\ FromInputs /\ AsDetected /\ NothingYet
    /\ RowsOfCand /\ BoxesOfCand /\ KeptOnce /\ NmsSound

(* Before NMS starts nothing is kept and nothing dropped. *)
LEMMA NothingSettled ==
    ASSUME kept = <<>>, rest = DOMAIN cand
    PROVE  NmsSound /\ KeptOnce
<1>1. Range(kept) = {}
  BY DEF Range
<1>2. NmsSound
  BY <1>1 DEF NmsSound, Suppressed
<1> QED BY <1>1, <1>2 DEF KeptOnce

(* Before the first picture nothing is found, kept or left to judge. *)
LEMMA InitNms == Init => NmsInv
<1> SUFFICES ASSUME Init PROVE NmsInv
  OBVIOUS
<1>1. kept = <<>> /\ cand = <<>> /\ rest = {}
  BY DEF Init
<1>2. DOMAIN cand = {}
  BY <1>1
<1>3. NmsSound /\ KeptOnce
  BY <1>1, <1>2, NothingSettled
<1>4. RowsOfCand /\ BoxesOfCand
  BY <1>1, <1>2 DEF RowsOfCand, BoxesOfCand
<1> QED BY <1>1, <1>3, <1>4 DEF Init, NmsInv, FromInputs, AsDetected, NothingYet

(* A row of a head with boxes becomes a candidate with a box. *)
LEMMA CandidateHasBox ==
    ASSUME NmsInv, phase = "ready", contract.layout \in Boxed \union Tasked, NEW i \in DOMAIN scene
    PROVE  IsBox(Candidate(DecodeRow(Rows(head, image, scene)[i], contract)).box)
<1> DEFINE row == Rows(head, image, scene)[i]
<1>1. /\ head \in Heads /\ image \in Pictures /\ scene \in Seq(Objects)
      /\ contract = DetectForTask(head)
  BY InputsAssumption DEF NmsInv, FromInputs, AsDetected, Pictures, Objects
<1>2. scene[i] \in Objects /\ i \in Nat
  BY <1>1
<1>3. /\ contract.nc \in Nat /\ head.layout \notin {"cls", "dense"}
      /\ contract.layout = "segment" => head.layout = "segment" /\ head.extra >= NumMasks
  BY <1>1, ContractFits
<1>4. row = Row(head, image, scene[i], i)
  BY DEF Rows
<1>5. row \in Seq(Int) /\ Len(row) >= 4 /\ (head.layout = "segment" => Len(row) >= 4 + head.extra)
  BY <1>1, <1>2, <1>3, <1>4, RowHasBox
<1>6. contract.layout = "segment" => Len(row) >= 4 + NumMasks
  <2>1. head.extra \in Nat
    BY <1>1, InputsAssumption
  <2> HIDE DEF row
  <2> QED BY <1>3, <1>5, <2>1
<1> HIDE DEF row
<1>7. PICK b, score, cls, extra : DecodeRow(row, contract) = Found(b, score, cls, extra) /\ IsBox(b)
  BY <1>3, <1>5, <1>6, Decoded
<1>8. CASE contract.layout \in Boxed
  <2>1. Candidate(Found(b, score, cls, extra)).box = Remap(image, b)
    BY <1>8 DEF Candidate, Found
  <2> QED BY <1>1, <1>7, <2>1, RemapIsBox DEF row
<1>9. CASE contract.layout \notin Boxed
  <2>1. Candidate(Found(b, score, cls, extra)).box = b
    BY <1>9 DEF Candidate, Found
  <2> QED BY <1>7, <2>1 DEF row
<1> QED BY <1>8, <1>9

(* predict_boxes starts a picture: every row decoded is a candidate, none kept. *)
LEMMA PredictStep ==
    ASSUME NmsInv, PredictBoxes
    PROVE  NmsInv'
<1> DEFINE rows == Rows(head, image, scene)
           found == Decode(rows, contract)
<1>1. /\ phase = "ready" /\ contract.layout \in Boxed \union Tasked
      /\ cand' = [i \in DOMAIN found |-> Candidate(found[i])] /\ rest' = DOMAIN found
      /\ phase' \in {"predicted", "nms"} /\ kept' = kept
      /\ contract' = contract /\ head' = head /\ image' = image /\ scene' = scene
  BY DEF PredictBoxes, inputs
<1>2. DOMAIN found \subseteq DOMAIN scene
      /\ \A i \in DOMAIN found : found[i] = DecodeRow(rows[i], contract)
  BY DEF Decode, Rows, Restrict
<1>3. kept' = <<>> /\ DOMAIN cand' = rest'
  BY <1>1 DEF NmsInv, NothingYet
<1>4. BoxesOfCand'
  <2> SUFFICES ASSUME NEW i \in DOMAIN found PROVE IsBox(Candidate(found[i]).box)
    BY <1>1 DEF BoxesOfCand, IsBox
  <2> QED BY <1>1, <1>2, CandidateHasBox
<1>5. NmsSound' /\ KeptOnce'
  <2>1. Range(kept') = {}
    BY <1>3 DEF Range
  <2>2. NmsSound'
    BY <1>3, <2>1 DEF NmsSound, Suppressed
  <2> QED BY <1>3, <2>1, <2>2 DEF KeptOnce
<1> QED BY <1>1, <1>3, <1>4, <1>5 DEF NmsInv, FromInputs, AsDetected, NothingYet, RowsOfCand

(* One round keeps a row, and settles the rows of its class it covers. *)
LEMMA SuppressStep ==
    ASSUME NmsInv, Suppress
    PROVE  NmsInv'
<1> DEFINE class == Min({cand[i].cls : i \in rest})
           same == {i \in rest : cand[i].cls = class}
<1>1. PICK best \in same :
          /\ \A i \in same : cand[i].score <= cand[best].score
          /\ kept' = Append(kept, best)
          /\ rest' = rest \ {i \in same : i = best \/ Overlap(cand[best].box, cand[i].box)}
  BY Zenon DEF Suppress
<1>2. /\ phase = "nms" /\ phase' = phase /\ contract' = contract /\ cand' = cand
      /\ head' = head /\ image' = image /\ scene' = scene
  BY DEF Suppress, inputs
<1>3. kept \in Seq(DOMAIN cand) /\ rest \subseteq DOMAIN cand /\ best \in rest
  BY <1>1 DEF NmsInv, RowsOfCand
<1>4. \A i \in rest : i \in same <=> cand[i].cls = cand[best].cls
  BY <1>1
<1> HIDE DEF class, same
<1>5. Range(kept') = Range(kept) \union {best} /\ KeptOnce'
  <2>1. \A i \in 1..Len(kept) : kept'[i] = kept[i]
    BY <1>1, <1>3
  <2>2. kept'[Len(kept) + 1] = best /\ Len(kept') = Len(kept) + 1 /\ Len(kept) \in Nat
    BY <1>1, <1>3
  <2>3. DOMAIN kept = 1..Len(kept) /\ DOMAIN kept' = 1..(Len(kept) + 1)
    BY <1>1, <1>3
  <2>4. Range(kept') = Range(kept) \union {best}
    BY <2>1, <2>2, <2>3 DEF Range
  <2>5. best \notin Range(kept) /\ best \notin rest' /\ rest' \subseteq rest
    BY <1>1, <1>3 DEF NmsInv, KeptOnce
  <2>6. \A a, b \in DOMAIN kept' : kept'[a] = kept'[b] => a = b
    BY <2>1, <2>2, <2>3, <2>5 DEF Range, NmsInv, KeptOnce
  <2>7. Range(kept') \intersect rest' = {}
    BY <2>4, <2>5 DEF NmsInv, KeptOnce
  <2> QED BY <2>4, <2>6, <2>7 DEF KeptOnce
<1>6. \A i, j \in DOMAIN cand : Overlap(cand[i].box, cand[j].box) <=> Overlap(cand[j].box, cand[i].box)
  BY OverlapIsSymmetric DEF NmsInv, BoxesOfCand
<1> DEFINE Apart(i, j) == ~Overlap(cand[i].box, cand[j].box)
<1>7. ASSUME NEW i \in Range(kept') \union rest', NEW j \in Range(kept') \union rest',
             i # j, {i, j} \cap Range(kept') # {}, cand[i].cls = cand[j].cls
      PROVE  Apart(i, j)
  <2>1. i \in Range(kept) \union rest /\ j \in Range(kept) \union rest
    BY <1>1, <1>3, <1>5
  <2>2. CASE {i, j} \cap Range(kept) # {}
    BY <1>7, <2>1, <2>2 DEF NmsInv, NmsSound
  <2>3. CASE i \notin Range(kept) /\ j \notin Range(kept) /\ i = best
    BY <1>1, <1>4, <1>5, <1>7, <2>1, <2>3
  <2>4. CASE i \notin Range(kept) /\ j \notin Range(kept) /\ j = best
    <3>1. Apart(j, i)
      BY <1>1, <1>4, <1>5, <1>7, <2>1, <2>4
    <3> QED BY <1>3, <1>6, <2>1, <2>4, <3>1
  <2> QED BY <1>5, <1>7, <2>2, <2>3, <2>4
<1>8. ASSUME NEW i \in DOMAIN cand, i \notin Range(kept') \union rest'
      PROVE  \E k \in Range(kept') : /\ cand[k].cls = cand[i].cls
                                     /\ cand[k].score >= cand[i].score
                                     /\ Overlap(cand[k].box, cand[i].box)
  <2>1. CASE i \in Suppressed
    BY <1>5, <2>1 DEF NmsInv, NmsSound
  <2>2. CASE i \notin Suppressed
    <3>1. i \in rest /\ i \in same /\ i # best /\ Overlap(cand[best].box, cand[i].box)
      BY <1>1, <1>5, <1>8, <2>2 DEF Suppressed
    <3>2. cand[i].cls = cand[best].cls /\ cand[i].score <= cand[best].score
      BY <1>1, <1>4, <3>1
    <3> QED BY <1>5, <3>1, <3>2
  <2> QED BY <2>1, <2>2
<1>9. NmsSound'
  BY <1>2, <1>7, <1>8 DEF NmsSound, Suppressed
<1>10. RowsOfCand'
  BY <1>1, <1>2, <1>3 DEF RowsOfCand
<1> QED BY <1>2, <1>5, <1>9, <1>10 DEF NmsInv, FromInputs, AsDetected, NothingYet, BoxesOfCand

(* The other steps leave the rows alone, and only Convert the contract. *)
LEMMA SettledStays ==
    ASSUME NmsInv, UNCHANGED <<inputs, cand, rest, kept>>, AsDetected',
           phase' \in {"convert", "deploy", "ready"} => phase \in {"convert", "deploy", "ready"}
    PROVE  NmsInv'
<1>1. FromInputs' /\ RowsOfCand' /\ BoxesOfCand' /\ NothingYet'
  BY DEF NmsInv, FromInputs, RowsOfCand, BoxesOfCand, NothingYet, inputs
<1>2. NmsSound' /\ KeptOnce'
  BY DEF NmsInv, NmsSound, Suppressed, KeptOnce
<1> QED BY <1>1, <1>2 DEF NmsInv

(* Every step of the runtime keeps the inductive invariant. *)
LEMMA NextNms == NmsInv /\ [Next]_vars => NmsInv'
<1> SUFFICES ASSUME NmsInv, [Next]_vars PROVE NmsInv'
  OBVIOUS
<1>1. CASE Convert
  BY <1>1, SettledStays DEF Convert, AsDetected, inputs
<1>2. CASE Deploy
  BY <1>2, SettledStays DEF Deploy, AsDetected, inputs, NmsInv
<1>3. CASE PredictBoxes
  BY <1>3, PredictStep
<1>4. CASE PredictMap
  BY <1>4, SettledStays DEF PredictMap, AsDetected, inputs, NmsInv
<1>5. CASE Suppress
  BY <1>5, SuppressStep
<1>6. CASE Finish
  BY <1>6, SettledStays DEF Finish, AsDetected, inputs, NmsInv
<1>7. CASE FormatObjects
  BY <1>7, SettledStays DEF FormatObjects, AsDetected, inputs, NmsInv
<1>8. CASE FormatClasses
  BY <1>8, SettledStays DEF FormatClasses, AsDetected, inputs, NmsInv
<1>9. CASE FormatMap
  BY <1>9, SettledStays DEF FormatMap, AsDetected, inputs, NmsInv
<1>10. CASE UNCHANGED vars
  BY <1>10, SettledStays DEF vars, AsDetected, inputs, NmsInv
<1> QED BY <1>1, <1>2, <1>3, <1>4, <1>5, <1>6, <1>7, <1>8, <1>9, <1>10 DEF Next

(* Throughout NMS no two kept boxes of a class overlap, none still to be     *)
(* settled overlaps one kept before it, and every box that was dropped       *)
(* overlaps a kept one of its class whose score is no lower.                 *)
THEOREM NmsIsSound == Spec => []NmsSound
<1>1. NmsInv => NmsSound
  BY DEF NmsInv
<1> QED BY <1>1, InitNms, NextNms, PTL DEF Spec

(* No row is kept twice, and none that is kept is looked at again: what is   *)
(* answered holds each of them once.                                         *)
THEOREM RowsAreKeptOnce == Spec => []KeptOnce
<1>1. NmsInv => KeptOnce
  BY DEF NmsInv
<1> QED BY <1>1, InitNms, NextNms, PTL DEF Spec

(* The lemmas on orders and on reading a row hold of any numbers: the bounds *)
(* on the constants are no help to the provers there.                        *)
HIDE DetectionAssumption

-----------------------------------------------------------------------------
(* What sorting returns. *)

(* earlier is a strict total order of S. *)
Orders(earlier, S) ==
    /\ \A x \in S : <<x, x>> \notin earlier
    /\ \A x, y \in S : x = y \/ <<x, y>> \in earlier \/ <<y, x>> \in earlier
    /\ \A x, y, z \in S : <<x, y>> \in earlier /\ <<y, z>> \in earlier => <<x, z>> \in earlier

(* A finite set can be ranked: an element stands behind those before it. *)
LEMMA RankingExists ==
    ASSUME NEW S, IsFiniteSet(S), NEW E, Orders(E, S)
    PROVE  \E order \in [1..Cardinality(S) -> S] :
              \A j, k \in DOMAIN order : j < k => <<order[j], order[k]>> \in E
<1> DEFINE n == Cardinality(S)
           Below(x) == {y \in S : <<y, x>> \in E}
           place == [x \in S |-> Cardinality(Below(x)) + 1]
<1>1. n \in Nat /\ IsFiniteSet(1..n) /\ Cardinality(1..n) = n
  BY FS_CardinalityType, FS_Interval
<1>2. ASSUME NEW x \in S
      PROVE  IsFiniteSet(Below(x)) /\ Cardinality(Below(x)) \in 0..(n - 1)
  <2>1. IsFiniteSet(S \ {x}) /\ Cardinality(S \ {x}) = n - 1
    BY FS_RemoveElement
  <2>2. Below(x) \in SUBSET (S \ {x})
    BY DEF Orders
  <2>3. IsFiniteSet(Below(x)) /\ Cardinality(Below(x)) <= n - 1
    BY <2>1, <2>2, FS_Subset
  <2> QED BY <2>3, <1>1, FS_CardinalityType
<1> HIDE DEF n, Below
<1>3. place \in [S -> 1..n]
  BY <1>1, <1>2
<1>4. ASSUME NEW x \in S, NEW y \in S, <<x, y>> \in E PROVE place[x] < place[y]
  <2>1. Below(x) \in SUBSET Below(y) /\ x \in Below(y) /\ x \notin Below(x)
    BY <1>4 DEF Orders, Below
  <2>2. Cardinality(Below(x)) <= Cardinality(Below(y)) /\ Cardinality(Below(x)) # Cardinality(Below(y))
    BY <1>2, <2>1, FS_Subset
  <2>3. place[x] = Cardinality(Below(x)) + 1 /\ place[y] = Cardinality(Below(y)) + 1
    OBVIOUS
  <2>4. Cardinality(Below(x)) \in Int /\ Cardinality(Below(y)) \in Int
    BY <1>1, <1>2
  <2> HIDE DEF place
  <2> QED BY <2>2, <2>3, <2>4
<1> HIDE DEF place
<1>5. ASSUME NEW x \in S, NEW y \in S, place[x] = place[y] PROVE x = y
  <2>1. place[x] \in Int
    BY <1>1, <1>3
  <2>2. x = y \/ <<x, y>> \in E \/ <<y, x>> \in E
    BY DEF Orders
  <2> QED BY <1>4, <1>5, <2>1, <2>2
<1>6. place \in Injection(S, 1..n)
  BY <1>3, <1>5, Fun_IsInj
<1>7. place \in Surjection(S, 1..n)
  BY <1>1, <1>6, FS_Injection DEF n
<1>8. \A k \in 1..n : \E x \in S : place[x] = k
  BY <1>7 DEF Surjection
<1> DEFINE order == [k \in 1..n |-> CHOOSE x \in S : place[x] = k]
<1>9. order \in [1..n -> S] /\ \A k \in 1..n : place[order[k]] = k
  <2>1. ASSUME NEW k \in 1..n PROVE order[k] \in S /\ place[order[k]] = k
    BY <1>8
  <2> QED BY <2>1
<1>10. ASSUME NEW j \in 1..n, NEW k \in 1..n, j < k PROVE <<order[j], order[k]>> \in E
  <2> HIDE DEF order
  <2>1. order[j] \in S /\ order[k] \in S /\ place[order[j]] = j /\ place[order[k]] = k
    BY <1>9
  <2>2. <<order[k], order[j]>> \notin E
    BY <2>1, <1>4, <1>10
  <2>3. order[j] # order[k]
    BY <2>1, <1>10
  <2> QED BY <2>1, <2>2, <2>3 DEF Orders
<1> HIDE DEF order
<1> QED BY <1>9, <1>10 DEF n

(* order lists every element of S once, as earlier has it. *)
Ranking(order, S, earlier) ==
    /\ Cardinality(S) \in Nat
    /\ order \in [1..Cardinality(S) -> S]
    /\ Len(order) = Cardinality(S)
    /\ \A j, k \in 1..Cardinality(S) : j < k <=> <<order[j], order[k]>> \in earlier
    /\ \A j, k \in 1..Cardinality(S) : order[j] = order[k] => j = k
    /\ \A x \in S : \E k \in 1..Cardinality(S) : order[k] = x

(* What np.argsort returns ranks the set, each element once. *)
LEMMA RankedIs ==
    ASSUME NEW S, IsFiniteSet(S), NEW E, Orders(E, S)
    PROVE  Ranking(Ranked(S, E), S, E)
<1>0. PICK order : order = Ranked(S, E)
  OBVIOUS
<1> DEFINE n == Cardinality(S)
<1>1. n \in Nat /\ IsFiniteSet(1..n) /\ Cardinality(1..n) = n
  BY FS_CardinalityType, FS_Interval
<1>2. order \in [1..n -> S] /\ \A j, k \in DOMAIN order : j < k => <<order[j], order[k]>> \in E
  BY <1>0, RankingExists DEF Ranked
<1>3. \A j, k \in 1..n : order[j] = order[k] => j = k
  <2> SUFFICES ASSUME NEW j \in 1..n, NEW k \in 1..n, order[j] = order[k], j < k PROVE FALSE
    BY <1>1
  <2>1. <<order[j], order[k]>> \in E /\ order[j] \in S
    BY <1>2
  <2> QED BY <2>1 DEF Orders
<1>4. \A j, k \in 1..n : j < k <=> <<order[j], order[k]>> \in E
  <2> SUFFICES ASSUME NEW j \in 1..n, NEW k \in 1..n, <<order[j], order[k]>> \in E, k <= j PROVE FALSE
    BY <1>1, <1>2
  <2>1. order[j] \in S /\ order[k] \in S
    BY <1>2
  <2>2. j # k
    BY <2>1 DEF Orders
  <2>3. <<order[k], order[j]>> \in E
    BY <1>1, <1>2, <2>2
  <2> QED BY <2>1, <2>3 DEF Orders
<1>5. order \in Surjection(1..n, S)
  BY <1>1, <1>2, <1>3, Fun_IsInj, FS_Injection
<1>6. \A x \in S : \E k \in 1..n : order[k] = x
  <2> HIDE DEF n
  <2> QED BY <1>5 DEF Surjection
<1>7. order \in Seq(S) /\ Len(order) = n
  BY <1>1, <1>2
<1>8. Ranking(order, S, E)
  BY <1>1, <1>2, <1>3, <1>4, <1>6, <1>7 DEF Ranking
<1> QED BY <1>0, <1>8

-----------------------------------------------------------------------------
(* What the decoders read.  A head says what it is: the contract detected    *)
(* for it counts its classes, and its columns are those the decoder expects. *)

ExtraOf(hd, i) == IF hd.task = "detection" THEN <<>> ELSE Extra(hd, i)

(* The class with the best score is the one of the object. *)
LEMMA BestClass ==
    ASSUME NEW hd, hd.nc \in Nat, NEW o \in Objects, o.cls \in 1..hd.nc, o.conf > 0
    PROVE  /\ Classes(hd, o) \in Seq(Int) /\ Len(Classes(hd, o)) = hd.nc
           /\ ArgMax(Classes(hd, o)) = o.cls /\ Classes(hd, o)[o.cls] = o.conf
<1> DEFINE s == Classes(hd, o)
<1>1. o.conf \in Nat /\ o.conf \div 2 \in Int /\ o.conf \div 2 < o.conf
  BY DEF Objects
<1>2. ASSUME NEW c \in 1..hd.nc
      PROVE  s[c] \in Int /\ s[c] = IF c = o.cls THEN o.conf ELSE o.conf \div 2
  BY <1>1 DEF Classes
<1>3. s \in [1..hd.nc -> Int]
  <2>1. \A c \in 1..hd.nc : (IF c = o.cls THEN o.conf ELSE o.conf \div 2) \in Int
    BY <1>1
  <2> QED BY <2>1 DEF Classes
<1>4. s \in Seq(Int) /\ Len(s) = hd.nc /\ DOMAIN s = 1..hd.nc
  BY <1>3
<1> HIDE DEF s
<1>5. ASSUME NEW i \in 1..hd.nc
      PROVE  (\A j \in DOMAIN s : s[i] >= s[j]) /\ (\A j \in 1..(i - 1) : s[j] < s[i]) <=> i = o.cls
  <2>1. CASE i = o.cls
    BY <1>1, <1>2, <1>4, <2>1
  <2>2. CASE i # o.cls
    <3>1. s[i] = o.conf \div 2 /\ s[o.cls] = o.conf /\ o.cls \in DOMAIN s
      BY <1>2, <1>4, <2>2
    <3> QED BY <1>1, <2>2, <3>1
  <2> QED BY <2>1, <2>2
<1>6. ArgMax(s) = o.cls
  BY <1>4, <1>5 DEF ArgMax
<1> QED BY <1>2, <1>4, <1>6 DEF s

(* Two rows, one behind the other. *)
LEMMA JoinOf ==
    ASSUME NEW s \in Seq(Int), NEW t \in Seq(Int)
    PROVE  /\ s \o t \in Seq(Int) /\ Len(s \o t) = Len(s) + Len(t)
           /\ Len(s) \in Nat /\ Len(t) \in Nat
           /\ \A k \in 1..Len(s) : (s \o t)[k] = s[k]
           /\ \A k \in 1..Len(t) : (s \o t)[Len(s) + k] = t[k]
OBVIOUS

(* The part of a row that equals another one. *)
LEMMA PartOf ==
    ASSUME NEW r \in Seq(Int), NEW m \in Nat \ {0}, NEW t \in Seq(Int), m + Len(t) - 1 <= Len(r),
           \A k \in 1..Len(t) : r[m - 1 + k] = t[k]
    PROVE  SubSeq(r, m, m + Len(t) - 1) = t
<1> DEFINE n == m + Len(t) - 1
           u == SubSeq(r, m, n)
<1>1. Len(t) \in Nat /\ n \in Int /\ n - m + 1 = Len(t)
  OBVIOUS
<1>2. \A i \in m..n : r[i] \in Int
  <2> SUFFICES ASSUME NEW i \in m..n PROVE r[i] \in Int
    OBVIOUS
  <2>1. i \in 1..Len(r)
    BY <1>1
  <2> QED BY <2>1
<1>3. /\ u \in Seq(Int) /\ Len(u) = IF m <= n THEN n - m + 1 ELSE 0
      /\ \A i \in 1..(n - m + 1) : u[i] = r[m + i - 1]
  <2> HIDE DEF n
  <2> QED BY <1>1, <1>2, SubSeqProperties
<1> HIDE DEF u
<1>4. Len(u) = Len(t)
  BY <1>1, <1>3
<1>5. \A i \in 1..Len(t) : u[i] = t[i]
  <2> SUFFICES ASSUME NEW i \in 1..Len(t) PROVE u[i] = t[i]
    OBVIOUS
  <2>1. u[i] = r[m + i - 1]
    BY <1>1, <1>3
  <2>2. r[m - 1 + i] = t[i]
    OBVIOUS
  <2>3. m + i - 1 = m - 1 + i
    OBVIOUS
  <2> QED BY <2>1, <2>2, <2>3
<1>6. u = t
  <2>1. u \in [1..Len(t) -> Int] /\ t \in [1..Len(t) -> Int]
    BY <1>3, <1>4
  <2> QED BY <1>5, <2>1
<1> QED BY <1>6 DEF u

(* The middle of a row. *)
LEMMA MiddleOf ==
    ASSUME NEW a \in Seq(Int), NEW b \in Seq(Int), NEW c \in Seq(Int)
    PROVE  /\ SubSeq((a \o b) \o c, Len(a) + 1, Len(a) + Len(b)) = b
           /\ SubSeq((a \o b) \o c, 1, Len(a) + Len(b)) = a \o b
           /\ SubSeq((a \o b) \o c, Len(a) + Len(b) + 1, Len(a) + Len(b) + Len(c)) = c
           /\ Len((a \o b) \o c) = Len(a) + Len(b) + Len(c)
           /\ (a \o b) \o c \in Seq(Int) /\ a \o b \in Seq(Int)
           /\ \A k \in 1..Len(a) : ((a \o b) \o c)[k] = a[k]
           /\ \A k \in 1..Len(b) : ((a \o b) \o c)[Len(a) + k] = b[k]
<1> DEFINE d == a \o b
           r == d \o c
<1>1. /\ d \in Seq(Int) /\ Len(d) = Len(a) + Len(b) /\ Len(a) \in Nat /\ Len(b) \in Nat
      /\ \A k \in 1..Len(a) : d[k] = a[k]
      /\ \A k \in 1..Len(b) : d[Len(a) + k] = b[k]
  BY JoinOf
<1> HIDE DEF d
<1>2. /\ r \in Seq(Int) /\ Len(r) = Len(d) + Len(c) /\ Len(c) \in Nat
      /\ \A k \in 1..Len(d) : r[k] = d[k]
      /\ \A k \in 1..Len(c) : r[Len(d) + k] = c[k]
  BY <1>1, JoinOf
<1> HIDE DEF r
<1>3. /\ \A k \in 1..Len(a) : r[k] = a[k]
      /\ \A k \in 1..Len(b) : r[Len(a) + k] = b[k]
  <2>1. ASSUME NEW k \in 1..Len(a) PROVE r[k] = a[k]
    <3>1. k \in 1..Len(d) /\ d[k] = a[k]
      BY <1>1
    <3> QED BY <1>2, <3>1
  <2>2. ASSUME NEW k \in 1..Len(b) PROVE r[Len(a) + k] = b[k]
    <3>1. Len(a) + k \in 1..Len(d) /\ d[Len(a) + k] = b[k]
      BY <1>1
    <3> QED BY <1>2, <3>1
  <2> QED BY <2>1, <2>2
<1>4. SubSeq(r, Len(a) + 1, Len(a) + Len(b)) = b
  <2> DEFINE m == Len(a) + 1
  <2>1. m \in Nat \ {0} /\ m + Len(b) - 1 = Len(a) + Len(b) /\ Len(a) + Len(b) <= Len(r)
        /\ \A k \in 1..Len(b) : m - 1 + k = Len(a) + k
    BY <1>1, <1>2
  <2>2. \A k \in 1..Len(b) : r[m - 1 + k] = b[k]
    BY <1>3, <2>1
  <2> HIDE DEF m
  <2>3. SubSeq(r, m, m + Len(b) - 1) = b
    BY <1>2, <2>1, <2>2, PartOf
  <2> QED BY <2>1, <2>3 DEF m
<1>5. SubSeq(r, 1, Len(d)) = d
  <2>1. 1 + Len(d) - 1 = Len(d) /\ Len(d) <= Len(r) /\ \A k \in 1..Len(d) : 1 - 1 + k = k
    BY <1>1, <1>2
  <2>2. \A k \in 1..Len(d) : r[1 - 1 + k] = d[k]
    BY <1>2, <2>1
  <2>3. SubSeq(r, 1, 1 + Len(d) - 1) = d
    BY <1>1, <1>2, <2>1, <2>2, PartOf
  <2> QED BY <2>1, <2>3
<1>6. SubSeq(r, Len(d) + 1, Len(d) + Len(c)) = c
  <2> DEFINE m == Len(d) + 1
  <2>1. m \in Nat \ {0} /\ m + Len(c) - 1 = Len(d) + Len(c)
        /\ \A k \in 1..Len(c) : m - 1 + k = Len(d) + k
    BY <1>1, <1>2
  <2>2. \A k \in 1..Len(c) : r[m - 1 + k] = c[k]
    BY <1>2, <2>1
  <2>4. m + Len(c) - 1 <= Len(r)
    BY <1>2, <2>1
  <2> HIDE DEF m
  <2>3. SubSeq(r, m, m + Len(c) - 1) = c
    BY <1>2, <2>4, <2>1, <2>2, PartOf
  <2> QED BY <2>1, <2>3 DEF m
<1> QED BY <1>1, <1>2, <1>3, <1>4, <1>5, <1>6 DEF d, r

(* A row that consists of three parts. *)
Consists(row, a, b, c) ==
    /\ row \in Seq(Int)
    /\ Len(row) = Len(a) + Len(b) + Len(c)
    /\ SubSeq(row, Len(a) + 1, Len(a) + Len(b)) = b
    /\ SubSeq(row, Len(a) + Len(b) + 1, Len(a) + Len(b) + Len(c)) = c
    /\ \A k \in 1..Len(a) : row[k] = a[k]
    /\ \A k \in 1..Len(b) : row[Len(a) + k] = b[k]

(* Three parts written one after the other can be read back. *)
LEMMA RowOf ==
    ASSUME NEW a \in Seq(Int), NEW b \in Seq(Int), NEW c \in Seq(Int)
    PROVE  Consists((a \o b) \o c, a, b, c)
<1>1. SubSeq((a \o b) \o c, Len(a) + 1, Len(a) + Len(b)) = b
  BY MiddleOf
<1>2. SubSeq((a \o b) \o c, Len(a) + Len(b) + 1, Len(a) + Len(b) + Len(c)) = c
  BY MiddleOf
<1>3. Len((a \o b) \o c) = Len(a) + Len(b) + Len(c) /\ (a \o b) \o c \in Seq(Int)
  BY MiddleOf
<1>4. \A k \in 1..Len(a) : ((a \o b) \o c)[k] = a[k]
  BY MiddleOf
<1>5. \A k \in 1..Len(b) : ((a \o b) \o c)[Len(a) + k] = b[k]
  BY MiddleOf
<1> DEFINE row == (a \o b) \o c
<1> HIDE DEF row
<1>6. Consists(row, a, b, c)
  BY <1>1, <1>2, <1>3, <1>4, <1>5 DEF Consists, row
<1> QED BY <1>6 DEF row

(* A row of a single column. *)
LEMMA SingleOf ==
    ASSUME NEW x \in Seq(Int), Len(x) = 1
    PROVE  x = <<x[1]>> /\ x[1] \in Int
OBVIOUS

(* A row cut where its first part ends. *)
LEMMA CutOf ==
    ASSUME NEW s \in Seq(Int), NEW t \in Seq(Int)
    PROVE  Split(s \o t, Len(s)) = <<s, t>>
<1>1. /\ s \o t \in Seq(Int) /\ Len(s \o t) = Len(s) + Len(t) /\ Len(s) \in Nat /\ Len(t) \in Nat
      /\ \A k \in 1..Len(s) : (s \o t)[k] = s[k]
      /\ \A k \in 1..Len(t) : (s \o t)[Len(s) + k] = t[k]
  BY JoinOf
<1> DEFINE r == s \o t
<1> HIDE DEF r
<1>2. SubSeq(r, 1, Len(s)) = s
  <2>1. 1 + Len(s) - 1 = Len(s) /\ 1 + Len(s) - 1 <= Len(r) /\ \A k \in 1..Len(s) : 1 - 1 + k = k
    BY <1>1 DEF r
  <2>2. \A k \in 1..Len(s) : r[1 - 1 + k] = s[k]
    BY <1>1, <2>1 DEF r
  <2>3. SubSeq(r, 1, 1 + Len(s) - 1) = s
    BY <1>1, <2>1, <2>2, PartOf DEF r
  <2> QED BY <2>1, <2>3
<1>3. SubSeq(r, Len(s) + 1, Len(r)) = t
  <2> DEFINE m == Len(s) + 1
  <2>1. /\ m \in Nat \ {0} /\ m + Len(t) - 1 = Len(r) /\ m + Len(t) - 1 <= Len(r)
        /\ \A k \in 1..Len(t) : m - 1 + k = Len(s) + k
    BY <1>1 DEF r
  <2>2. \A k \in 1..Len(t) : r[m - 1 + k] = t[k]
    BY <1>1, <2>1 DEF r
  <2> HIDE DEF m
  <2>3. SubSeq(r, m, m + Len(t) - 1) = t
    BY <1>1, <2>1, <2>2, PartOf DEF r
  <2> QED BY <2>1, <2>3 DEF m
<1> QED BY <1>2, <1>3 DEF Split, r

(* Corners, centre and corners again: on whole pixels nothing is lost. *)
LEMMA CentredBack ==
    ASSUME NEW img \in Pictures, NEW box \in [1..4 -> Nat]
    PROVE  /\ Seen(img, box) \in Seq(Int) /\ Len(Seen(img, box)) = 4
           /\ Centred(Seen(img, box)) \in Seq(Int) /\ Len(Centred(Seen(img, box))) = 4
           /\ ToXyxy(Centred(Seen(img, box))) = Seen(img, box)
<1> DEFINE b == Seen(img, box)
<1>1. \A v \in Int : (2 * v) \div 2 = v
  OBVIOUS
<1>2. ASSUME NEW i \in 1..4 PROVE \E v \in Int : b[i] = 4 * v
  <2> DEFINE x == Nearest(box[i] * Shrunk(img, i), Extent(img, i))
             y == Margin(img)[Axis(i)] \div 4
  <2>1. x \in Int
    <3>1. Extent(img, i) \in Nat \ {0} /\ box[i] * Shrunk(img, i) \in Int
      BY Letterboxed
    <3> QED BY <3>1, NearestIs
  <2>2. Margin(img)[1] \in Int /\ Margin(img)[2] \in Int
    BY Letterboxed
  <2>3. y \in Int /\ Border(img)[Axis(i)] = 4 * y
    BY <2>2 DEF Axis, Border
  <2>4. b[i] = 4 * x + Border(img)[Axis(i)]
    BY DEF Seen
  <2> HIDE DEF b, x, y
  <2>5. x + y \in Int /\ 4 * x + 4 * y = 4 * (x + y)
    BY <2>1, <2>3
  <2> QED BY <2>3, <2>4, <2>5
<1>3. b \in Seq(Int) /\ Len(b) = 4
  BY SeenIsBox
<1> HIDE DEF b
<1>4. PICK p \in Int, q \in Int, r \in Int, t \in Int :
         b[1] = 4 * p /\ b[2] = 4 * q /\ b[3] = 4 * r /\ b[4] = 4 * t
  BY <1>2
<1> DEFINE c == Centred(b)
<1>5. /\ c[1] = 2 * p + 2 * r /\ c[2] = 2 * q + 2 * t
      /\ c[3] = 4 * r - 4 * p /\ c[4] = 4 * t - 4 * q
      /\ c \in Seq(Int) /\ Len(c) = 4
  <2>1. /\ b[1] + b[3] = 2 * (2 * p + 2 * r) /\ b[2] + b[4] = 2 * (2 * q + 2 * t)
        /\ 2 * p + 2 * r \in Int /\ 2 * q + 2 * t \in Int
    BY <1>4
  <2>2. (b[1] + b[3]) \div 2 = 2 * p + 2 * r /\ (b[2] + b[4]) \div 2 = 2 * q + 2 * t
    BY <1>1, <2>1
  <2> QED BY <1>4, <2>1, <2>2 DEF Centred
<1> HIDE DEF c
<1>6. c[3] \div 2 = 2 * r - 2 * p /\ c[4] \div 2 = 2 * t - 2 * q
  <2>1. /\ c[3] = 2 * (2 * r - 2 * p) /\ c[4] = 2 * (2 * t - 2 * q)
        /\ 2 * r - 2 * p \in Int /\ 2 * t - 2 * q \in Int
    BY <1>5
  <2> QED BY <1>1, <2>1
<1>7. ToXyxy(c) = <<b[1], b[2], b[3], b[4]>>
  <2>1. /\ c[1] - c[3] \div 2 = b[1] /\ c[2] - c[4] \div 2 = b[2]
        /\ c[1] + c[3] \div 2 = b[3] /\ c[2] + c[4] \div 2 = b[4]
    BY <1>4, <1>5, <1>6
  <2> QED BY <2>1 DEF ToXyxy
<1>8. b = <<b[1], b[2], b[3], b[4]>>
  BY <1>3
<1> QED BY <1>3, <1>5, <1>7, <1>8 DEF b, c

(* Columns of a box. *)
FourOf(b) == Len(b) = 4

(* Box, score and class of an object, with what belongs to it. *)
Readout(b, ob, o, extra) ==
    Found(ToXyxy(b), (IF Len(ob) = 1 THEN ob[1] ELSE 10) * o.conf, o.cls - 1, extra)

Legible(b, ob, hd, o, nc) ==
    /\ b \in Seq(Int) /\ FourOf(b)
    /\ ob \in Seq(Int) /\ Len(ob) \in {0, 1}
    /\ nc \in Nat /\ nc >= hd.nc /\ (Len(ob) = 1 => nc = hd.nc)
    /\ hd.nc \in Nat /\ o \in Objects /\ o.cls \in 1..hd.nc /\ o.conf > 0

(* Box, objectness if any, and classes are found by counting columns. *)
LEMMA ColumnsRead ==
    ASSUME NEW b, NEW ob, NEW hd, NEW o, NEW nc, NEW has, NEW extra,
           Legible(b, ob, hd, o, nc)
    PROVE  FromColumns((b \o ob) \o Classes(hd, o), nc, has, extra) = Readout(b, ob, o, extra)
<1> DEFINE cl == Classes(hd, o)
           row == (b \o ob) \o cl
           m == hd.nc
           full == Len(row) = 5 + nc
           first == IF full THEN 6 ELSE 5
           last == Min({Len(row), first + nc - 1})
<1> SUFFICES ASSUME b \in Seq(Int), FourOf(b), ob \in Seq(Int), Len(ob) \in {0, 1},
                    hd.nc \in Nat, o \in Objects, o.cls \in 1..hd.nc, o.conf > 0,
                    nc \in Nat, nc >= hd.nc, Len(ob) = 1 => nc = hd.nc
             PROVE  FromColumns(row, nc, has, extra) = Readout(b, ob, o, extra)
  BY DEF Legible
<1>1. cl \in Seq(Int) /\ Len(cl) = m /\ ArgMax(cl) = o.cls /\ cl[o.cls] = o.conf /\ m > 0 /\ nc > 0
  BY BestClass
<1> HIDE DEF cl
<1>2. /\ SubSeq(row, Len(b) + Len(ob) + 1, Len(b) + Len(ob) + Len(cl)) = cl
      /\ Len(row) = Len(b) + Len(ob) + Len(cl)
      /\ \A k \in 1..Len(b) : row[k] = b[k]
      /\ \A k \in 1..Len(ob) : row[Len(b) + k] = ob[k]
  <2>1. Consists((b \o ob) \o cl, b, ob, cl)
    BY <1>1, RowOf
  <2>2. Consists(row, b, ob, cl)
    BY <2>1
  <2> HIDE DEF row
  <2> QED BY <2>2 DEF Consists
<1> HIDE DEF row
<1>3. /\ full <=> Len(ob) = 1
      /\ first = Len(b) + Len(ob) + 1 /\ first + nc - 1 >= Len(row)
      /\ Len(row) \in Int /\ first + nc - 1 \in Int
  <2>0. Len(b) = 4
    BY DEF FourOf
  <2>1. /\ Len(row) = 4 + Len(ob) + m /\ (Len(ob) = 0 \/ Len(ob) = 1)
        /\ m \in Nat /\ nc \in Nat /\ nc >= m /\ (Len(ob) = 1 => nc = m)
    BY <1>1, <1>2, <2>0
  <2> HIDE DEF m
  <2>2. CASE Len(ob) = 0
    BY <2>0, <2>1, <2>2
  <2>3. CASE Len(ob) = 1
    BY <2>0, <2>1, <2>3
  <2> QED BY <2>0, <2>1, <2>2, <2>3
<1>4. last = Len(row)
  <2> DEFINE k == first + nc - 1  l == Len(row)
  <2>1. k \in Int /\ l \in Int /\ l <= k
    BY <1>3
  <2> HIDE DEF k, l
  <2>2. \E z \in {l, k} : \A w \in {l, k} : z <= w
    BY <2>1
  <2>3. Min({l, k}) \in {l, k} /\ \A w \in {l, k} : Min({l, k}) <= w
    BY <2>2 DEF Min
  <2>4. Min({l, k}) = l
    BY <2>1, <2>3
  <2> QED BY <2>4 DEF k, l
<1>5. SubSeq(row, first, last) = cl
  BY <1>1, <1>2, <1>3, <1>4
<1>6. ToXyxy(row) = ToXyxy(b)
  BY <1>2 DEF ToXyxy, FourOf
<1>7. full => row[5] = ob[1]
  <2>1. ASSUME full PROVE row[4 + 1] = ob[1]
    BY <1>2, <1>3, <2>1 DEF FourOf
  <2> QED BY <2>1
<1>8. FromColumns(row, nc, has, extra)
         = LET classes == SubSeq(row, first, last)
               best == ArgMax(classes) IN
           Found(ToXyxy(row), (IF full THEN row[5] ELSE 10) * classes[best], best - 1, extra)
  BY <1>1 DEF FromColumns
<1> HIDE DEF full, first, last
<1>9. FromColumns(row, nc, has, extra)
         = Found(ToXyxy(b), (IF full THEN row[5] ELSE 10) * o.conf, o.cls - 1, extra)
  BY <1>1, <1>5, <1>6, <1>8
<1>10. (IF full THEN row[5] ELSE 10) = (IF Len(ob) = 1 THEN ob[1] ELSE 10)
  BY <1>3, <1>7
<1> QED BY <1>9, <1>10 DEF row, cl, Readout

(* The parts a row is made of. *)
LEMMA PartsOf ==
    ASSUME NEW hd \in Heads, NEW img \in Pictures, NEW o \in Objects, NEW i \in Nat
    PROVE  /\ hd.nc \in Nat /\ hd.extra \in Nat /\ hd.obj \in BOOLEAN
           /\ Seen(img, o.box) \in Seq(Int) /\ FourOf(Seen(img, o.box))
           /\ Centred(Seen(img, o.box)) \in Seq(Int) /\ FourOf(Centred(Seen(img, o.box)))
           /\ ToXyxy(Centred(Seen(img, o.box))) = Seen(img, o.box)
           /\ Objectness(hd, o) \in Seq(Int)
           /\ Len(Objectness(hd, o)) = IF hd.obj THEN 1 ELSE 0
           /\ Confidence(hd, o) = (IF Len(Objectness(hd, o)) = 1 THEN Objectness(hd, o)[1] ELSE 10) * o.conf
           /\ Confidence(hd, o) \in Nat
           /\ Extra(hd, i) \in Seq(Int) /\ Len(Extra(hd, i)) = hd.extra
<1>1. /\ hd.nc \in Nat /\ hd.extra \in Nat /\ hd.obj \in BOOLEAN
      /\ o.box \in [1..4 -> Nat] /\ o.obj \in Nat /\ o.cls \in Nat /\ o.conf \in Nat
  BY InputsAssumption DEF Objects
<1>2. /\ Seen(img, o.box) \in Seq(Int) /\ FourOf(Seen(img, o.box))
      /\ Centred(Seen(img, o.box)) \in Seq(Int) /\ FourOf(Centred(Seen(img, o.box)))
      /\ ToXyxy(Centred(Seen(img, o.box))) = Seen(img, o.box)
  BY <1>1, CentredBack DEF FourOf
<1>3. /\ Objectness(hd, o) \in Seq(Int)
      /\ Len(Objectness(hd, o)) = IF hd.obj THEN 1 ELSE 0
      /\ hd.obj => Objectness(hd, o)[1] = o.obj
  BY <1>1 DEF Objectness
<1>4. Confidence(hd, o) = (IF Len(Objectness(hd, o)) = 1 THEN Objectness(hd, o)[1] ELSE 10) * o.conf
  BY <1>1, <1>3 DEF Confidence
<1>5. Confidence(hd, o) \in Nat
  <2>1. \A m, n \in Nat : m * n \in Nat
    OBVIOUS
  <2>2. o.obj * o.conf \in Nat /\ 10 * o.conf \in Nat
    BY <1>1, <2>1
  <2> QED BY <2>2 DEF Confidence
<1>6. Extra(hd, i) \in Seq(Int) /\ Len(Extra(hd, i)) = hd.extra
  <2> DEFINE n == hd.extra
             x == Extra(hd, i)
  <2>1. n \in Nat
    BY <1>1
  <2>2. \A j \in 1..n : 10 * i + j \in Int
    OBVIOUS
  <2>3. x = [j \in 1..n |-> 10 * i + j]
    BY DEF Extra
  <2> HIDE DEF x, n
  <2>4. x \in [1..n -> Int]
    BY <2>2, <2>3
  <2>5. x \in Seq(Int) /\ Len(x) = n
    BY <2>1, <2>4
  <2> QED BY <2>5 DEF x, n
<1> QED BY <1>1, <1>2, <1>3, <1>4, <1>5, <1>6

(* Where a decoder cuts the row: mask coefficients, key points, the angle,   *)
(* the classes of boxes and scores, score and class.                         *)
LEMMA SegmentReads ==
    ASSUME NEW e \in Seq(Int), NEW x \in Seq(Int), NEW ct, ct.nc \in Nat, ct.nc > 0,
           Len(x) = NumMasks, Len(e) >= ct.nc + 4
    PROVE  SegmentRow(e \o x, ct) = FromColumns(e, ct.nc, ct.obj, x)
<1> DEFINE r == e \o x
<1>1. Split(r, Len(e)) = <<e, x>>
  BY CutOf
<1>2. Len(r) = Len(e) + Len(x) /\ Len(e) \in Nat /\ Len(x) \in Nat
  BY JoinOf
<1> HIDE DEF r
<1>3. Len(r) - NumMasks = Len(e) /\ Len(r) >= ct.nc + 4 + NumMasks
  BY <1>2, DetectionAssumption
<1>4. SegmentRow(r, ct) = LET part == Split(r, Len(r) - NumMasks) IN FromColumns(part[1], ct.nc, ct.obj, part[2])
  BY <1>3 DEF SegmentRow
<1>5. SegmentRow(r, ct) = FromColumns(<<e, x>>[1], ct.nc, ct.obj, <<e, x>>[2])
  BY <1>1, <1>3, <1>4
<1> QED BY <1>5 DEF r

(* The columns of the key points are the ones past the class scores: with an *)
(* objectness column their number is no multiple of three.                  *)
LEMMA PoseReads ==
    ASSUME NEW e \in Seq(Int), NEW x \in Seq(Int), NEW ct, ct.nc \in Nat,
           Len(x) % 3 = 0, Len(e) \in {ct.nc + 4, ct.nc + 5}
    PROVE  \E has : PoseRow(e \o x, ct) = FromColumns(e, ct.nc, has, x)
<1> DEFINE r == e \o x
           plain == ct.nc + 4
           box == IF (Len(r) - plain) % 3 = 0 THEN plain ELSE plain + 1
           n == Len(e)
           m == Len(x)
           l == Len(r)
<1>1. Split(r, Len(e)) = <<e, x>>
  BY CutOf
<1>2. Len(r) = Len(e) + Len(x) /\ Len(e) \in Nat /\ Len(x) \in Nat
  BY JoinOf
<1> HIDE DEF r
<1>3. box = Len(e)
  <2>0. l = n + m /\ n \in Nat /\ m \in Nat /\ m % 3 = 0 /\ n \in {plain, plain + 1} /\ plain \in Nat
    BY <1>2
  <2> SUFFICES (IF (l - plain) % 3 = 0 THEN plain ELSE plain + 1) = n
    OBVIOUS
  <2> HIDE DEF l, m, n, plain
  <2>1. CASE n = plain
    <3>1. l - plain = m
      BY <2>0, <2>1
    <3> QED BY <2>0, <2>1, <3>1
  <2>2. CASE n = plain + 1
    <3>1. l - plain = m + 1
      BY <2>0, <2>2
    <3>2. ASSUME NEW k \in Nat, k % 3 = 0 PROVE (k + 1) % 3 = 1
      <4>1. PICK q \in Nat : k = 3 * q
        BY <3>2
      <4> QED BY <4>1
    <3>3. (m + 1) % 3 # 0
      BY <2>0, <3>2
    <3> QED BY <2>2, <3>1, <3>3
  <2> QED BY <2>0, <2>1, <2>2
<1>4. PoseRow(r, ct) = FromColumns(Split(r, box)[1], ct.nc, box > plain, Split(r, box)[2])
  BY Zenon DEF PoseRow
<1> HIDE DEF box, plain
<1>5. PoseRow(r, ct) = FromColumns(<<e, x>>[1], ct.nc, box > plain, <<e, x>>[2])
  BY <1>1, <1>3, <1>4
<1>6. PoseRow(r, ct) = FromColumns(e, ct.nc, box > plain, x)
  BY <1>5
<1> QED BY <1>6 DEF r

(* The angle of an oriented box is the fifth column. *)
LEMMA ObbReads ==
    ASSUME NEW b \in Seq(Int), FourOf(b), NEW v \in Int, NEW cl \in Seq(Int), NEW ct, ct.nc \in Nat
    PROVE  ObbRow((b \o <<v>>) \o cl, ct) = FromColumns(b \o cl, Len(cl), ct.obj, <<v>>)
<1> DEFINE x == <<v>>
           row == (b \o x) \o cl
<1>1. x \in Seq(Int) /\ Len(x) = 1 /\ x[1] = v
  OBVIOUS
<1> HIDE DEF x
<1>0. Consists((b \o x) \o cl, b, x, cl)
  BY <1>1, RowOf
<1> HIDE DEF row
<1>2. Consists(row, b, x, cl)
  BY <1>0 DEF row
<1>3. row \in Seq(Int) /\ Len(row) = Len(b) + Len(x) + Len(cl)
  BY <1>2 DEF Consists
<1>4. SubSeq(row, Len(b) + Len(x) + 1, Len(b) + Len(x) + Len(cl)) = cl
  BY <1>2 DEF Consists
<1>5. \A k \in 1..Len(b) : row[k] = b[k]
  BY <1>2 DEF Consists
<1>6. \A k \in 1..Len(x) : row[Len(b) + k] = x[k]
  BY <1>2 DEF Consists
<1>7. Len(b) \in Nat /\ Len(cl) \in Nat
  OBVIOUS
<1>8. SubSeq(row, 1, Len(b)) = b
  <2>1. 1 + Len(b) - 1 = Len(b) /\ Len(b) <= Len(row) /\ \A k \in 1..Len(b) : 1 - 1 + k = k
    BY <1>1, <1>3, <1>7
  <2>2. \A k \in 1..Len(b) : row[1 - 1 + k] = b[k]
    BY <1>5, <2>1
  <2>3. ASSUME NEW m \in Nat \ {0}, m = 1 PROVE SubSeq(row, m, m + Len(b) - 1) = b
    <3>1. m + Len(b) - 1 <= Len(row) /\ \A k \in 1..Len(b) : row[m - 1 + k] = b[k]
      BY <2>1, <2>2, <2>3
    <3> QED BY <1>3, <3>1, PartOf
  <2>4. 1 \in Nat \ {0}
    OBVIOUS
  <2>5. SubSeq(row, 1, 1 + Len(b) - 1) = b
    BY <2>3, <2>4
  <2> QED BY <2>1, <2>5
<1>9. /\ Len(b) = 4 /\ Len(row) = 5 + Len(cl)
      /\ SubSeq(row, 6, Len(row)) = cl
  <2>1. Len(b) = 4
    BY DEF FourOf
  <2>2. Len(b) + Len(x) + 1 = 6 /\ Len(b) + Len(x) + Len(cl) = Len(row) /\ Len(row) = 5 + Len(cl)
    BY <1>1, <1>3, <1>7, <2>1
  <2> QED BY <1>4, <2>1, <2>2
<1>10. row[5] = v
  <2>1. row[4 + 1] = v
    BY <1>1, <1>6, <1>9
  <2> QED BY <2>1
<1>11. (IF Len(row) = 5 + ct.nc THEN ct.nc ELSE Len(row) - 5) = Len(cl)
  BY <1>7, <1>9
<1>12. SubSeq(row, 1, 4) = b
  BY <1>8, <1>9
<1>13. ObbRow(row, ct) = FromColumns(b \o cl, Len(cl), ct.obj, <<v>>)
  BY <1>9, <1>10, <1>11, <1>12 DEF ObbRow
<1> QED BY <1>13 DEF row, x

(* Four corners in front of the rest. *)
LEMMA CornersRead ==
    ASSUME NEW b \in Seq(Int), FourOf(b), NEW t \in Seq(Int)
    PROVE  /\ SubSeq(b \o t, 1, 4) = b
           /\ SubSeq(b \o t, 5, Len(b \o t)) = t
           /\ \A k \in 1..Len(t) : (b \o t)[4 + k] = t[k]
<1> DEFINE r == b \o t
<1>1. Split(r, Len(b)) = <<b, t>>
  BY CutOf
<1>2. \A k \in 1..Len(t) : r[Len(b) + k] = t[k]
  BY JoinOf
<1> HIDE DEF r
<1>3. SubSeq(r, 1, Len(b)) = b /\ SubSeq(r, Len(b) + 1, Len(r)) = t
  BY <1>1 DEF Split
<1>4. Len(b) = 4 /\ Len(b) + 1 = 5
  BY DEF FourOf
<1> QED BY <1>2, <1>3, <1>4 DEF r

(* A row of two outputs: corners, and the best of the class scores. *)
LEMMA PairReads ==
    ASSUME NEW b \in Seq(Int), FourOf(b), NEW cl \in Seq(Int)
    PROVE  PairRow(b \o cl) = Found(b, 10 * cl[ArgMax(cl)], ArgMax(cl) - 1, <<>>)
<1> DEFINE r == b \o cl
<1>1. SubSeq(r, 1, 4) = b /\ SubSeq(r, 5, Len(r)) = cl
  BY CornersRead
<1> HIDE DEF r
<1>2. PairRow(r) = Found(b, 10 * cl[ArgMax(cl)], ArgMax(cl) - 1, <<>>)
  BY <1>1 DEF PairRow
<1> QED BY <1>2 DEF r

(* A row that has been through NMS: corners, score and class. *)
LEMMA End2EndReads ==
    ASSUME NEW b \in Seq(Int), FourOf(b), NEW v \in Int, NEW w \in Int
    PROVE  End2EndRow(b \o <<v, w>>) = Found(b, v, w, <<>>)
<1> DEFINE t == <<v, w>>
           r == b \o t
<1>1. t \in Seq(Int) /\ Len(t) = 2 /\ t[1] = v /\ t[2] = w
  OBVIOUS
<1> HIDE DEF t
<1>2. SubSeq(r, 1, 4) = b
  BY <1>1, CornersRead
<1>3. \A k \in 1..Len(t) : r[4 + k] = t[k]
  BY <1>1, CornersRead
<1> HIDE DEF r
<1>4. r[4 + 1] = v /\ r[4 + 2] = w
  BY <1>1, <1>3
<1>5. r[5] = v /\ r[6] = w
  BY <1>4
<1>6. End2EndRow(r) = Found(b, v, w, <<>>)
  BY <1>2, <1>5 DEF End2EndRow
<1> QED BY <1>6 DEF r, t

(* Every decoder reads out of the row of an object what the network wrote    *)
(* into it: its box, score, class and what belongs to it.                    *)
LEMMA ReadsObject ==
    ASSUME NEW hd \in Heads, NEW img \in Pictures, NEW o \in Objects, NEW i \in Nat,
           o.cls \in 1..hd.nc, o.conf > 0,
           NEW ct, ct.nc \in Nat, ct.layout \in Boxed \union Tasked, Fits(hd, ct),
           hd.layout \notin {"cls", "dense"},
           ct.layout \in Boxed <=> hd.task = "detection",
           ct.layout = "segment" => hd.layout = "segment"
    PROVE  DecodeRow(Row(hd, img, o, i), ct)
              = Found(Seen(img, o.box), Confidence(hd, o), o.cls - 1, ExtraOf(hd, i))
<1> DEFINE b == Seen(img, o.box)
           cb == Centred(b)
           ob == Objectness(hd, o)
           cl == Classes(hd, o)
           x == Extra(hd, i)
           e == (cb \o ob) \o cl
           row == Row(hd, img, o, i)
           score == Confidence(hd, o)
<1>1. /\ hd.nc \in Nat /\ hd.extra \in Nat /\ hd.obj \in BOOLEAN
  BY PartsOf
<1>2. b \in Seq(Int) /\ FourOf(b)
  BY PartsOf
<1>3. cb \in Seq(Int) /\ FourOf(cb) /\ ToXyxy(cb) = b
  BY PartsOf
<1>4. ob \in Seq(Int) /\ Len(ob) = (IF hd.obj THEN 1 ELSE 0)
  BY PartsOf
<1>5. score = (IF Len(ob) = 1 THEN ob[1] ELSE 10) * o.conf /\ score \in Int
  BY PartsOf
<1>6. x \in Seq(Int) /\ Len(x) = hd.extra
  BY PartsOf
<1>7. cl \in Seq(Int) /\ Len(cl) = hd.nc /\ ArgMax(cl) = o.cls /\ cl[o.cls] = o.conf
  BY <1>1, BestClass
<1>9. /\ hd.layout \notin {"bnc6", "embedded", "pair", "obb"} => row = e \o x
      /\ hd.layout \in {"bnc6", "embedded"} => row = b \o <<score, o.cls - 1>>
      /\ hd.layout = "pair" => row = b \o cl
      /\ hd.layout = "obb" => row = (cb \o x) \o cl
  BY DEF Row
<1> HIDE DEF b, cb, ob, cl, x, row, score
<1>8. ASSUME NEW nc \in Nat, nc >= hd.nc, hd.obj => nc = hd.nc, NEW has, NEW extra
      PROVE  FromColumns(e, nc, has, extra) = Found(b, score, o.cls - 1, extra)
  <2>1. Len(ob) \in {0, 1}
    BY <1>4
  <2>2. FromColumns((cb \o ob) \o Classes(hd, o), nc, has, extra) = Readout(cb, ob, o, extra)
    <3>1. cb \in Seq(Int) /\ FourOf(cb)
      BY <1>3
    <3>2. ob \in Seq(Int)
      BY <1>4
    <3>3. hd.nc \in Nat
      BY <1>1
    <3>4. Len(ob) = 1 => nc = hd.nc
      <4>1. CASE hd.obj
        BY <1>8, <4>1, Zenon
      <4>2. CASE ~hd.obj
        <5>1. Len(ob) = 0
          BY <1>4, <4>2, Zenon
        <5> QED BY <5>1
      <4> QED BY <4>1, <4>2
    <3>5. Legible(cb, ob, hd, o, nc)
      BY <1>8, <2>1, <3>1, <3>2, <3>3, <3>4 DEF Legible
    <3> QED BY <3>5, ColumnsRead
  <2>3. e = (cb \o ob) \o Classes(hd, o)
    BY DEF cl
  <2> HIDE DEF e
  <2> QED BY <1>3, <1>5, <2>2, <2>3 DEF Readout
<1>10. e \in Seq(Int) /\ Len(e) = Len(cb) + Len(ob) + Len(cl)
  <2>0. e = (cb \o ob) \o cl
    OBVIOUS
  <2>1. cb \in Seq(Int)
    BY <1>3
  <2>2. ob \in Seq(Int)
    BY <1>4
  <2>3. cl \in Seq(Int)
    BY <1>7
  <2> HIDE DEF e
  <2>4. Consists((cb \o ob) \o cl, cb, ob, cl)
    BY <2>1, <2>2, <2>3, RowOf
  <2>5. Consists(e, cb, ob, cl)
    BY <2>0, <2>4
  <2> QED BY <2>5 DEF Consists
<1>11. hd.task = "detection" => ExtraOf(hd, i) = <<>>
  BY DEF ExtraOf
<1>12. hd.task # "detection" => ExtraOf(hd, i) = x
  BY DEF ExtraOf, x
<1> SUFFICES DecodeRow(row, ct) = Found(b, score, o.cls - 1, ExtraOf(hd, i))
  BY DEF row, b, score
<1>13. CASE ct.layout \in {"bcn", "bnc"}
  <2>1. hd.layout \in {"bcn", "bnc"} /\ ct.nc >= hd.nc /\ (hd.obj => ct.nc = hd.nc) /\ hd.extra = 0 /\ hd.task = "detection"
    BY <1>13 DEF Fits, Boxed
  <2>2. x = <<>>
    BY <1>6, <2>1
  <2>3. e \o <<>> = e
    <3> HIDE DEF e
    <3> QED BY <1>10
  <2>4. row = e
    BY <1>9, <2>1, <2>2, <2>3
  <2>5. DecodeRow(row, ct) = FromColumns(row, ct.nc, ct.obj, <<>>)
    BY <1>13 DEF DecodeRow
  <2> HIDE DEF e
  <2> QED BY <1>8, <1>11, <2>1, <2>4, <2>5
<1>14. CASE ct.layout = "segment"
  <2>1. hd.layout = "segment" /\ ct.nc = hd.nc /\ hd.nc > 0 /\ hd.extra = NumMasks /\ hd.task # "detection"
    BY <1>14 DEF Fits, Boxed
  <2>2. row = e \o x
    BY <1>9, <2>1
  <2> HIDE DEF e
  <2>3. Len(e) >= ct.nc + 4
    BY <1>1, <1>3, <1>4, <1>7, <1>10, <2>1 DEF FourOf
  <2>4. SegmentRow(e \o x, ct) = FromColumns(e, ct.nc, ct.obj, x)
    BY <1>1, <1>6, <1>10, <2>1, <2>3, SegmentReads
  <2>5. DecodeRow(row, ct) = SegmentRow(row, ct)
    BY <1>14 DEF DecodeRow
  <2> QED BY <1>1, <1>8, <1>12, <2>1, <2>2, <2>4, <2>5
<1>15. CASE ct.layout = "pose"
  <2>1. hd.layout = "pose" /\ ct.nc = hd.nc /\ hd.extra % 3 = 0 /\ hd.task # "detection"
    BY <1>15 DEF Fits, Boxed
  <2>2. row = e \o x
    BY <1>9, <2>1
  <2> HIDE DEF e
  <2>3. Len(e) \in {ct.nc + 4, ct.nc + 5}
    BY <1>1, <1>3, <1>4, <1>7, <1>10, <2>1 DEF FourOf
  <2>4. \E has : PoseRow(e \o x, ct) = FromColumns(e, ct.nc, has, x)
    BY <1>1, <1>6, <1>10, <2>1, <2>3, PoseReads
  <2>5. DecodeRow(row, ct) = PoseRow(row, ct)
    BY <1>15 DEF DecodeRow
  <2> QED BY <1>1, <1>8, <1>12, <2>1, <2>2, <2>4, <2>5
<1>16. CASE ct.layout = "obb"
  <2>1. hd.layout = "obb" /\ hd.extra = 1 /\ ~hd.obj /\ hd.task # "detection"
    BY <1>16 DEF Fits, Boxed
  <2>2. row = (cb \o x) \o cl
    BY <1>9, <2>1
  <2>3. x = <<x[1]>> /\ x[1] \in Int
    <3>1. x \in Seq(Int)
      BY <1>6
    <3>2. Len(x) = 1
      BY <1>6, <2>1
    <3> QED BY <3>1, <3>2, SingleOf
  <2>4. ob = <<>>
    BY <1>4, <2>1
  <2>5. cb \o <<>> = cb
    BY <1>3
  <2>6. e = cb \o cl
    BY <2>4, <2>5
  <2>7. ObbRow((cb \o <<x[1]>>) \o cl, ct) = FromColumns(cb \o cl, Len(cl), ct.obj, <<x[1]>>)
    BY <1>3, <1>7, <2>3, ObbReads
  <2>8. DecodeRow(row, ct) = ObbRow(row, ct)
    BY <1>16 DEF DecodeRow
  <2> HIDE DEF e
  <2>9. DecodeRow(row, ct) = FromColumns(e, hd.nc, ct.obj, x)
    BY <1>7, <2>2, <2>3, <2>6, <2>7, <2>8
  <2> QED BY <1>1, <1>8, <1>12, <2>1, <2>9
<1>17. CASE ct.layout = "pair"
  <2>1. hd.layout = "pair" /\ ~hd.obj /\ hd.task = "detection"
    BY <1>17 DEF Fits, Boxed
  <2>2. row = b \o cl
    BY <1>9, <2>1
  <2>3. PairRow(b \o cl) = Found(b, 10 * cl[ArgMax(cl)], ArgMax(cl) - 1, <<>>)
    BY <1>2, <1>7, PairReads
  <2>4. DecodeRow(row, ct) = PairRow(row)
    BY <1>17 DEF DecodeRow
  <2>5. score = 10 * o.conf
    BY <1>4, <1>5, <2>1
  <2>6. DecodeRow(row, ct) = Found(b, 10 * o.conf, o.cls - 1, <<>>)
    BY <1>7, <2>2, <2>3, <2>4
  <2> QED BY <1>11, <2>1, <2>5, <2>6
<1>18. CASE ct.layout = "bnc6"
  <2>1. hd.layout \in {"bnc6", "embedded"} /\ hd.task = "detection"
    BY <1>18 DEF Fits, Boxed
  <2>2. row = b \o <<score, o.cls - 1>>
    BY <1>9, <2>1
  <2>3. o.cls - 1 \in Int
    BY <1>1
  <2>4. End2EndRow(b \o <<score, o.cls - 1>>) = Found(b, score, o.cls - 1, <<>>)
    BY <1>2, <1>5, <2>3, End2EndReads
  <2>5. DecodeRow(row, ct) = End2EndRow(row)
    BY <1>18 DEF DecodeRow
  <2> QED BY <1>11, <2>1, <2>2, <2>4, <2>5
<1> QED BY <1>13, <1>14, <1>15, <1>16, <1>17, <1>18 DEF Boxed, Tasked

-----------------------------------------------------------------------------
(* The letterbox and back.  seg_decoder and nwai_detector round three times: *)
(* the side of the shrunk picture, the corner in it, and the border.         *)

USE DetectionAssumption

(* Inequalities times a number. *)
LEMMA Scaled ==
    ASSUME NEW c \in Nat, NEW a \in Int, NEW b \in Int, a <= b
    PROVE  c * a <= c * b
OBVIOUS

(* And divided by it again. *)
LEMMA Cancelled ==
    ASSUME NEW c \in Nat \ {0}, NEW a \in Int, NEW b \in Int, c * a <= c * b
    PROVE  a <= b
OBVIOUS

(* Rounding the shrunk side to u and the place in it to x moves a corner v   *)
(* of the picture by one pixel of the network's input at the most.           *)
LEMMA Landed ==
    ASSUME NEW N \in Nat \ {0}, NEW S \in Nat \ {0}, NEW e \in Nat \ {0}, e <= S,
           NEW v \in 0..e, NEW u \in Int, NEW x \in Int,
           2 * (S * u) - 2 * (e * N) <= S, 2 * (e * N) - 2 * (S * u) <= S,
           2 * (e * x) - 2 * (v * u) <= e, 2 * (v * u) - 2 * (e * x) <= e
    PROVE  x * S - v * N <= S /\ v * N - x * S <= S
<1> DEFINE k == x * S - v * N
<1>1. S * (2 * (e * x) - 2 * (v * u)) <= S * e /\ S * (2 * (v * u) - 2 * (e * x)) <= S * e
  BY Scaled
<1>2. v * (2 * (S * u) - 2 * (e * N)) <= v * S /\ v * (2 * (e * N) - 2 * (S * u)) <= v * S
  BY Scaled
<1>3. v * S <= S * e
  <2>1. S * v <= S * e
    BY Scaled
  <2> QED BY <2>1
<1>4. 2 * (e * k) = S * (2 * (e * x) - 2 * (v * u)) + v * (2 * (S * u) - 2 * (e * N))
  OBVIOUS
<1>5. 2 * (e * k) <= 2 * (S * e) /\ -(2 * (e * k)) <= 2 * (S * e)
  <2> DEFINE a == S * (2 * (e * x) - 2 * (v * u))
             b == v * (2 * (S * u) - 2 * (e * N))
             a2 == S * (2 * (v * u) - 2 * (e * x))
             b2 == v * (2 * (e * N) - 2 * (S * u))
  <2>1. a2 = -a /\ b2 = -b /\ a \in Int /\ b \in Int
    OBVIOUS
  <2>2. S * e \in Int /\ v * S \in Int
    OBVIOUS
  <2>3. 2 * (e * k) = a + b
    BY <1>4
  <2> HIDE DEF a, b, a2, b2, k
  <2>4. a <= S * e /\ a2 <= S * e /\ b <= v * S /\ b2 <= v * S
    BY <1>1, <1>2 DEF a, a2, b, b2
  <2> DEFINE p == S * e  q == v * S  z == 2 * (e * k)
  <2>5. q <= p /\ p \in Int /\ q \in Int /\ z = a + b /\ a <= p /\ -a <= p /\ b <= q /\ -b <= q
    BY <1>3, <2>1, <2>2, <2>3, <2>4
  <2> HIDE DEF p, q, z
  <2>6. z <= 2 * p /\ -z <= 2 * p
    BY <2>1, <2>5
  <2> QED BY <2>6 DEF p, z
<1>6. k \in Int /\ -k \in Int /\ e * (-k) = -(e * k) /\ e * k \in Int /\ S * e = e * S /\ e * S \in Int
  OBVIOUS
<1> HIDE DEF k
<1>7. e * k <= e * S /\ e * (-k) <= e * S
  BY <1>5, <1>6
<1>8. k <= S /\ -k <= S
  BY <1>6, <1>7, Cancelled
<1> QED BY <1>8 DEF k

(* Undoing the letterbox: the border stands within half a pixel of the      *)
(* margin, and the quarter of a pixel is cut off (\div).                    *)
LEMMA Returned4 ==
    ASSUME NEW N \in Nat \ {0}, NEW S \in Nat \ {0}, NEW v \in Nat, NEW x \in Int, NEW d \in 0..2, NEW t \in Int,
           x * S - v * N <= S, v * N - x * S <= S,
           N * t <= (4 * x - d) * S, (4 * x - d) * S < N * t + N
    PROVE  N * (t - 4 * v) <= 6 * S + N /\ N * (4 * v - t) <= 6 * S + N
<1> DEFINE xs == x * S  vn == v * N  ds == d * S  nt == N * t
<1>1. xs \in Int /\ vn \in Int /\ nt \in Int /\ ds \in Int
  OBVIOUS
<1>2. 0 <= ds /\ ds <= 2 * S
  <2>1. d = 0 \/ d = 1 \/ d = 2
    OBVIOUS
  <2> QED BY <2>1
<1>3. (4 * x - d) * S = 4 * xs - ds
  OBVIOUS
<1>4. N * (t - 4 * v) = nt - 4 * vn /\ N * (4 * v - t) = 4 * vn - nt
  OBVIOUS
<1>5. xs - vn <= S /\ vn - xs <= S /\ nt <= 4 * xs - ds /\ 4 * xs - ds < nt + N
  BY <1>3
<1> HIDE DEF xs, vn, ds, nt
<1>6. nt - 4 * vn <= 6 * S + N /\ 4 * vn - nt <= 6 * S + N
  BY <1>1, <1>2, <1>5
<1> QED BY <1>4, <1>6

(* Half a pixel at the most is the border less than the margin. *)
LEMMA BorderOf ==
    ASSUME NEW img \in Pictures, NEW i \in 1..4
    PROVE  Margin(img)[Axis(i)] - Border(img)[Axis(i)] \in 0..2 /\ Margin(img)[Axis(i)] \in Int
<1>1. \A m \in Int : 2 * m - 4 * ((2 * m) \div 4) \in 0..2
  <2> SUFFICES ASSUME NEW m \in Int PROVE 2 * m - 4 * ((2 * m) \div 4) \in 0..2
    OBVIOUS
  <2>1. PICK q \in Int : q = (2 * m) \div 4
    OBVIOUS
  <2>2. 4 * q <= 2 * m /\ 2 * m < 4 * q + 4
    BY <2>1
  <2> QED BY <2>1, <2>2
<1>2. Shrunk(img, 1) \in Int /\ Shrunk(img, 2) \in Int
  BY Letterboxed
<1>3. Net - Shrunk(img, 1) \in Int /\ Net - Shrunk(img, 2) \in Int
  BY <1>2
<1>4. Axis(i) = 1 \/ Axis(i) = 2
  BY DEF Axis
<1>5. CASE Axis(i) = 1
  <2> DEFINE m == Net - Shrunk(img, 1)
  <2>1. Margin(img)[1] = 2 * m /\ Border(img)[1] = 4 * ((2 * m) \div 4)
    BY DEF Margin, Border
  <2> HIDE DEF m
  <2> QED BY <1>1, <1>3, <1>5, <2>1 DEF m
<1>6. CASE Axis(i) = 2
  <2> DEFINE m == Net - Shrunk(img, 2)
  <2>1. Margin(img)[2] = 2 * m /\ Border(img)[2] = 4 * ((2 * m) \div 4)
    BY DEF Margin, Border
  <2> HIDE DEF m
  <2> QED BY <1>1, <1>3, <1>6, <2>1 DEF m
<1> QED BY <1>4, <1>5, <1>6

(* What lies in the picture comes back where it was, within the rounding. *)
LEMMA ComesBack ==
    ASSUME NEW img \in Pictures, NEW box \in [1..4 -> Nat], NEW i \in 1..4, box[i] <= Extent(img, i)
    PROVE  LET p == Whole(Remap(img, Seen(img, box)))[i] IN
           /\ p \in Int
           /\ 4 * Net * (p - box[i]) <= 6 * Side(img) + 3 * Net
           /\ 4 * Net * (box[i] - p) <= 6 * Side(img) + 3 * Net
<1> DEFINE N == Net
           S == Side(img)
           e == Extent(img, i)
           v == box[i]
           u == Shrunk(img, i)
           x == Nearest(v * u, e)
           d == Margin(img)[Axis(i)] - Border(img)[Axis(i)]
           t == ((4 * x - d) * S) \div N
           c == Clip(t, 4 * e)
           p == Nearest(c, 4)
<1>1. N \in Nat \ {0} /\ S \in Nat \ {0} /\ e \in Nat \ {0} /\ e <= S /\ v \in 0..e /\ u \in Int
  BY Letterboxed
<1>2. d \in 0..2
  <2> HIDE DEF d
  <2>1. Margin(img)[Axis(i)] - Border(img)[Axis(i)] \in 0..2
    BY BorderOf
  <2> QED BY <2>1, Zenon DEF d
<1>3. u = Nearest(e * N, S)
  BY DEF Shrunk
<1>4. Whole(Remap(img, Seen(img, box)))[i] = p
  <2>1. Seen(img, box)[i] = 4 * x + Border(img)[Axis(i)]
    BY DEF Seen
  <2>2. Remap(img, Seen(img, box))[i]
           = Clip(((Seen(img, box)[i] - Margin(img)[Axis(i)]) * S) \div N, 4 * e)
    BY DEF Remap
  <2>3. Border(img)[Axis(i)] \in Int /\ Margin(img)[Axis(i)] \in Int
    BY Letterboxed DEF Axis
  <2>4. v * u \in Int
    BY <1>1
  <2>5. x \in Int
    BY <1>1, <2>4, NearestIs
  <2> DEFINE b == Border(img)[Axis(i)]  m == Margin(img)[Axis(i)]  y == Seen(img, box)[i]
  <2> HIDE DEF x, b, m, y
  <2>6. y - m = 4 * x - (m - b)
    <3>1. y = 4 * x + b /\ b \in Int /\ m \in Int
      BY <2>1, <2>3 DEF b, m, y
    <3> QED BY <2>5, <3>1
  <2>7. Remap(img, Seen(img, box))[i] = c
    BY <2>2, <2>6 DEF b, m, y
  <2> QED BY <2>7 DEF Whole
<1> HIDE DEF N, S, e, v, u, d
<1>5. u \in Int /\ 2 * (S * u) - 2 * (e * N) <= S /\ 2 * (e * N) - 2 * (S * u) <= S
  <2>1. e * N \in Int
    BY <1>1
  <2> QED BY <1>1, <1>3, <2>1, NearestIs
<1>6. x \in Int /\ 2 * (e * x) - 2 * (v * u) <= e /\ 2 * (v * u) - 2 * (e * x) <= e
  <2>1. v * u \in Int
    BY <1>1
  <2> QED BY <1>1, <2>1, NearestIs
<1> HIDE DEF x
<1>7. x * S - v * N <= S /\ v * N - x * S <= S
  BY <1>1, <1>5, <1>6, Landed
<1>8. t \in Int /\ N * t <= (4 * x - d) * S /\ (4 * x - d) * S < N * t + N
  <2> DEFINE w == (4 * x - d) * S
  <2>1. w \in Int
    <3>1. 4 * x - d \in Int
      BY <1>2, <1>6
    <3> QED BY <1>1, <3>1
  <2> HIDE DEF w
  <2>2. w \div N \in Int /\ w % N \in 0..(N - 1) /\ w = N * (w \div N) + (w % N)
    BY <1>1, <2>1, Divided
  <2>3. t = w \div N
    BY DEF w
  <2> HIDE DEF t
  <2>4. t \in Int /\ N * t <= w /\ w < N * t + N
    <3>1. N * t \in Int /\ w = N * t + (w % N)
      BY <1>1, <2>2, <2>3
    <3> QED BY <1>1, <2>1, <2>2, <2>3, <3>1
  <2> QED BY <2>4 DEF w
<1> HIDE DEF t
<1>9. N * (t - 4 * v) <= 6 * S + N /\ N * (4 * v - t) <= 6 * S + N
  BY <1>1, <1>2, <1>6, <1>7, <1>8, Returned4
<1>10. c \in Int /\ N * (c - 4 * v) <= 6 * S + N /\ N * (4 * v - c) <= 6 * S + N
  <2>0. v \in Nat /\ N \in Nat /\ S \in Nat /\ e \in Nat /\ v <= e
    BY <1>1
  <2>1. CASE t < 0
    <3>1. c = 0
      BY <2>1 DEF Clip
    <3>2. N * (4 * v - 0) <= N * (4 * v - t)
      BY <1>8, <2>0, <2>1, Scaled
    <3>3. N * (0 - 4 * v) <= N * 0
      BY <2>0, Scaled
    <3>4. N * (4 * v - t) \in Int /\ N * (4 * v - 0) \in Int /\ N * (0 - 4 * v) \in Int
      BY <1>8, <2>0
    <3> HIDE DEF c
    <3> QED BY <1>9, <2>0, <3>1, <3>2, <3>3, <3>4
  <2>2. CASE t > 4 * e
    <3>1. c = 4 * e /\ c \in Int
      BY <1>8, <2>0, <2>2 DEF Clip
    <3> HIDE DEF c
    <3>2. N * (c - 4 * v) <= N * (t - 4 * v)
      BY <1>8, <2>0, <2>2, <3>1, Scaled
    <3>3. N * (4 * v - c) <= N * 0
      BY <2>0, <3>1, Scaled
    <3>4. N * (t - 4 * v) \in Int /\ N * (c - 4 * v) \in Int /\ N * (4 * v - c) \in Int
      BY <1>8, <2>0, <3>1
    <3> QED BY <1>9, <2>0, <3>1, <3>2, <3>3, <3>4
  <2>3. CASE ~(t < 0) /\ ~(t > 4 * e)
    <3>1. c = t
      BY <2>3 DEF Clip
    <3> QED BY <1>8, <1>9, <3>1
  <2> QED BY <2>1, <2>2, <2>3
<1> HIDE DEF c
<1>11. p \in Int /\ 4 * p - c <= 2 /\ c - 4 * p <= 2
  <2>1. Nearest(c, 4) \in Int /\ 2 * (4 * Nearest(c, 4)) - 2 * c <= 4 /\ 2 * c - 2 * (4 * Nearest(c, 4)) <= 4
    BY <1>10, NearestIs
  <2>2. PICK k \in Int : k = Nearest(c, 4)
    BY <2>1
  <2> QED BY <1>10, <2>1, <2>2
<1> HIDE DEF p
<1>12. N * (4 * p - c) <= N * 2 /\ N * (c - 4 * p) <= N * 2
  BY <1>1, <1>10, <1>11, Scaled
<1>13. /\ 4 * N * (p - v) = N * (4 * p - c) + N * (c - 4 * v)
       /\ 4 * N * (v - p) = N * (c - 4 * p) + N * (4 * v - c)
  <2>1. N \in Int /\ p \in Int /\ v \in Int /\ c \in Int
    BY <1>1, <1>10, <1>11
  <2> QED BY <2>1
<1>14. /\ N * (4 * p - c) \in Int /\ N * (c - 4 * v) \in Int
       /\ N * (c - 4 * p) \in Int /\ N * (4 * v - c) \in Int
  <2>1. N \in Int /\ p \in Int /\ v \in Int /\ c \in Int
    BY <1>1, <1>10, <1>11
  <2> QED BY <2>1
<1>15. 4 * N * (p - v) <= 6 * S + 3 * N /\ 4 * N * (v - p) <= 6 * S + 3 * N
  BY <1>1, <1>10, <1>12, <1>13, <1>14
<1> QED BY <1>4, <1>11, <1>15 DEF N, S, v

HIDE DetectionAssumption

-----------------------------------------------------------------------------
(* Everything predict() returns lies in the picture.  Truthful needs to know *)
(* of every candidate of NMS which object it was decoded from, and that the  *)
(* contract is the one of the head.                                          *)

InPicture == \A i \in DOMAIN scene, s \in 1..4 : scene[i].box[s] <= Extent(image, s)
BoxFor(i) == IF contract.layout \in Boxed THEN Remap(image, Seen(image, scene[i].box))
             ELSE Seen(image, scene[i].box)
FoundFor(i) == Found(BoxFor(i), Confidence(head, scene[i]), scene[i].cls - 1, ExtraOf(head, i))
CandOfObjects ==
    phase = "nms" =>
        /\ contract.layout \in Boxed \union Tasked
        /\ DOMAIN cand \subseteq DOMAIN scene
        /\ \A i \in DOMAIN cand : cand[i] = FoundFor(i)
NoResult == phase \in {"convert", "deploy", "ready", "nms"} => result = <<>>
TruthInv == NmsInv /\ InPicture /\ CandOfObjects /\ NoResult /\ Truthful

(* A scene of the inputs, and the object a row stands for. *)
LEMMA SceneOf ==
    ASSUME NmsInv, ScenesFit, NEW i \in DOMAIN scene
    PROVE  /\ head \in Heads /\ image \in Pictures /\ scene \in Seq(Objects)
           /\ scene[i] \in Objects /\ i \in Nat
           /\ FindsBoxes(head) => scene[i].cls \in 1..head.nc /\ scene[i].conf > 0
<1>1. head \in Heads /\ image \in Pictures /\ scene \in Seq(Objects) /\ scene \in Scenes
  BY InputsAssumption DEF NmsInv, FromInputs, Pictures, Objects
<1>2. scene[i] \in Objects /\ i \in Nat
  BY <1>1
<1>3. scene[i] \in SceneObjects
  BY <1>1 DEF SceneObjects, Range
<1> QED BY <1>1, <1>2, <1>3 DEF ScenesFit

(* The contract of a head with boxes fits it. *)
LEMMA HeadOf ==
    ASSUME NEW hd \in Heads, HeadsFit, FindsBoxes(hd)
    PROVE  LET ct == DetectForTask(hd) IN
           /\ ct.nc \in Nat /\ ct.layout \in Boxed \union Tasked /\ Fits(hd, ct)
           /\ hd.layout \notin {"cls", "dense"}
           /\ ct.layout \in Boxed <=> hd.task = "detection"
           /\ ct.layout = "segment" => hd.layout = "segment"
<1> DEFINE ct == DetectForTask(hd)
<1>1. ct.nc \in Nat /\ ct.layout \in Boxed \union Tasked /\ Fits(hd, ct)
  BY ContractFits DEF HeadsFit, FindsBoxes
<1>2. hd.layout \notin {"cls", "dense"} /\ (ct.layout = "segment" => hd.layout = "segment")
  BY <1>1, ContractFits
<1>3. ct.layout \in Boxed <=> hd.task = "detection"
  <2>1. hd.task \in HeadTasks
    BY InputsAssumption
  <2>2. CASE hd.task = "detection"
    <3>1. hd.task \notin DOMAIN TaskLayout
      BY <2>2 DEF TaskLayout
    <3>2. ct = Detect(hd)
      BY <3>1 DEF DetectForTask
    <3>3. Detect(hd).layout \notin Tasked
      BY DEF Detect, DetectShape, Contract, Tasked
    <3> HIDE DEF ct
    <3> QED BY <1>1, <2>2, <3>2, <3>3
  <2>3. CASE hd.task # "detection"
    <3>1. hd.task \in {"segment", "pose", "obb", "cls", "depth", "sem"}
      BY <2>1, <2>3 DEF HeadTasks
    <3>2. hd.task \in DOMAIN TaskLayout /\ TaskLayout[hd.task] \notin Boxed
      BY <3>1 DEF TaskLayout, Boxed
    <3>3. ct = [Detect(hd) EXCEPT !.layout = TaskLayout[hd.task]]
      BY <3>2 DEF DetectForTask
    <3>4. "layout" \in DOMAIN Detect(hd)
      BY DEF Detect, DetectShape, Contract
    <3>5. ct.layout = TaskLayout[hd.task]
      BY <3>3, <3>4
    <3> QED BY <2>3, <3>2, <3>5
  <2> QED BY <2>2, <2>3
<1> QED BY <1>1, <1>2, <1>3

(* What is decoded of a row of a scene is the object the row stands for. *)
LEMMA CandidateIsObject ==
    ASSUME NmsInv, HeadsFit, ScenesFit, phase = "ready", contract.layout \in Boxed \union Tasked,
           NEW i \in DOMAIN scene
    PROVE  /\ Candidate(DecodeRow(Rows(head, image, scene)[i], contract)) = FoundFor(i)
           /\ DecodeRow(Rows(head, image, scene)[i], contract).score = Confidence(head, scene[i])
<1>1. /\ head \in Heads /\ image \in Pictures /\ scene[i] \in Objects /\ i \in Nat
      /\ FindsBoxes(head) => scene[i].cls \in 1..head.nc /\ scene[i].conf > 0
  BY SceneOf
<1>2. contract = DetectForTask(head)
  BY DEF NmsInv, AsDetected
<1>3. FindsBoxes(head)
  BY <1>2 DEF FindsBoxes
<1>4. /\ contract.nc \in Nat /\ Fits(head, contract) /\ head.layout \notin {"cls", "dense"}
      /\ contract.layout \in Boxed <=> head.task = "detection"
      /\ contract.layout = "segment" => head.layout = "segment"
  BY <1>1, <1>2, <1>3, HeadOf
<1>5. Rows(head, image, scene)[i] = Row(head, image, scene[i], i)
  BY DEF Rows
<1> DEFINE b == Seen(image, scene[i].box)  score == Confidence(head, scene[i])
           cls == scene[i].cls - 1  extra == ExtraOf(head, i)
<1>6. DecodeRow(Row(head, image, scene[i], i), contract) = Found(b, score, cls, extra)
  BY <1>1, <1>3, <1>4, ReadsObject
<1>9. DecodeRow(Rows(head, image, scene)[i], contract).score = Confidence(head, scene[i])
  BY <1>5, <1>6 DEF Found
<1> HIDE DEF b, score, cls, extra
<1>7. CASE contract.layout \in Boxed
  <2>1. Candidate(Found(b, score, cls, extra)) = Found(Remap(image, b), score, cls, extra)
    BY <1>7 DEF Candidate, Found
  <2> QED BY <1>5, <1>6, <1>7, <1>9, <2>1 DEF FoundFor, BoxFor, b, score, cls, extra
<1>8. CASE contract.layout \notin Boxed
  <2>1. Candidate(Found(b, score, cls, extra)) = Found(b, score, cls, extra)
    BY <1>8 DEF Candidate
  <2> QED BY <1>5, <1>6, <1>8, <1>9, <2>1 DEF FoundFor, BoxFor, b, score, cls, extra
<1> QED BY <1>7, <1>8, <1>9

(* Scores and places rank what was kept. *)
LEMMA EarlierRanks ==
    ASSUME \A k \in DOMAIN kept : cand[kept[k]].score \in Int, DOMAIN kept \subseteq Nat,
           NEW S \in SUBSET DOMAIN kept
    PROVE  Orders(Earlier, S)
<1> DEFINE v == [k \in DOMAIN kept |-> cand[kept[k]].score]
<1>1. \A k \in S : v[k] \in Int /\ k \in Int
  OBVIOUS
<1>2. \A j, k \in S : <<j, k>> \in Earlier <=> (v[j] > v[k] \/ (v[j] = v[k] /\ j < k))
  <2> SUFFICES ASSUME NEW j \in S, NEW k \in S
               PROVE  <<j, k>> \in Earlier <=> (v[j] > v[k] \/ (v[j] = v[k] /\ j < k))
    OBVIOUS
  <2>1. v[j] = cand[kept[j]].score /\ v[k] = cand[kept[k]].score
    OBVIOUS
  <2> HIDE DEF v
  <2> DEFINE p == <<j, k>>
  <2>2. p \in (DOMAIN kept) \X (DOMAIN kept) /\ p[1] = j /\ p[2] = k
    OBVIOUS
  <2> HIDE DEF p
  <2>3. p \in Earlier <=> (v[j] > v[k] \/ (v[j] = v[k] /\ j < k))
    BY <2>1, <2>2 DEF Earlier
  <2> QED BY <2>3 DEF p
<1> HIDE DEF v
<1>3. \A x \in S : <<x, x>> \notin Earlier
  BY <1>1, <1>2
<1>4. \A x, y \in S : x = y \/ <<x, y>> \in Earlier \/ <<y, x>> \in Earlier
  <2> SUFFICES ASSUME NEW x \in S, NEW y \in S, x # y PROVE <<x, y>> \in Earlier \/ <<y, x>> \in Earlier
    OBVIOUS
  <2>1. v[x] \in Int /\ v[y] \in Int /\ x \in Int /\ y \in Int
    BY <1>1
  <2>2. \/ v[x] > v[y] \/ (v[x] = v[y] /\ x < y)
        \/ v[y] > v[x] \/ (v[y] = v[x] /\ y < x)
    BY <2>1
  <2> QED BY <1>2, <2>2
<1>5. ASSUME NEW x \in S, NEW y \in S, NEW z \in S, <<x, y>> \in Earlier, <<y, z>> \in Earlier
      PROVE  <<x, z>> \in Earlier
  <2>1. v[x] \in Int /\ v[y] \in Int /\ v[z] \in Int /\ x \in Int /\ y \in Int /\ z \in Int
    BY <1>1
  <2>2. v[x] > v[y] \/ (v[x] = v[y] /\ x < y)
    BY <1>2, <1>5
  <2>3. v[y] > v[z] \/ (v[y] = v[z] /\ y < z)
    BY <1>2, <1>5
  <2>4. v[x] > v[z] \/ (v[x] = v[z] /\ x < z)
    BY <2>1, <2>2, <2>3
  <2> QED BY <1>2, <2>4
<1> QED BY <1>3, <1>4, <1>5 DEF Orders

(* Of what was kept, as much as max_det allows is returned. *)
LEMMA ReturnedIsKept ==
    ASSUME kept \in Seq(DOMAIN cand), \A i \in DOMAIN cand : cand[i].score \in Int
    PROVE  /\ Returned \subseteq DOMAIN kept /\ IsFiniteSet(Returned)
           /\ Orders(Earlier, Returned)
<1> DEFINE n == Len(kept)
           order == Ranked(DOMAIN kept, Earlier)
<1>1. n \in Nat /\ DOMAIN kept = 1..n /\ \A k \in DOMAIN kept : kept[k] \in DOMAIN cand
  OBVIOUS
<1>2. IsFiniteSet(DOMAIN kept) /\ Cardinality(DOMAIN kept) = n
  BY <1>1, FS_Interval
<1>3. \A k \in DOMAIN kept : cand[kept[k]].score \in Int
  BY <1>1
<1>4. DOMAIN kept \subseteq Nat
  BY <1>1
<1>5. \A S \in SUBSET DOMAIN kept : Orders(Earlier, S)
  BY <1>3, <1>4, EarlierRanks
<1>6. order \in [1..n -> DOMAIN kept]
  BY <1>2, <1>5, RankedIs DEF Ranking
<1> HIDE DEF order
<1>7. Min({MaxDet, n}) <= n /\ Min({MaxDet, n}) \in Int
  <2>1. MaxDet \in Int
    BY DetectionAssumption
  <2>2. \E z \in {MaxDet, n} : \A w \in {MaxDet, n} : z <= w
    BY <1>1, <2>1
  <2> HIDE DEF n
  <2>3. Min({MaxDet, n}) \in {MaxDet, n} /\ \A w \in {MaxDet, n} : Min({MaxDet, n}) <= w
    BY <2>2 DEF Min
  <2> QED BY <1>1, <2>1, <2>3
<1>8. Best \subseteq DOMAIN kept
  <2>1. Best = {order[k] : k \in 1..Min({MaxDet, n})}
    BY DEF Best, order
  <2>2. \A k \in 1..Min({MaxDet, n}) : k \in 1..n
    BY <1>1, <1>7
  <2> QED BY <1>6, <2>1, <2>2
<1>9. Returned \in SUBSET DOMAIN kept
  BY <1>8 DEF Returned
<1>10. IsFiniteSet(Returned)
  BY <1>2, <1>9, FS_Subset
<1> QED BY <1>5, <1>9, <1>10

(* A whole box of the runtime is where the object is. *)
LEMMA NearObject ==
    ASSUME NmsInv, InPicture, ScenesFit, NEW i \in DOMAIN scene, NEW s \in 1..4
    PROVE  Near(Whole(Remap(image, Seen(image, scene[i].box)))[s], scene[i].box[s])
<1> DEFINE p == Whole(Remap(image, Seen(image, scene[i].box)))[s]
           v == scene[i].box[s]
<1>1. image \in Pictures /\ scene[i].box \in [1..4 -> Nat] /\ scene[i].box[s] <= Extent(image, s)
  BY SceneOf DEF InPicture, Objects
<1>2. /\ p \in Int
      /\ 4 * Net * (p - v) <= 6 * Side(image) + 3 * Net
      /\ 4 * Net * (v - p) <= 6 * Side(image) + 3 * Net
  BY <1>1, ComesBack
<1>3. v \in Int
  BY <1>1
<1> HIDE DEF p, v
<1>4. p - v \in Int /\ v - p \in Int
  BY <1>2, <1>3
<1>5. Max({p - v, v - p}) = p - v \/ Max({p - v, v - p}) = v - p
  BY <1>4, MaxOfTwo
<1>6. 4 * Net * Max({p - v, v - p}) <= 6 * Side(image) + 3 * Net
  BY <1>2, <1>5
<1> QED BY <1>6 DEF Near, p, v

(* The object that is returned for a candidate. *)
LEMMA ObjectIsObject ==
    ASSUME NmsInv, InPicture, ScenesFit, NEW i \in DOMAIN scene, NEW c, c = FoundFor(i)
    PROVE  IsObject(Object(c), i)
<1> DEFINE o == Object(c)
<1>1. /\ c.box = BoxFor(i) /\ c.score = Confidence(head, scene[i])
      /\ c.cls = scene[i].cls - 1 /\ c.extra = ExtraOf(head, i)
  BY DEF FoundFor, Found
<1>2. /\ o.id = c.cls + 1 /\ o.score = c.score /\ o.extra = c.extra
      /\ o.box = Whole(IF contract.layout \in Boxed THEN c.box ELSE Remap(image, c.box))
  BY DEF Object
<1> HIDE DEF o
<1>3. o.id = scene[i].cls
  <2>1. scene[i].cls \in Nat
    BY SceneOf DEF Objects
  <2> QED BY <1>1, <1>2, <2>1
<1>4. o.box = Whole(Remap(image, Seen(image, scene[i].box)))
  BY <1>1, <1>2 DEF BoxFor
<1>5. \A s \in 1..4 : Near(o.box[s], scene[i].box[s])
  BY <1>4, NearObject
<1>6. o.score = Confidence(head, scene[i]) /\ o.extra = ObjectExtra(i)
  BY <1>1, <1>2 DEF ExtraOf, ObjectExtra
<1>7. IsObject(o, i)
  BY <1>3, <1>5, <1>6 DEF IsObject
<1> QED BY <1>7 DEF o

(* The answer of Finish: each object once, and where it is. *)
LEMMA FinishTruth ==
    ASSUME TruthInv, ScenesFit, Finish
    PROVE  Truthful'
<1> DEFINE order == Ranked(Returned, Earlier)
           n == Cardinality(Returned)
           f == [k \in DOMAIN order |-> kept[order[k]]]
<1>1. /\ phase = "nms" /\ result' = [k \in DOMAIN order |-> Object(cand[kept[order[k]]])]
      /\ head' = head /\ image' = image /\ scene' = scene /\ contract' = contract
  BY DEF Finish, inputs
<1>2. /\ NmsInv /\ InPicture /\ DOMAIN cand \subseteq DOMAIN scene
      /\ \A i \in DOMAIN cand : cand[i] = FoundFor(i)
      /\ kept \in Seq(DOMAIN cand)
      /\ \A a, b \in DOMAIN kept : kept[a] = kept[b] => a = b
  BY <1>1 DEF TruthInv, CandOfObjects, NmsInv, RowsOfCand, KeptOnce
<1>3. \A i \in DOMAIN cand : cand[i].score \in Int
  <2> SUFFICES ASSUME NEW i \in DOMAIN cand PROVE cand[i].score \in Int
    OBVIOUS
  <2>1. cand[i].score = Confidence(head, scene[i])
    BY <1>2 DEF FoundFor, Found
  <2>2. Confidence(head, scene[i]) \in Nat
    BY <1>2, SceneOf, PartsOf
  <2> QED BY <2>1, <2>2
<1>4. Returned \subseteq DOMAIN kept /\ IsFiniteSet(Returned) /\ Orders(Earlier, Returned)
  BY <1>2, <1>3, ReturnedIsKept
<1>5. Ranking(order, Returned, Earlier)
  BY <1>4, RankedIs
<1> HIDE DEF order
<1>6. /\ DOMAIN order = 1..n /\ \A k \in 1..n : order[k] \in Returned
      /\ \A j, k \in 1..n : order[j] = order[k] => j = k
  BY <1>5 DEF Ranking
<1> HIDE DEF n
<1>7. \A k \in DOMAIN order : kept[order[k]] \in DOMAIN cand
  BY <1>2, <1>4, <1>6
<1>8. f \in [DOMAIN order -> DOMAIN scene]
  BY <1>2, <1>7
<1>9. \A j, k \in DOMAIN f : f[j] = f[k] => j = k
  BY <1>2, <1>4, <1>6
<1>10. \A k \in DOMAIN result' : IsObject(result'[k], f[k])
  <2> SUFFICES ASSUME NEW k \in DOMAIN order PROVE IsObject(Object(cand[kept[order[k]]]), kept[order[k]])
    BY <1>1
  <2>1. kept[order[k]] \in DOMAIN cand /\ kept[order[k]] \in DOMAIN scene
    BY <1>2, <1>7
  <2>2. cand[kept[order[k]]] = FoundFor(kept[order[k]])
    BY <1>2, <2>1
  <2> QED BY <1>2, <2>1, <2>2, ObjectIsObject
<1>11. DOMAIN result' = DOMAIN order
  BY <1>1
<1> HIDE DEF f
<1>12. PICK g : g = f
  OBVIOUS
<1>13. g \in [DOMAIN result' -> DOMAIN scene'] /\ IsInjective(g)
  BY <1>1, <1>8, <1>9, <1>11, <1>12 DEF IsInjective
<1>14. \A k \in DOMAIN result' : IsObject(result[k], g[k])'
  <2> SUFFICES ASSUME NEW k \in DOMAIN result' PROVE IsObject(result[k], g[k])'
    OBVIOUS
  <2>1. IsObject(result'[k], g[k])
    BY <1>10, <1>12
  <2> QED BY <1>1, <2>1 DEF IsObject, Near, ObjectExtra
<1> QED BY <1>13, <1>14 DEF Truthful

(* The steps that settle an answer, or look at what is settled. *)
LEMMA TruthStays ==
    ASSUME Truthful, phase \in {"predicted", "answered", "failed"},
           UNCHANGED <<inputs, contract, result>>
    PROVE  Truthful'
BY DEF Truthful, IsObject, Near, ObjectExtra, inputs

(* The first picture has no answer yet. *)
LEMMA InitTruth == Init => TruthInv
<1> SUFFICES ASSUME Init PROVE TruthInv
  OBVIOUS
<1>1. NmsInv
  BY InitNms
<1>2. InPicture /\ CandOfObjects /\ NoResult /\ Truthful
  BY DEF Init, InPicture, CandOfObjects, NoResult, Truthful
<1> QED BY <1>1, <1>2 DEF TruthInv

(* predict_boxes decodes every row to the object it stands for. *)
LEMMA PredictTruth ==
    ASSUME TruthInv, HeadsFit, ScenesFit, PredictBoxes
    PROVE  TruthInv'
<1> DEFINE rows == Rows(head, image, scene)
           found == Decode(rows, contract)
<1>1. /\ phase = "ready" /\ contract.layout \in Boxed \union Tasked
      /\ cand' = [i \in DOMAIN found |-> Candidate(found[i])]
      /\ phase' = (IF DOMAIN found = {} THEN "predicted" ELSE "nms")
      /\ contract' = contract /\ head' = head /\ image' = image /\ scene' = scene /\ result' = result
  BY DEF PredictBoxes, inputs
<1>2. NmsInv /\ InPicture /\ result = <<>>
  BY <1>1 DEF TruthInv, NoResult
<1>3. NmsInv'
  BY <1>2, PredictStep
<1>4. DOMAIN found \subseteq DOMAIN scene
      /\ \A i \in DOMAIN found : found[i] = DecodeRow(rows[i], contract)
  BY DEF Decode, Rows, Restrict
<1>5. \A i \in DOMAIN found : cand'[i] = FoundFor(i)
  <2> SUFFICES ASSUME NEW i \in DOMAIN found PROVE Candidate(found[i]) = FoundFor(i)
    BY <1>1
  <2>1. i \in DOMAIN scene /\ found[i] = DecodeRow(rows[i], contract)
    BY <1>4
  <2> QED BY <1>1, <1>2, <2>1, CandidateIsObject
<1>6. DOMAIN cand' = DOMAIN found
  BY <1>1
<1> HIDE DEF found
<1>7. CandOfObjects'
  <2>1. \A i \in DOMAIN cand' : cand'[i] = FoundFor(i)'
    BY <1>1, <1>5, <1>6 DEF FoundFor, BoxFor
  <2>2. DOMAIN cand' \subseteq DOMAIN scene' /\ (contract.layout \in Boxed \union Tasked)'
    BY <1>1, <1>4, <1>6
  <2> QED BY <2>1, <2>2 DEF CandOfObjects
<1>8. InPicture' /\ NoResult'
  BY <1>1, <1>2 DEF InPicture, NoResult
<1>9. Truthful'
  <2> DEFINE f == <<>>
  <2>1. result' = <<>> /\ DOMAIN result' = {}
    BY <1>1, <1>2
  <2>2. f \in [DOMAIN result' -> DOMAIN scene'] /\ IsInjective(f)
    BY <2>1 DEF IsInjective
  <2>3. \A i \in DOMAIN result' : IsObject(result[i], f[i])'
    BY <2>1
  <2> HIDE DEF f
  <2> QED BY <2>2, <2>3 DEF Truthful
<1> QED BY <1>3, <1>7, <1>8, <1>9 DEF TruthInv

(* Every step leaves an answer that is true of the picture. *)
LEMMA NextTruth == HeadsFit /\ ScenesFit /\ TruthInv /\ [Next]_vars => TruthInv'
<1> SUFFICES ASSUME HeadsFit, ScenesFit, TruthInv, [Next]_vars PROVE TruthInv'
  OBVIOUS
<1>1. NmsInv /\ NmsInv'
  BY NextNms DEF TruthInv
<1> DEFINE Same == head' = head /\ image' = image /\ scene' = scene
<1>2. Same => InPicture'
  BY DEF TruthInv, InPicture
<1>3. CASE Convert
  BY <1>1, <1>2, <1>3 DEF Convert, inputs, TruthInv, CandOfObjects, NoResult, Truthful
<1>4. CASE Deploy
  BY <1>1, <1>2, <1>4 DEF Deploy, inputs, TruthInv, CandOfObjects, NoResult, Truthful
<1>5. CASE PredictBoxes
  BY <1>5, PredictTruth
<1>6. CASE PredictMap
  <2>1. contract'.layout \notin Boxed \union Tasked
    BY <1>6 DEF PredictMap, Boxed, Tasked
  <2> QED BY <1>1, <1>2, <1>6, <2>1 DEF PredictMap, inputs, TruthInv, CandOfObjects, NoResult, Truthful
<1>7. CASE Suppress
  <2>1. /\ phase = "nms" /\ phase' = phase /\ contract' = contract /\ cand' = cand /\ result' = result
        /\ head' = head /\ image' = image /\ scene' = scene
    BY <1>7 DEF Suppress, inputs
  <2>2. CandOfObjects'
    BY <2>1 DEF TruthInv, CandOfObjects, FoundFor, BoxFor
  <2> QED BY <1>1, <1>2, <2>1, <2>2 DEF TruthInv, NoResult, Truthful
<1>8. CASE Finish
  <2>1. Truthful'
    BY <1>8, FinishTruth
  <2>2. phase' = "predicted" /\ Same
    BY <1>8 DEF Finish, inputs
  <2> QED BY <1>1, <1>2, <2>1, <2>2 DEF TruthInv, CandOfObjects, NoResult
<1>9. CASE FormatObjects \/ FormatClasses \/ FormatMap
  <2>1. /\ phase = "predicted" /\ phase' \in {"answered", "failed"} /\ Same
        /\ UNCHANGED <<inputs, contract, result>>
    BY <1>9 DEF FormatObjects, FormatClasses, FormatMap, inputs
  <2>2. Truthful'
    BY <2>1, TruthStays DEF TruthInv
  <2> QED BY <1>1, <1>2, <2>1, <2>2 DEF TruthInv, CandOfObjects, NoResult
<1>10. CASE UNCHANGED vars
  <2>1. CandOfObjects'
    BY <1>10 DEF vars, inputs, TruthInv, CandOfObjects, FoundFor, BoxFor
  <2>2. Truthful'
    BY <1>10 DEF vars, inputs, TruthInv, Truthful, IsObject, Near, ObjectExtra
  <2> QED BY <1>1, <1>2, <1>10, <2>1, <2>2 DEF vars, inputs, TruthInv, NoResult
<1> QED BY <1>3, <1>4, <1>5, <1>6, <1>7, <1>8, <1>9, <1>10 DEF Next

(* Every object predict() returns is one of the picture, at its place within *)
(* the rounding, with its class, score and what belongs to it, and none is   *)
(* returned twice: for every network the runtime's counting of columns fits. *)
THEOREM AnswersAreTrue ==
    ASSUME HeadsFit, ScenesFit
    PROVE  Spec => []Truthful
<1>1. TruthInv /\ [Next]_vars => TruthInv'
  BY NextTruth
<1>2. TruthInv => Truthful
  BY DEF TruthInv
<1> QED BY <1>1, <1>2, InitTruth, PTL DEF Spec

(* A head that is what the converter was told: the class count is declared,  *)
(* and no other layout has its columns.                                      *)
Declared(hd) ==
    /\ hd.nc > 0 /\ hd.hint = hd.nc
    /\ \/ hd.task = "detection" /\ hd.layout = "bcn" /\ hd.extra = 0
       \/ hd.task = "detection" /\ hd.layout = "bnc" /\ hd.extra = 0 /\ Columns(hd) # 6
       \/ hd.task = "detection" /\ hd.layout \in {"bnc6", "embedded"}
       \/ hd.task = "detection" /\ hd.layout = "pair" /\ ~hd.obj
       \/ hd.task = "segment" /\ hd.layout = "segment" /\ hd.extra = NumMasks
       \/ hd.task = "pose" /\ hd.layout = "pose" /\ hd.extra % 3 = 0
       \/ hd.task = "obb" /\ hd.layout = "obb" /\ hd.extra = 1 /\ ~hd.obj

(* The contract detected on the shape of an output keeps the class count     *)
(* that was declared.                                                        *)
LEMMA ShapeKeepsCount ==
    ASSUME NEW shape, NEW nc \in Nat, nc > 0
    PROVE  /\ DetectShape(shape, nc).nc = nc
           /\ shape[2] = 6 => DetectShape(shape, nc).layout = "bnc6"
           /\ shape[2] # 6 => DetectShape(shape, nc).layout \in {"bnc", "bcn", "unknown"}
<1>1. \A n : FillNumClasses(n, nc) = nc
  BY DEF FillNumClasses
<1>2. CASE shape[2] = 6
  BY <1>2 DEF DetectShape, Contract
<1>3. CASE shape[2] # 6 /\ MatchesChannels(shape[2], nc)
  BY <1>1, <1>3 DEF DetectShape, Contract
<1>4. CASE shape[2] # 6 /\ ~MatchesChannels(shape[2], nc) /\ MatchesChannels(shape[1], nc)
  BY <1>1, <1>4 DEF DetectShape, Contract
<1>5. CASE shape[2] # 6 /\ ~MatchesChannels(shape[2], nc) /\ ~MatchesChannels(shape[1], nc)
  BY <1>5 DEF DetectShape, Contract
<1> QED BY <1>2, <1>3, <1>4, <1>5

(* The decoders read the heads whose class count was declared, except those  *)
(* with six columns, unless there are only six candidates.                   *)
THEOREM DeclaredHeadsFit ==
    ASSUME \A hd \in Heads : FindsBoxes(hd) => Declared(hd), Candidates # 6
    PROVE  HeadsFit
<1> SUFFICES ASSUME NEW hd \in Heads, FindsBoxes(hd), Declared(hd)
             PROVE  Fits(hd, DetectForTask(hd))
  BY DEF HeadsFit
<1> DEFINE ct == DetectForTask(hd)
           dt == DetectShape(Shape(hd), hd.hint)
<1>1. hd.nc \in Nat /\ hd.nc > 0 /\ hd.hint = hd.nc /\ ct.layout \in Boxed \union Tasked
  BY InputsAssumption DEF Declared, FindsBoxes
<1>2. /\ dt.nc = hd.nc
      /\ Shape(hd)[2] = 6 => dt.layout = "bnc6"
      /\ Shape(hd)[2] # 6 => dt.layout \in {"bnc", "bcn", "unknown"}
  BY <1>1, ShapeKeepsCount
<1>3. ASSUME hd.task = "detection", hd.layout \notin {"pair", "embedded"} PROVE ct = dt
  <2>1. hd.task \notin DOMAIN TaskLayout
    BY <1>3 DEF TaskLayout
  <2> QED BY <1>3, <2>1 DEF DetectForTask, Detect
<1>4. ASSUME hd.task \in Tasked, hd.layout \notin {"pair", "embedded"}
      PROVE  ct.nc = hd.nc /\ ct.layout = hd.task
  <2>1. hd.task \in DOMAIN TaskLayout /\ TaskLayout[hd.task] = hd.task
    BY <1>4 DEF TaskLayout, Tasked
  <2>2. Detect(hd) = dt
    BY <1>4 DEF Detect
  <2>3. ct = [dt EXCEPT !.layout = hd.task]
    BY <2>1, <2>2 DEF DetectForTask
  <2>4. "layout" \in DOMAIN dt
    BY DEF DetectShape, Contract
  <2> HIDE DEF ct, dt
  <2> QED BY <1>2, <2>3, <2>4
<1>5. CASE hd.task = "detection" /\ hd.layout \in {"bcn", "bnc"} /\ hd.extra = 0 /\ Shape(hd)[2] # 6
  <2>1. ct = dt
    BY <1>3, <1>5
  <2>2. ct.layout \in {"bcn", "bnc"} /\ ct.nc = hd.nc
    BY <1>1, <1>2, <1>5, <2>1 DEF Boxed, Tasked
  <2> HIDE DEF ct, dt
  <2>3. ct.nc >= hd.nc /\ (hd.obj => ct.nc = hd.nc)
    BY <1>1, <2>2
  <2>4. Fits(hd, ct) <=> hd.nc > 0 /\ hd.layout \in {"bcn", "bnc"} /\ hd.extra = 0
                         /\ ct.nc >= hd.nc /\ (hd.obj => ct.nc = hd.nc)
    BY <2>2 DEF Fits
  <2>5. Fits(hd, ct)
    BY <1>1, <1>5, <2>3, <2>4
  <2> QED BY <2>5 DEF ct
<1>6. CASE hd.task = "detection" /\ hd.layout = "bcn" /\ hd.extra = 0
  <2>1. Shape(hd)[2] = Candidates
    BY <1>6 DEF Shape
  <2> QED BY <1>5, <1>6, <2>1
<1>7. CASE hd.task = "detection" /\ hd.layout = "bnc" /\ hd.extra = 0 /\ Columns(hd) # 6
  <2>1. Shape(hd)[2] = Columns(hd)
    BY <1>7 DEF Shape
  <2> QED BY <1>5, <1>7, <2>1
<1>8. CASE hd.task = "detection" /\ hd.layout = "bnc6"
  <2>1. Shape(hd)[2] = 6
    BY <1>8 DEF Shape, Columns
  <2>2. ct.layout = "bnc6"
    BY <1>2, <1>3, <1>8, <2>1
  <2> HIDE DEF ct
  <2> QED BY <1>1, <1>8, <2>2 DEF Fits, ct
<1>9. CASE hd.task = "detection" /\ hd.layout \in {"embedded", "pair"}
  <2>1. hd.task \notin DOMAIN TaskLayout
    BY <1>9 DEF TaskLayout
  <2>2. ct = Detect(hd)
    BY <2>1 DEF DetectForTask
  <2>3. CASE hd.layout = "embedded"
    <3>1. ct.layout = "bnc6"
      BY <2>2, <2>3 DEF Detect, Contract
    <3> HIDE DEF ct
    <3> QED BY <1>1, <2>3, <3>1 DEF Fits, ct
  <2>4. CASE hd.layout = "pair"
    <3>1. ct.layout = "pair"
      BY <2>2, <2>4 DEF Detect, Contract
    <3>2. ~hd.obj
      BY <1>9, <2>4 DEF Declared
    <3> HIDE DEF ct
    <3> QED BY <1>1, <2>4, <3>1, <3>2 DEF Fits, ct
  <2> QED BY <1>9, <2>3, <2>4
<1>10. CASE hd.task = "segment" /\ hd.layout = "segment" /\ hd.extra = NumMasks
  <2>1. ct.nc = hd.nc /\ ct.layout = "segment"
    BY <1>4, <1>10 DEF Tasked
  <2> HIDE DEF ct
  <2> QED BY <1>1, <1>10, <2>1 DEF Fits, ct
<1>11. CASE hd.task = "pose" /\ hd.layout = "pose" /\ hd.extra % 3 = 0
  <2>1. ct.nc = hd.nc /\ ct.layout = "pose"
    BY <1>4, <1>11 DEF Tasked
  <2> HIDE DEF ct
  <2> QED BY <1>1, <1>11, <2>1 DEF Fits, ct
<1>12. CASE hd.task = "obb" /\ hd.layout = "obb" /\ hd.extra = 1 /\ ~hd.obj
  <2>1. ct.nc = hd.nc /\ ct.layout = "obb"
    BY <1>4, <1>12 DEF Tasked
  <2> HIDE DEF ct
  <2> QED BY <1>1, <1>12, <2>1 DEF Fits, ct
<1> QED BY <1>6, <1>7, <1>8, <1>9, <1>10, <1>11, <1>12 DEF Declared

-----------------------------------------------------------------------------
(* No object is lost.  NMS drops a row only for a better one that overlaps   *)
(* it (NmsSound), max_det cuts from the bottom of a ranking, and the table   *)
(* lists what reaches its threshold.  What is left to the hypotheses is      *)
(* arithmetic: PlacesFit that of the letterbox, TablesFit that of round().   *)

(* More rows were kept, of no lower score, than max_det allows. *)
Crowded(score) == Cardinality({k \in Range(kept) : cand[k].score >= score}) > MaxDet

(* That is why a kept row is cut. *)
LEMMA CutIsCrowded ==
    ASSUME kept \in Seq(DOMAIN cand), \A i \in DOMAIN cand : cand[i].score \in Int,
           \A a, b \in DOMAIN kept : kept[a] = kept[b] => a = b,
           NEW p \in DOMAIN kept, p \notin Best, NEW score \in Int, cand[kept[p]].score >= score
    PROVE  Crowded(score)
<1> DEFINE n == Len(kept)
           order == Ranked(DOMAIN kept, Earlier)
           T == {k \in Range(kept) : cand[k].score >= score}
<1>1. n \in Nat /\ DOMAIN kept = 1..n /\ \A k \in 1..n : kept[k] \in DOMAIN cand
  OBVIOUS
<1>2. IsFiniteSet(DOMAIN kept) /\ Cardinality(DOMAIN kept) = n
  BY <1>1, FS_Interval
<1>3. \A k \in DOMAIN kept : cand[kept[k]].score \in Int
  BY <1>1
<1>4. Orders(Earlier, DOMAIN kept)
  <2>1. DOMAIN kept \subseteq Nat /\ DOMAIN kept \in SUBSET DOMAIN kept
    BY <1>1
  <2> QED BY <1>3, <2>1, EarlierRanks
<1>5. Ranking(order, DOMAIN kept, Earlier)
  BY <1>2, <1>4, RankedIs
<1>6. Best = {order[k] : k \in 1..Min({MaxDet, n})}
  BY DEF Best
<1> HIDE DEF order
<1>7. /\ \A j, k \in 1..n : order[j] = order[k] => j = k
      /\ \A j, k \in 1..n : j < k <=> <<order[j], order[k]>> \in Earlier
      /\ \A k \in 1..n : order[k] \in DOMAIN kept
      /\ \E k \in 1..n : order[k] = p
  BY <1>2, <1>5 DEF Ranking
<1>8. PICK q \in 1..n : order[q] = p
  BY <1>7
<1>9. q > MaxDet /\ q \in Nat
  <2>1. MaxDet \in Int
    BY DetectionAssumption
  <2>2. q \notin 1..Min({MaxDet, n})
    BY <1>6, <1>8
  <2>3. \E z \in {MaxDet, n} : \A w \in {MaxDet, n} : z <= w
    BY <1>1, <2>1
  <2> HIDE DEF n
  <2>4. Min({MaxDet, n}) = MaxDet \/ Min({MaxDet, n}) = n
    BY <2>3 DEF Min
  <2> QED BY <1>1, <1>8, <2>1, <2>2, <2>4
<1> DEFINE f == [k \in 1..q |-> kept[order[k]]]
<1>10. \A k \in 1..q : k \in 1..n /\ f[k] \in T
  <2> SUFFICES ASSUME NEW k \in 1..q PROVE k \in 1..n /\ f[k] \in T
    OBVIOUS
  <2>1. k \in 1..n /\ order[k] \in DOMAIN kept
    BY <1>1, <1>7, <1>8
  <2>2. k < q \/ k = q
    BY <1>8
  <2>3. cand[kept[order[k]]].score >= cand[kept[p]].score
    <3>1. CASE k = q
      BY <1>3, <1>8, <3>1
    <3>2. CASE k < q
      <4> DEFINE e == <<order[k], p>>
      <4>1. e \in Earlier
        BY <1>7, <1>8, <2>1, <3>2
      <4>2. e[1] = order[k] /\ e[2] = p
        OBVIOUS
      <4> HIDE DEF e
      <4>3. \/ cand[kept[order[k]]].score > cand[kept[p]].score
            \/ cand[kept[order[k]]].score = cand[kept[p]].score
        BY <4>1, <4>2 DEF Earlier
      <4> QED BY <1>3, <2>1, <4>3
    <3> QED BY <2>2, <3>1, <3>2
  <2>4. cand[kept[order[k]]].score \in Int /\ cand[kept[p]].score \in Int
    BY <1>3, <2>1
  <2>5. cand[kept[order[k]]].score >= score
    BY <2>3, <2>4
  <2>6. kept[order[k]] \in Range(kept)
    BY <2>1 DEF Range
  <2> QED BY <2>1, <2>5, <2>6
<1>11. f \in Injection(1..q, T)
  <2>1. f \in [1..q -> T]
    BY <1>10
  <2>2. \A a, b \in 1..q : f[a] = f[b] => a = b
    BY <1>7, <1>10
  <2> HIDE DEF f, T
  <2> QED BY <2>1, <2>2, Fun_IsInj
<1>12. IsFiniteSet(T)
  <2>1. kept \in Surjection(1..n, Range(kept))
    BY <1>1 DEF Range, Surjection
  <2>2. IsFiniteSet(1..n)
    BY <1>1, <1>2
  <2>3. IsFiniteSet(Range(kept))
    BY <2>1, <2>2, FS_Surjection
  <2>4. T \in SUBSET Range(kept)
    OBVIOUS
  <2> HIDE DEF T
  <2> QED BY <2>3, <2>4, FS_Subset
<1>13. Cardinality(1..q) = q
  BY <1>9, FS_Interval
<1>14. q <= Cardinality(T) /\ Cardinality(T) \in Nat
  <2> HIDE DEF f, T
  <2> QED BY <1>11, <1>12, <1>13, FS_Injection, FS_CardinalityType
<1> HIDE DEF T
<1>15. Cardinality(T) > MaxDet
  <2>1. MaxDet \in Int
    BY DetectionAssumption
  <2> QED BY <1>9, <1>14, <2>1
<1> QED BY <1>15 DEF Crowded, T

(* Scores are numbers. *)
LEMMA ScoresOfCand ==
    ASSUME TruthInv, ScenesFit, phase = "nms"
    PROVE  \A i \in DOMAIN cand : cand[i].score \in Int
<1> SUFFICES ASSUME NEW i \in DOMAIN cand PROVE cand[i].score \in Int
  OBVIOUS
<1>1. NmsInv /\ i \in DOMAIN scene /\ cand[i] = FoundFor(i)
  BY DEF TruthInv, CandOfObjects
<1>2. cand[i].score = Confidence(head, scene[i])
  BY <1>1 DEF FoundFor, Found
<1>3. Confidence(head, scene[i]) \in Nat
  BY <1>1, SceneOf, PartsOf
<1> QED BY <1>2, <1>3

(* When no row is left, an object in sight was kept, or a rival of it was. *)
LEMMA RivalKept ==
    ASSUME TruthInv, HeadsFit, ScenesFit, PlacesFit, phase = "nms", rest = {},
           NEW i \in DOMAIN cand, Visible(scene[i])
    PROVE  \E m \in Range(kept) :
              /\ m \in Rivals(i) \union {i}
              /\ cand[m].score >= Confidence(head, scene[i])
              /\ contract.layout \in Boxed => ~Narrow(cand[m].box)
<1>1. /\ NmsInv /\ InPicture /\ contract.layout \in Boxed \union Tasked
      /\ DOMAIN cand \subseteq DOMAIN scene
      /\ \A k \in DOMAIN cand : cand[k] = FoundFor(k)
      /\ kept \in Seq(DOMAIN cand) /\ NmsSound
  BY DEF TruthInv, CandOfObjects, NmsInv, RowsOfCand
<1>2. \A k \in DOMAIN cand : /\ k \in DOMAIN scene /\ cand[k].box = BoxFor(k)
                             /\ cand[k].score = Confidence(head, scene[k])
                             /\ cand[k].cls = scene[k].cls - 1
  BY <1>1 DEF FoundFor, Found
<1>3. \A k \in DOMAIN cand : Confidence(head, scene[k]) \in Nat /\ scene[k].cls \in Nat
  <2> SUFFICES ASSUME NEW k \in DOMAIN cand PROVE Confidence(head, scene[k]) \in Nat /\ scene[k].cls \in Nat
    OBVIOUS
  <2>1. head \in Heads /\ image \in Pictures /\ scene[k] \in Objects /\ k \in Nat
    BY <1>1, SceneOf
  <2> QED BY <2>1, PartsOf DEF Objects
<1>4. ASSUME contract.layout \in Boxed, NEW k \in DOMAIN cand
      PROVE  /\ ~Narrow(cand[i].box)
             /\ Overlap(cand[k].box, cand[i].box) =>
                   ~Narrow(cand[k].box) /\ Overlap(Seen(image, scene[k].box), Seen(image, scene[i].box))
  <2>1. head \in Heads /\ image \in Images /\ scene \in Scenes
    BY <1>1 DEF NmsInv, FromInputs
  <2>2. head.task = "detection"
    <3>1. contract = DetectForTask(head)
      BY <1>1 DEF NmsInv, AsDetected
    <3>2. FindsBoxes(head)
      BY <1>1, <3>1 DEF FindsBoxes
    <3> QED BY <1>4, <2>1, <3>1, <3>2, HeadOf
  <2>3. cand[i].box = Placed(image, scene[i]) /\ cand[k].box = Placed(image, scene[k])
    BY <1>2, <1>4 DEF BoxFor, Placed
  <2>4. i \in DOMAIN scene /\ k \in DOMAIN scene
    BY <1>2
  <2>5. Inside(image, scene[i]) /\ Inside(image, scene[k])
    BY <1>1, <2>4 DEF InPicture, Inside
  <2>6. scene[i] \in SceneObjects /\ scene[k] \in SceneObjects
    BY <2>1, <2>4 DEF SceneObjects, Range
  <2>7. /\ ~Narrow(Placed(image, scene[i]))
        /\ Overlap(Placed(image, scene[k]), Placed(image, scene[i])) =>
               /\ ~Narrow(Placed(image, scene[k]))
               /\ Overlap(Seen(image, scene[k].box), Seen(image, scene[i].box))
    BY <2>1, <2>2, <2>5, <2>6 DEF PlacesFit
  <2> QED BY <2>3, <2>7
<1>5. CASE i \in Range(kept)
  <2>1. cand[i].score >= Confidence(head, scene[i])
    BY <1>2, <1>3
  <2>2. contract.layout \in Boxed => ~Narrow(cand[i].box)
    BY <1>4
  <2> QED BY <1>5, <2>1, <2>2
<1>6. CASE i \notin Range(kept)
  <2>1. PICK k \in Range(kept) : /\ cand[k].cls = cand[i].cls
                                 /\ cand[k].score >= cand[i].score
                                 /\ Overlap(cand[k].box, cand[i].box)
    BY <1>1, <1>6 DEF NmsSound, Suppressed
  <2>2. k \in DOMAIN cand
    BY <1>1 DEF Range
  <2>3. k \in DOMAIN scene /\ scene[k].cls = scene[i].cls
    <3>1. scene[k].cls - 1 = scene[i].cls - 1
      BY <1>2, <2>1, <2>2
    <3> QED BY <1>2, <1>3, <2>2, <3>1
  <2>4. /\ Confidence(head, scene[k]) >= Confidence(head, scene[i])
        /\ cand[k].score >= Confidence(head, scene[i])
    BY <1>2, <2>1, <2>2
  <2>5. /\ Overlap(Seen(image, scene[k].box), Seen(image, scene[i].box))
        /\ contract.layout \in Boxed => ~Narrow(cand[k].box)
    <3>1. CASE contract.layout \in Boxed
      BY <1>4, <2>1, <2>2, <3>1
    <3>2. CASE contract.layout \notin Boxed
      <4>1. cand[k].box = Seen(image, scene[k].box) /\ cand[i].box = Seen(image, scene[i].box)
        BY <1>2, <2>2, <3>2 DEF BoxFor
      <4> QED BY <2>1, <3>2, <4>1
    <3> QED BY <3>1, <3>2
  <2>6. k \in Rivals(i)
    BY <2>3, <2>4, <2>5 DEF Rivals
  <2> QED BY <2>4, <2>5, <2>6
<1> QED BY <1>5, <1>6

(* Every row above the threshold is a candidate.  Once NMS is done, an       *)
(* object in sight, or a rival of it, stands in the result, or more than     *)
(* max_det others do.                                                        *)
AllCandidates == phase = "nms" =>
    \A i \in DOMAIN scene : Confidence(head, scene[i]) >= ConfThres => i \in DOMAIN cand
IsEntry(o) == {"id", "box", "score", "extra"} \subseteq DOMAIN o
Stands(i) == \E j \in Rivals(i) \union {i}, k \in DOMAIN result :
                IsEntry(result[k]) /\ IsObject(result[k], j)
Settled == phase = "predicted" /\ contract.layout \in Boxed \union Tasked =>
    \A i \in DOMAIN scene : Confidence(head, scene[i]) >= ConfThres /\ Visible(scene[i]) =>
        Stands(i) \/ Crowded(Confidence(head, scene[i]))
LostInv == TruthInv /\ table \in Tables /\ AllCandidates /\ Settled /\ NothingLost

(* The result of Finish holds every row that is returned. *)
LEMMA ReturnedStands ==
    ASSUME TruthInv, ScenesFit, Finish, NEW p \in Returned
    PROVE  \E k \in DOMAIN result' : result'[k] = Object(cand[kept[p]])
<1> DEFINE order == Ranked(Returned, Earlier)
<1>1. /\ phase = "nms" /\ result' = [k \in DOMAIN order |-> Object(cand[kept[order[k]]])]
  BY DEF Finish
<1>2. Ranking(order, Returned, Earlier)
  <2>1. Returned \subseteq DOMAIN kept /\ IsFiniteSet(Returned) /\ Orders(Earlier, Returned)
    BY <1>1, ScoresOfCand, ReturnedIsKept DEF TruthInv, NmsInv, RowsOfCand
  <2> QED BY <2>1, RankedIs
<1> HIDE DEF order
<1>3. PICK k \in DOMAIN order : order[k] = p
  BY <1>2 DEF Ranking
<1> QED BY <1>1, <1>3

(* Finish settles the result. *)
LEMMA FinishSettles ==
    ASSUME TruthInv, AllCandidates, HeadsFit, ScenesFit, PlacesFit, Finish
    PROVE  Settled'
<1>1. /\ phase = "nms" /\ rest = {} /\ kept' = kept /\ cand' = cand /\ contract' = contract
      /\ head' = head /\ image' = image /\ scene' = scene
  BY DEF Finish, inputs
<1>2. /\ NmsInv /\ InPicture /\ DOMAIN cand \subseteq DOMAIN scene
      /\ \A i \in DOMAIN cand : cand[i] = FoundFor(i)
      /\ kept \in Seq(DOMAIN cand)
      /\ \A a, b \in DOMAIN kept : kept[a] = kept[b] => a = b
  BY <1>1 DEF TruthInv, CandOfObjects, NmsInv, RowsOfCand, KeptOnce
<1> SUFFICES ASSUME NEW i \in DOMAIN scene, Confidence(head, scene[i]) >= ConfThres, Visible(scene[i])
             PROVE  Stands(i)' \/ Crowded(Confidence(head, scene[i]))
  BY <1>1 DEF Settled, Crowded
<1>3. i \in DOMAIN cand
  BY <1>1 DEF AllCandidates
<1>4. PICK m \in Range(kept) : /\ m \in Rivals(i) \union {i}
                               /\ cand[m].score >= Confidence(head, scene[i])
                               /\ contract.layout \in Boxed => ~Narrow(cand[m].box)
  BY <1>1, <1>3, RivalKept
<1>5. PICK p \in DOMAIN kept : kept[p] = m
  BY DEF Range
<1>6. m \in DOMAIN cand /\ m \in DOMAIN scene
  BY <1>2, <1>5
<1>7. CASE p \in Best
  <2>1. p \in Returned
    BY <1>4, <1>5, <1>7 DEF Returned
  <2>2. PICK k \in DOMAIN result' : result'[k] = Object(cand[m])
    BY <1>5, <2>1, ReturnedStands
  <2>3. IsObject(Object(cand[m]), m)
    BY <1>2, <1>6, ObjectIsObject
  <2>4. IsEntry(Object(cand[m]))
    BY DEF IsEntry, Object
  <2>5. IsEntry(result'[k]) /\ IsObject(result'[k], m)
    BY <2>2, <2>3, <2>4
  <2>6. IsEntry(result[k])' /\ IsObject(result[k], m)'
    BY <1>1, <2>5 DEF IsEntry, IsObject, Near, ObjectExtra
  <2>7. (Rivals(i) \union {i})' = Rivals(i) \union {i}
    BY <1>1 DEF Rivals
  <2>8. Stands(i)'
    BY <1>4, <2>6, <2>7 DEF Stands
  <2> QED BY <2>8
<1>8. CASE p \notin Best
  <2>1. Confidence(head, scene[i]) \in Int
    <3>1. head \in Heads /\ image \in Pictures /\ scene[i] \in Objects /\ i \in Nat
      BY <1>2, SceneOf
    <3> QED BY <3>1, PartsOf
  <2>2. Crowded(Confidence(head, scene[i]))
    BY <1>1, <1>2, <1>4, <1>5, <1>8, <2>1, ScoresOfCand, CutIsCrowded
  <2> QED BY <2>2
<1> QED BY <1>7, <1>8

(* predict_boxes leaves out no row that reaches the threshold. *)
LEMMA PredictSettles ==
    ASSUME TruthInv, HeadsFit, ScenesFit, PredictBoxes
    PROVE  AllCandidates' /\ Settled'
<1> DEFINE rows == Rows(head, image, scene)
           found == Decode(rows, contract)
<1>1. /\ phase = "ready" /\ contract.layout \in Boxed \union Tasked
      /\ DOMAIN cand' = DOMAIN found
      /\ phase' = (IF DOMAIN found = {} THEN "predicted" ELSE "nms")
      /\ contract' = contract /\ head' = head /\ image' = image /\ scene' = scene
  BY DEF PredictBoxes, inputs
<1>2. NmsInv
  BY DEF TruthInv
<1>3. \A i \in DOMAIN scene : DecodeRow(rows[i], contract).score >= ConfThres => i \in DOMAIN found
  BY DEF Decode, Rows, Restrict
<1>4. \A i \in DOMAIN scene : Confidence(head, scene[i]) >= ConfThres => i \in DOMAIN found
  <2> SUFFICES ASSUME NEW i \in DOMAIN scene, Confidence(head, scene[i]) >= ConfThres
               PROVE  i \in DOMAIN found
    OBVIOUS
  <2>1. DecodeRow(rows[i], contract).score = Confidence(head, scene[i])
    BY <1>1, <1>2, CandidateIsObject
  <2> QED BY <1>3, <2>1
<1> HIDE DEF found, rows
<1>5. AllCandidates'
  BY <1>1, <1>4 DEF AllCandidates
<1>6. Settled'
  BY <1>1, <1>4 DEF Settled
<1> QED BY <1>5, <1>6

(* The reply holds what the table lists of the result. *)
LEMMA FormatKeeps ==
    ASSUME Settled, table \in Tables, TablesFit, NmsInv, ScenesFit, FormatObjects
    PROVE  NothingLost'
<1>1. /\ phase = "predicted" /\ contract.layout \in Boxed \union Tasked
      /\ UNCHANGED <<inputs, contract, cand, rest, kept, result>>
      /\ head' = head /\ image' = image /\ scene' = scene /\ table' = table
  BY DEF FormatObjects, inputs
<1> SUFFICES ASSUME phase' = "answered", NEW i \in DOMAIN scene, Wanted(scene[i])
             PROVE  \/ \E j \in Rivals(i) \union {i} : Reported(j)'
                    \/ Crowded(Confidence(head, scene[i]))
  <2>1. \A i \in DOMAIN scene : Wanted(scene[i])' = Wanted(scene[i])
    BY <1>1 DEF Wanted, Exported, Confidence, Visible
  <2>2. \A i \in DOMAIN scene : (Rivals(i) \union {i})' = Rivals(i) \union {i}
    BY <1>1 DEF Rivals
  <2> QED BY <1>1, <2>1, <2>2 DEF NothingLost, Crowded
<1>2. reply' = Answers(table)
  BY <1>1 DEF FormatObjects
<1>3. /\ Confidence(head, scene[i]) >= ConfThres /\ Visible(scene[i])
      /\ Exported(table, scene[i].cls) /\ Confidence(head, scene[i]) >= table[scene[i].cls].conf
  BY DEF Wanted
<1>4. Stands(i) \/ Crowded(Confidence(head, scene[i]))
  BY <1>1, <1>3 DEF Settled
<1>5. CASE Stands(i)
  <2>1. PICK j \in Rivals(i) \union {i}, k \in DOMAIN result : IsEntry(result[k]) /\ IsObject(result[k], j)
    BY <1>5 DEF Stands
  <2>2. j \in DOMAIN scene /\ scene[j].cls = scene[i].cls
    BY <2>1 DEF Rivals
  <2>3. Confidence(head, scene[i]) \in Int /\ Confidence(head, scene[j]) \in Int
    <3>1. \A a \in DOMAIN scene : head \in Heads /\ image \in Pictures /\ scene[a] \in Objects /\ a \in Nat
      BY SceneOf
    <3> QED BY <2>2, <3>1, PartsOf
  <2>4. Confidence(head, scene[j]) >= Confidence(head, scene[i])
    BY <2>1, <2>3 DEF Rivals
  <2> DEFINE o == result[k]
             score == Confidence(head, scene[j])
             conf == table[scene[i].cls].conf
             a == [o EXCEPT !.score = Hundredths(@)]
             b == [a EXCEPT !.score = score]
  <2>5. conf \in Nat /\ conf % 10 = 0
    BY <1>3 DEF TablesFit, Exported
  <2>6. o.id = scene[i].cls /\ o.score = score
    BY <2>1, <2>2 DEF IsObject
  <2>7. score >= conf
    BY <1>3, <2>3, <2>4, <2>5
  <2>8. Hundredths(score) >= conf
    <3>1. ASSUME NEW v \in Int, NEW c \in Nat, c % 10 = 0, v >= c PROVE 10 * ((v + 5) \div 10) >= c
      <4>1. PICK q \in Nat : c = 10 * q
        BY <3>1
      <4>2. PICK d \in Int : d = (v + 5) \div 10
        BY <3>1
      <4>3. 10 * d <= v + 5 /\ v + 5 < 10 * d + 10
        BY <4>2
      <4>4. d >= q
        BY <3>1, <4>1, <4>3
      <4> QED BY <4>1, <4>2, <4>4
    <3>2. score \in Int
      BY <2>3
    <3> HIDE DEF score, conf
    <3> QED BY <2>5, <2>7, <3>1, <3>2 DEF Hundredths
  <2>9. Listed(table, o)
    BY <1>3, <2>6, <2>7, <2>8 DEF Listed, Passes
  <2>10. k \in DOMAIN reply' /\ reply'[k] = a
    <3>1. reply' = [x \in {x \in DOMAIN result : Listed(table, result[x])} |-> Answer(result[x])]
      BY <1>2 DEF Answers
    <3> QED BY <2>9, <3>1 DEF Answer
  <2>11. /\ a.score = Hundredths(score) /\ b.score = score
         /\ b.id = o.id /\ b.box = o.box /\ b.extra = o.extra
    BY <2>1, <2>6 DEF IsEntry
  <2> HIDE DEF a, b, o
  <2>12. IsObject(b, j)
    BY <2>1, <2>6, <2>11 DEF IsObject, o
  <2>13. a \in Range(reply')
    BY <2>10 DEF Range
  <2>14. /\ a.score = Hundredths(Confidence(head, scene[j]))
         /\ IsObject([a EXCEPT !.score = Confidence(head, scene[j])], j)
    BY <2>11, <2>12 DEF b
  <2>15. Reported(j)'
    BY <1>1, <2>13, <2>14 DEF Reported, IsObject, Near, ObjectExtra
  <2> QED BY <2>15
<1>6. CASE Crowded(Confidence(head, scene[i]))
  BY <1>6
<1> QED BY <1>4, <1>5, <1>6

(* At first nothing has been asked. *)
LEMMA InitLost == Init => LostInv
<1> SUFFICES ASSUME Init PROVE LostInv
  OBVIOUS
<1> QED BY InitTruth DEF Init, LostInv, AllCandidates, Settled, NothingLost

(* No step loses an object. *)
LEMMA NextLost ==
    ASSUME HeadsFit, ScenesFit, PlacesFit, TablesFit, LostInv, [Next]_vars
    PROVE  LostInv'
<1>1. TruthInv /\ TruthInv' /\ NmsInv /\ table \in Tables /\ AllCandidates /\ Settled /\ NothingLost
  BY NextTruth DEF LostInv, TruthInv
<1>2. table' \in Tables
  BY <1>1 DEF Next, Convert, Deploy, PredictBoxes, PredictMap, Suppress, Finish, FormatObjects,
              FormatClasses, FormatMap, vars, inputs
<1>3. CASE Convert \/ Deploy
  <2>1. phase' \notin {"nms", "predicted", "answered"}
    BY <1>3 DEF Convert, Deploy
  <2> QED BY <1>1, <1>2, <2>1 DEF LostInv, AllCandidates, Settled, NothingLost
<1>4. CASE PredictBoxes
  <2>1. phase' # "answered"
    BY <1>4 DEF PredictBoxes
  <2> QED BY <1>1, <1>2, <1>4, <2>1, PredictSettles DEF LostInv, NothingLost
<1>5. CASE PredictMap
  <2>1. contract'.layout \notin Boxed \union Tasked /\ phase' = "predicted"
    BY <1>5 DEF PredictMap, Boxed, Tasked
  <2> QED BY <1>1, <1>2, <2>1 DEF LostInv, AllCandidates, Settled, NothingLost
<1>6. CASE Suppress
  <2>1. phase = "nms" /\ phase' = "nms" /\ head' = head /\ scene' = scene /\ cand' = cand
    BY <1>6 DEF Suppress, inputs
  <2>2. AllCandidates'
    BY <1>1, <2>1 DEF AllCandidates
  <2> QED BY <1>1, <1>2, <2>1, <2>2 DEF LostInv, Settled, NothingLost
<1>7. CASE Finish
  <2>1. phase' = "predicted"
    BY <1>7 DEF Finish
  <2> QED BY <1>1, <1>2, <1>7, <2>1, FinishSettles DEF LostInv, AllCandidates, NothingLost
<1>8. CASE FormatObjects
  <2>1. phase' \in {"answered", "failed"}
    BY <1>8 DEF FormatObjects
  <2>2. NothingLost'
    BY <1>1, <1>8, FormatKeeps
  <2> QED BY <1>1, <1>2, <2>1, <2>2 DEF LostInv, AllCandidates, Settled
<1>9. CASE FormatClasses \/ FormatMap
  <2>1. contract'.layout \notin Boxed \union Tasked /\ phase' = "answered"
    BY <1>9 DEF FormatClasses, FormatMap, Boxed, Tasked
  <2> QED BY <1>1, <1>2, <2>1 DEF LostInv, AllCandidates, Settled, NothingLost
<1>10. CASE UNCHANGED vars
  <2>1. /\ UNCHANGED <<head, image, scene, table, phase, contract, cand, kept, result, reply>>
    BY <1>10 DEF vars, inputs
  <2>2. AllCandidates'
    BY <1>1, <2>1 DEF AllCandidates
  <2>3. Settled'
    BY <1>1, <2>1 DEF Settled, Stands, Crowded, Rivals, IsObject, Near, ObjectExtra
  <2>4. NothingLost'
    <3>1. \A i \in DOMAIN scene : Wanted(scene[i])' = Wanted(scene[i])
      BY <2>1 DEF Wanted, Exported, Confidence, Visible
    <3>2. \A i \in DOMAIN scene : (Rivals(i) \union {i})' = Rivals(i) \union {i}
      BY <2>1 DEF Rivals
    <3>3. \A j \in DOMAIN scene : Reported(j) => Reported(j)'
      BY <2>1 DEF Reported, IsObject, Near, ObjectExtra
    <3>4. \A i \in DOMAIN scene : Rivals(i) \union {i} \subseteq DOMAIN scene
      BY DEF Rivals
    <3> QED BY <1>1, <2>1, <3>1, <3>2, <3>3, <3>4 DEF NothingLost
  <2> QED BY <1>1, <1>2, <2>2, <2>3, <2>4 DEF LostInv
<1> QED BY <1>3, <1>4, <1>5, <1>6, <1>7, <1>8, <1>9, <1>10 DEF Next

(* An object the confidence table asks for is answered, or a better one of   *)
(* its class that it overlaps is, or max_det others of no lower score stood  *)
(* in its way.                                                               *)
THEOREM WantedIsAnswered ==
    ASSUME HeadsFit, ScenesFit, PlacesFit, TablesFit
    PROVE  Spec => []NothingLost
<1>1. LostInv /\ [Next]_vars => LostInv'
  BY NextLost
<1>2. LostInv => NothingLost
  BY DEF LostInv
<1> QED BY <1>1, <1>2, InitLost, PTL DEF Spec

-----------------------------------------------------------------------------
(* PlacesFit, for pictures that are not scaled. *)

(* What two boxes share along an axis: from the later start to the earlier   *)
(* end.                                                                      *)
Shared(p, q, r, s) == Max({0, Min({p, q}) - Max({r, s})})

(* It is a number, and nothing if one of the boxes has no extent. *)
LEMMA SharedIs ==
    ASSUME NEW p \in Int, NEW q \in Int, NEW r \in Int, NEW s \in Int
    PROVE  Shared(p, q, r, s) \in Int /\ (p <= r => Shared(p, q, r, s) = 0)
<1>1. PICK v \in Int : v = Min({p, q}) - Max({r, s})
  <2>1. Min({p, q}) \in Int /\ Max({r, s}) \in Int
    BY MaxOfTwo, MinOfTwo
  <2> QED BY <2>1
<1>2. Shared(p, q, r, s) = Max({0, v})
  BY <1>1 DEF Shared
<1>3. (Max({0, v}) = 0 \/ Max({0, v}) = v) /\ Max({0, v}) >= 0
  BY MaxOfTwo, MaxOfTwoBounds
<1>4. p <= r => v <= 0
  <2>1. Min({p, q}) \in Int /\ Max({r, s}) \in Int /\ Min({p, q}) <= p /\ Max({r, s}) >= r
    BY MaxOfTwo, MinOfTwo, MaxOfTwoBounds, MinOfTwoBounds
  <2> QED BY <1>1, <2>1
<1> QED BY <1>2, <1>3, <1>4

(* Nor does it ask where the boxes are. *)
LEMMA SharedMoves ==
    ASSUME NEW p \in Int, NEW q \in Int, NEW r \in Int, NEW s \in Int, NEW e \in Int,
           NEW p2 \in Int, p2 = p + e, NEW q2 \in Int, q2 = q + e,
           NEW r2 \in Int, r2 = r + e, NEW s2 \in Int, s2 = s + e
    PROVE  Shared(p2, q2, r2, s2) = Shared(p, q, r, s)
<1>1. Min({p2, q2}) = Min({p, q}) + e
  <2>1. Min({p, q}) \in {p, q} /\ Min({p, q}) <= p /\ Min({p, q}) <= q
    BY MinOfTwoBounds
  <2>2. Min({p2, q2}) \in {p2, q2} /\ Min({p2, q2}) <= p2 /\ Min({p2, q2}) <= q2
    BY MinOfTwoBounds
  <2> QED BY <2>1, <2>2
<1>4. Max({r2, s2}) = Max({r, s}) + e
  <2>1. (Max({r, s}) = r \/ Max({r, s}) = s) /\ Max({r, s}) >= r /\ Max({r, s}) >= s
    BY MaxOfTwo, MaxOfTwoBounds
  <2>2. (Max({r2, s2}) = r2 \/ Max({r2, s2}) = s2) /\ Max({r2, s2}) >= r2 /\ Max({r2, s2}) >= s2
    BY MaxOfTwo, MaxOfTwoBounds
  <2> QED BY <2>1, <2>2
<1>2. Min({p, q}) \in Int /\ Max({r, s}) \in Int
  BY MaxOfTwo, MinOfTwo
<1>3. Min({p2, q2}) - Max({r2, s2}) = Min({p, q}) - Max({r, s})
  BY <1>1, <1>2, <1>4
<1> QED BY <1>3 DEF Shared

(* Two boxes share a rectangle. *)
LEMMA InterIs ==
    ASSUME NEW a, NEW b
    PROVE  Inter(a, b) = Shared(a[3], b[3], a[1], b[1]) * Shared(a[4], b[4], a[2], b[2])
BY DEF Inter, Shared

(* Overlap is a matter of where boxes stand to one another: c and d are a and *)
(* b moved by x to the right and y down.                                      *)
LEMMA OverlapMoves ==
    ASSUME NEW a, NEW b, NEW c, NEW d, IsBox(a), IsBox(b), IsBox(c), IsBox(d),
           NEW x \in Int, NEW y \in Int,
           c[1] = a[1] + x, c[2] = a[2] + y, c[3] = a[3] + x, c[4] = a[4] + y,
           d[1] = b[1] + x, d[2] = b[2] + y, d[3] = b[3] + x, d[4] = b[4] + y
    PROVE  Overlap(c, d) <=> Overlap(a, b)
<1>1. \A i \in 1..4 : a[i] \in Int /\ b[i] \in Int /\ c[i] \in Int /\ d[i] \in Int
  BY DEF IsBox
<1>2. Area(c) = Area(a)
  <2>1. c[3] - c[1] = a[3] - a[1] /\ c[4] - c[2] = a[4] - a[2]
    BY <1>1
  <2> QED BY <2>1 DEF Area
<1>3. Area(d) = Area(b)
  <2>1. d[3] - d[1] = b[3] - b[1] /\ d[4] - d[2] = b[4] - b[2]
    BY <1>1
  <2> QED BY <2>1 DEF Area
<1>4. Inter(c, d) = Inter(a, b)
  <2>1. Shared(c[3], d[3], c[1], d[1]) = Shared(a[3], b[3], a[1], b[1])
    BY <1>1, SharedMoves
  <2>2. Shared(c[4], d[4], c[2], d[2]) = Shared(a[4], b[4], a[2], b[2])
    BY <1>1, SharedMoves
  <2> QED BY <2>1, <2>2, InterIs
<1> QED BY <1>2, <1>3, <1>4 DEF Overlap

(* A box without width or height overlaps none. *)
LEMMA NoneOverlapsFlat ==
    ASSUME NEW a, NEW b, IsBox(a), IsBox(b), a[3] <= a[1] \/ a[4] <= a[2]
    PROVE  ~Overlap(a, b)
<1>1. \A i \in 1..4 : a[i] \in Int /\ b[i] \in Int
  BY DEF IsBox
<1>2. Inter(a, b) = 0
  <2>1. ASSUME NEW k \in {1, 2}, NEW l \in 1..4, l = k + 2
        PROVE  /\ Shared(a[l], b[l], a[k], b[k]) \in Int
               /\ a[l] <= a[k] => Shared(a[l], b[l], a[k], b[k]) = 0
    <3>1. PICK p \in Int, q \in Int, r \in Int, t \in Int : p = a[l] /\ q = b[l] /\ r = a[k] /\ t = b[k]
      BY <1>1
    <3>2. Shared(p, q, r, t) \in Int /\ (p <= r => Shared(p, q, r, t) = 0)
      BY SharedIs
    <3> QED BY <3>1, <3>2
  <2>2. PICK v, w : v = Shared(a[3], b[3], a[1], b[1]) /\ w = Shared(a[4], b[4], a[2], b[2])
    OBVIOUS
  <2>5. v \in Int /\ w \in Int /\ (v = 0 \/ w = 0)
    <3>1. 1 \in {1, 2} /\ 2 \in {1, 2} /\ 3 \in 1..4 /\ 4 \in 1..4 /\ 3 = 1 + 2 /\ 4 = 2 + 2
      OBVIOUS
    <3> QED BY <2>1, <2>2, <3>1
  <2>3. Inter(a, b) = v * w
    BY <2>2, InterIs
  <2>4. v * w = 0
    BY <2>5
  <2> QED BY <2>3, <2>4
<1>3. PICK u \in Int : u = Area(a) + Area(b)
  <2>1. Area(a) \in Int /\ Area(b) \in Int
    BY AreaIs
  <2> QED BY <2>1
<1>4. IouThres \in Int /\ IouThres >= 0
  BY DetectionAssumption
<1>5. u > 0 => IouThres * u >= 0
  BY <1>4
<1>6. ASSUME NEW inter, inter = 0
      PROVE  ~(Area(a) + Area(b) - inter > 0 /\ 100 * inter > IouThres * (Area(a) + Area(b) - inter))
  <2>1. Area(a) + Area(b) - inter = u /\ 100 * inter = 0
    <3>1. Area(a) \in Int /\ Area(b) \in Int
      BY AreaIs
    <3> QED BY <1>3, <1>6, <3>1
  <2>2. IouThres * u \in Int
    BY <1>4
  <2>3. ~(u > 0 /\ 0 > IouThres * u)
    BY <1>5, <2>2
  <2> QED BY <2>1, <2>3
<1> QED BY <1>2, <1>6 DEF Overlap

(* What is divided evenly is not rounded. *)
LEMMA NearestOfMultiple ==
    ASSUME NEW k \in Int, NEW b \in Nat \ {0}
    PROVE  Nearest(k * b, b) = k /\ Nearest(b * k, b) = k
<1>1. k * b = b * k /\ b * k \in Int
  OBVIOUS
<1>2. PICK n : n = Nearest(b * k, b)
  OBVIOUS
<1>3. n \in Int /\ 2 * (b * n) - 2 * (b * k) <= b /\ 2 * (b * k) - 2 * (b * n) <= b
  BY <1>1, <1>2, NearestIs
<1>4. b * (2 * (n - k)) <= b * 1 /\ b * (2 * (k - n)) <= b * 1
  <2>1. b * (2 * (n - k)) = 2 * (b * n) - 2 * (b * k) /\ b * (2 * (k - n)) = 2 * (b * k) - 2 * (b * n)
    BY <1>3
  <2>2. b * 1 = b
    OBVIOUS
  <2> QED BY <1>3, <2>1, <2>2
<1>5. 2 * (n - k) <= 1 /\ 2 * (k - n) <= 1
  <2>1. 2 * (n - k) \in Int /\ 2 * (k - n) \in Int /\ 1 \in Int
    BY <1>3
  <2>2. \A x \in Int : b * x <= b * 1 => x <= 1
    BY Cancelled
  <2> QED BY <1>4, <2>1, <2>2
<1>6. n = k
  BY <1>3, <1>5
<1> QED BY <1>1, <1>2, <1>6

(* A picture the network's input has room for is only framed; with as much   *)
(* on either side, the way there and back leaves a box where it was.         *)
Framed(img) == /\ Side(img) = Net
               /\ (Net - img.w) % 2 = 0 /\ (Net - img.h) % 2 = 0

(* A box is seen where it is, and comes back. *)
LEMMA FramedBoxes ==
    ASSUME NEW img \in Pictures, Framed(img), NEW o \in Objects,
           \A i \in 1..4 : o.box[i] <= Extent(img, i)
    PROVE  \A i \in 1..4 : /\ Seen(img, o.box)[i] = 4 * o.box[i] + Margin(img)[Axis(i)]
                           /\ Placed(img, o)[i] = 4 * o.box[i]
<1>1. ASSUME NEW i \in 1..4
      PROVE  /\ Extent(img, i) \in Nat \ {0} /\ Axis(i) \in {1, 2}
             /\ Shrunk(img, i) = Extent(img, i)
             /\ Margin(img)[Axis(i)] = 2 * (Net - Extent(img, i))
             /\ Border(img)[Axis(i)] = Margin(img)[Axis(i)]
  <2>1. Extent(img, i) \in Nat \ {0} /\ Axis(i) \in {1, 2} /\ Net \in Nat \ {0}
    BY Letterboxed, DetectionAssumption DEF Axis
  <2>2. \A k \in 1..4 : Shrunk(img, k) = Extent(img, k)
    <3> SUFFICES ASSUME NEW k \in 1..4 PROVE Shrunk(img, k) = Extent(img, k)
      OBVIOUS
    <3>1. Extent(img, k) \in Int
      BY Letterboxed
    <3> QED BY <2>1, <3>1, NearestOfMultiple DEF Framed, Shrunk
  <2>3. Margin(img)[Axis(i)] = 2 * (Net - Extent(img, i))
    <3>1. Margin(img) = <<2 * (Net - Extent(img, 1)), 2 * (Net - Extent(img, 2))>>
      BY <2>2 DEF Margin
    <3> QED BY <3>1 DEF Axis, Extent
  <2>4. (Net - Extent(img, i)) % 2 = 0
    BY DEF Framed, Extent
  <2>5. Border(img)[Axis(i)] = 4 * (Margin(img)[Axis(i)] \div 4)
    BY <2>1 DEF Border
  <2>6. ASSUME NEW m \in Int, m % 2 = 0 PROVE 4 * ((2 * m) \div 4) = 2 * m
    <3>1. PICK q \in Int : m = 2 * q
      BY <2>6
    <3>2. 2 * m = 4 * q /\ (4 * q) \div 4 = q
      BY <3>1
    <3> QED BY <3>2
  <2>7. 4 * (Margin(img)[Axis(i)] \div 4) = Margin(img)[Axis(i)]
    <3>1. Net - Extent(img, i) \in Int
      BY <2>1
    <3> QED BY <2>3, <2>4, <2>6, <3>1
  <2> QED BY <2>1, <2>2, <2>3, <2>5, <2>7
<1> SUFFICES ASSUME NEW i \in 1..4
             PROVE  /\ Seen(img, o.box)[i] = 4 * o.box[i] + Margin(img)[Axis(i)]
                    /\ Placed(img, o)[i] = 4 * o.box[i]
  OBVIOUS
<1>2. PICK v \in Nat, e \in Nat \ {0}, m \in Int :
          v = o.box[i] /\ e = Extent(img, i) /\ m = Margin(img)[Axis(i)] /\ v <= e
  <2>1. o.box[i] \in Nat
    BY DEF Objects
  <2>2. Margin(img)[Axis(i)] \in Int
    BY <1>1, Letterboxed
  <2> QED BY <1>1, <2>1, <2>2
<1>3. Seen(img, o.box)[i] = 4 * v + m
  <2>1. Seen(img, o.box)[i] = 4 * Nearest(v * e, e) + m
    BY <1>1, <1>2 DEF Seen
  <2>2. Nearest(v * e, e) = v
    BY NearestOfMultiple
  <2> QED BY <2>1, <2>2
<1>4. Placed(img, o)[i] = Clip(((4 * v + m - m) * Net) \div Net, 4 * e)
  BY <1>2, <1>3 DEF Placed, Remap, Framed
<1>5. ((4 * v + m - m) * Net) \div Net = 4 * v
  <2>1. 4 * v + m - m = 4 * v /\ 4 * v \in Int
    OBVIOUS
  <2>2. ASSUME NEW x \in Int, NEW c \in Nat \ {0} PROVE (x * c) \div c = x
    <3>1. PICK d \in Int, r \in 0..(c - 1) : d = (x * c) \div c /\ x * c = c * d + r
      BY Divided
    <3>2. c * (x - d) = r
      BY <3>1
    <3>3. c * (x - d) <= c * 0 + (c - 1) /\ c * 0 <= c * (x - d)
      BY <3>1, <3>2
    <3>4. 0 <= x - d
      BY <3>1, <3>3, Cancelled
    <3>5. x - d < 1
      <4> SUFFICES ASSUME 1 <= x - d PROVE FALSE
        BY <3>1
      <4>1. c * 1 <= c * (x - d)
        BY <3>1, Scaled
      <4> QED BY <3>1, <3>2, <4>1
    <3> QED BY <3>1, <3>4, <3>5
  <2>3. Net \in Nat \ {0}
    BY DetectionAssumption
  <2> QED BY <2>1, <2>2, <2>3
<1>6. Clip(4 * v, 4 * e) = 4 * v
  BY <1>2 DEF Clip
<1> QED BY <1>2, <1>3, <1>4, <1>5, <1>6

(* Pictures that are only framed fit: hypothesis PlacesFit of                *)
(* WantedIsAnswered holds for all of them, whatever the scenes.              *)
THEOREM FramedPlacesFit ==
    ASSUME \A img \in Images : Framed(img)
    PROVE  PlacesFit
<1> SUFFICES ASSUME NEW img \in Images, NEW o \in SceneObjects, NEW q \in SceneObjects,
                    Inside(img, o), Inside(img, q), Visible(o)
             PROVE  /\ ~Narrow(Placed(img, o))
                    /\ Overlap(Placed(img, q), Placed(img, o)) =>
                          ~Narrow(Placed(img, q)) /\ Overlap(Seen(img, q.box), Seen(img, o.box))
  BY DEF PlacesFit
<1>1. img \in Pictures /\ Framed(img)
  BY InputsAssumption DEF Pictures
<1>2. o \in Objects /\ q \in Objects
  <2>1. \A sc \in Scenes : sc \in Seq(Objects)
    BY InputsAssumption DEF Objects
  <2>2. \A sc \in Scenes : Range(sc) \subseteq Objects
    BY <2>1 DEF Range
  <2> QED BY <2>2 DEF SceneObjects
<1> DEFINE a == Placed(img, o)  b == Placed(img, q)
           c == Seen(img, o.box)  d == Seen(img, q.box)
<1>3. /\ \A k \in 1..4 : c[k] = 4 * o.box[k] + Margin(img)[Axis(k)] /\ a[k] = 4 * o.box[k]
      /\ \A k \in 1..4 : d[k] = 4 * q.box[k] + Margin(img)[Axis(k)] /\ b[k] = 4 * q.box[k]
  BY <1>1, <1>2, FramedBoxes DEF Inside
<1> HIDE DEF a, b, c, d
<1>4. \A k \in 1..4 : o.box[k] \in Nat /\ q.box[k] \in Nat
  BY <1>2 DEF Objects
<1>5. PICK x \in Int, y \in Int : x = Margin(img)[1] /\ y = Margin(img)[2]
  BY <1>1, Letterboxed
<1>6. /\ IsBox(a) /\ IsBox(b) /\ IsBox(c) /\ IsBox(d)
      /\ c[1] = a[1] + x /\ c[2] = a[2] + y /\ c[3] = a[3] + x /\ c[4] = a[4] + y
      /\ d[1] = b[1] + x /\ d[2] = b[2] + y /\ d[3] = b[3] + x /\ d[4] = b[4] + y
  BY <1>3, <1>4, <1>5 DEF IsBox, Axis
<1>7. ~Narrow(a)
  <2>1. o.box[3] - o.box[1] >= 2 /\ o.box[4] - o.box[2] >= 2
    BY DEF Visible
  <2> QED BY <1>3, <1>4, <2>1 DEF Narrow
<1>8. ASSUME Overlap(b, a) PROVE ~Narrow(b) /\ Overlap(d, c)
  <2>1. Overlap(d, c)
    BY <1>6, <1>8, OverlapMoves
  <2>2. ~(b[3] <= b[1] \/ b[4] <= b[2])
    BY <1>6, <1>8, NoneOverlapsFlat
  <2>3. ~Narrow(b)
    BY <1>3, <1>4, <2>2 DEF Narrow
  <2> QED BY <2>1, <2>3
<1> QED BY <1>7, <1>8 DEF a, b, c, d
=============================================================================
