----------------------------- MODULE GraphPasses -----------------------------
(***************************************************************************)
(* The graph on its way to the compiler: steps 04 to 07 of the pipeline.    *)
(* The optimisation passes run one after the other, each checked and        *)
(* rolled back; the rewrite rules run as one transaction; the capability    *)
(* gate looks at what is left; the graph is ordered, saved, and patched for *)
(* X2Paddle.  Tensors hold one integer, so that every operator is a         *)
(* function of integers and a graph has a meaning that can be compared:     *)
(* Conv is w*x + b, BN is s*(x - m) + b (its variance is left out), Resize  *)
(* multiplies by its scale.  A node has one output.  The name of a tensor   *)
(* or a node is a tuple of strings, <<>> the empty name.                    *)
(***************************************************************************)
EXTENDS Integers, SequencesExt

CONSTANTS
    Graphs,         \* the exported models
    Samples,        \* values of the input on which meanings are compared
    Sizes,          \* sizes the input may be given; 0 is not known
    Levels,         \* optimization_level
    Unregistered    \* operators onnx.checker has no valid schema for: Silu, an Upsample of
                    \* an opset that has dropped it

ASSUME GraphsAssumption ==
    \A g \in Graphs : DOMAIN g = {"nodes", "inits", "outputs", "shaped", "size"}

X == <<"x">>        \* the one input

VARIABLES
    exported,       \* the graph step 03 wrote
    graph,          \* Graph.raw: nodes, inits (name -> value), outputs, the
                    \* tensors with a static shape, and the size of the input
    level,
    override,       \* the size asked for on the command line, 0 when none was
    at,             \* the pass to run next
    report,         \* [pass -> "changed", "unchanged" or "rolled_back"] so far
    analysis,       \* step 05: the operators not supported
    compiled        \* what the compiler was given: ops in order, and the graph

graphVars == <<exported, graph, level, override, at, report, analysis, compiled>>

-----------------------------------------------------------------------------
(* Graphs: who makes and who reads a tensor, and what a graph means.        *)

Node(name, op, in, out) == [name |-> name, op |-> op, in |-> in, out |-> out, mode |-> "nearest"]
Made(g) == {n.out : n \in Range(g.nodes)}
Known(g) == {X} \union DOMAIN g.inits
Uses(g, t) == {u \in (DOMAIN g.nodes) \X (1..5) :
                  u[2] \in DOMAIN g.nodes[u[1]].in /\ g.nodes[u[1]].in[u[2]] = t}
SoleReader(g, t) == g.nodes[(CHOOSE u \in Uses(g, t) : TRUE)[1]]
ReadOnce(g, t) == Cardinality(Uses(g, t)) = 1
IsOutput(g, t) == t \in Range(g.outputs)

Sigmoid(v) == (v % 3) + 1
Tanh(v) == (v % 2) + 2
Softplus(v) == v + 3

\* A Resize is given its scales, or the sizes it should produce.
Scale(n, env, size) == IF Len(n.in) = 3 THEN env[n.in[3]] ELSE env[n.in[4]] \div size

Value(n, env, size) ==
    LET a == env[n.in[1]]
        b == env[n.in[2]] IN
    CASE n.op = "Conv" -> b * a + (IF Len(n.in) = 3 /\ n.in[3] # <<>> THEN env[n.in[3]] ELSE 0)
      [] n.op = "BN" -> b * (a - env[n.in[4]]) + env[n.in[3]]
      [] n.op = "Identity" -> a
      [] n.op = "Add" -> a + b
      [] n.op = "Mul" -> a * b
      [] n.op = "Shape" -> size
      [] n.op = "Sigmoid" -> Sigmoid(a)
      [] n.op = "Tanh" -> Tanh(a)
      [] n.op = "Softplus" -> Softplus(a)
      [] n.op = "Silu" -> a * Sigmoid(a)
      [] n.op = "Mish" -> a * Tanh(Softplus(a))
      [] n.op = "Upsample" -> 2 * a
      [] n.op = "Resize" -> Scale(n, env, size) * a
      [] n.op = "NMS" -> 10 * a + b
      [] OTHER -> a                     \* an operator the back end does not know

Eval(g, x, size) ==
    FoldLeft(LAMBDA env, n : (n.out :> Value(n, env, size)) @@ env, (X :> x) @@ g.inits, g.nodes)

\* On every input, of its size or, when that is not known, of any.
Meaning(g, size) ==
    [x \in Samples |-> [i \in DOMAIN g.outputs |-> Eval(g, x, size)[g.outputs[i]]]]
SizesOf(g) == IF g.size = 0 THEN Sizes \ {0} ELSE {g.size}

\* onnx.checker: one producer for a tensor, and every input is known before it
\* is read.  Types, and whether anything makes an output, are not looked at.
Legal(g) ==
    \A i \in DOMAIN g.nodes :
        LET before == Known(g) \union {g.nodes[j].out : j \in 1..(i - 1)} IN
        /\ g.nodes[i].out \notin before
        /\ Range(g.nodes[i].in) \ {<<>>} \subseteq before

\* It also refuses operators it has no schema for, wherever they come from.
Accepted(g) == Legal(g) /\ \A n \in Range(g.nodes) : n.op \notin Unregistered

-----------------------------------------------------------------------------
(* Pass 1, shape inference: every tensor gets its static shape.             *)

InferShapes(g) == [g EXCEPT !.shaped = IF g.size = 0 THEN {} ELSE {X} \union Made(g)]

(* Pass 2, constant folding: nodes whose inputs are all constant become     *)
(* initializers, unless the node makes an output of the graph.              *)

Unary == {"Sigmoid", "Tanh"}
Binary == {"Add", "Mul"}

Foldable(n, consts, shaped) ==
    \/ n.op \in Binary \union Unary /\ Range(n.in) \subseteq DOMAIN consts
    \/ n.op = "Shape" /\ n.in[1] \in shaped

Folding(g) ==
    LET step(acc, n) ==
          IF IsOutput(g, n.out) \/ ~Foldable(n, acc.inits, g.shaped)
          THEN [acc EXCEPT !.nodes = Append(@, n)]
          ELSE [acc EXCEPT !.inits = (n.out :> Value(n, (X :> 0) @@ acc.inits, g.size)) @@ @] IN
    FoldLeft(step, [g EXCEPT !.nodes = <<>>], g.nodes)

ConstantFold(g) == IF Folding(g).nodes = g.nodes THEN g ELSE Folding(g)

(* Pass 3, Conv + BN: the normalisation goes into the weight and the bias   *)
(* of a convolution when nobody else reads its result, weight and bias.     *)
(* Readers and constants are those from before the pass.                    *)

Rewired(nodes, old, new) ==
    [i \in DOMAIN nodes |->
        [nodes[i] EXCEPT !.in = [j \in DOMAIN @ |-> IF @[j] = old THEN new ELSE @[j]]]]

BiasName(conv) ==
    IF Len(conv.in) = 3 /\ conv.in[3] # <<>> THEN conv.in[3] ELSE conv.name \o <<"bias">>

OwnConstant(g, t) == t \in DOMAIN g.inits /\ ReadOnce(g, t)

BugFusable(g, conv, bn) ==
    /\ bn.op = "BN" /\ bn.in[1] = conv.out /\ ~IsOutput(g, bn.out)
    /\ Range(Tail(bn.in)) \union {conv.in[2]} \subseteq DOMAIN g.inits

Fusable(g, conv, bn) ==
    /\ OwnConstant(g, conv.in[2])
    /\ bn.op = "BN" /\ bn.in[1] = conv.out /\ ~IsOutput(g, bn.out)
    /\ Range(Tail(bn.in)) \subseteq DOMAIN g.inits
    /\ Len(conv.in) = 3 /\ conv.in[3] # <<>> => OwnConstant(g, conv.in[3])

Fused(acc, g, conv, bn) ==
    LET s == g.inits[bn.in[2]]
        b == BiasName(conv)
        old == IF b \in DOMAIN g.inits THEN g.inits[b] ELSE 0
        at_ == SelectInSeq(acc.nodes, LAMBDA n : n.out = conv.out)
        wired == [acc.nodes EXCEPT ![at_].in = <<@[1], @[2], b>>] IN
    [acc EXCEPT
        !.inits = [t \in DOMAIN @ \union {conv.in[2], b} |->
                      IF t = conv.in[2] THEN g.inits[t] * s
                      ELSE IF t = b THEN (old - g.inits[bn.in[4]]) * s + g.inits[bn.in[3]]
                      ELSE @[t]],
        !.nodes = Rewired(SelectSeq(wired, LAMBDA n : n.out # bn.out), bn.out, conv.out)]

ConvBNFusion(g) ==
    LET step(acc, n) ==
          IF n.op = "Conv" /\ ReadOnce(g, n.out) /\ Fusable(g, n, SoleReader(g, n.out))
          THEN Fused(acc, g, n, SoleReader(g, n.out))
          ELSE acc IN
    FoldLeft(step, g, g.nodes)

(* Pass 4, simplification: identities, nodes nobody reads, and constants    *)
(* nobody reads go, until nothing changes.  (onnxsim is not installed.)     *)

Renamed(g, old, new) ==
    [g EXCEPT !.nodes = Rewired(@, old, new),
              !.outputs = [i \in DOMAIN @ |-> IF @[i] = old THEN new ELSE @[i]]]

RemoveIdentity(g) ==
    LET step(acc, n) ==
          LET now == acc.nodes[SelectInSeq(acc.nodes, LAMBDA m : m.out = n.out)]
              src == now.in[1] IN
          IF n.op # "Identity" \/ (IsOutput(acc, n.out) /\ IsOutput(acc, src)) THEN acc
          ELSE LET r == Renamed(acc, n.out, src) IN
               [r EXCEPT !.nodes = SelectSeq(@, LAMBDA m : m.out # n.out)] IN
    FoldLeft(step, g, g.nodes)

Used(g) == UNION {Range(n.in) : n \in Range(g.nodes)} \union Range(g.outputs)

RemoveDead(g) == [g EXCEPT !.nodes = SelectSeq(@, LAMBDA n : n.out \in Used(g))]

RemoveUnused(g) ==
    [g EXCEPT !.inits = [t \in DOMAIN @ \intersect Used(g) |-> @[t]]]

\* As often as there are nodes is as often as anything can change.
UntilStable(step(_), g) == FoldLeft(LAMBDA acc, n : step(acc), g, g.nodes)

Simplify(g) ==
    RemoveUnused(UntilStable(RemoveDead, UntilStable(RemoveIdentity, g)))

-----------------------------------------------------------------------------
(* The rewrite rules, by priority.  A new name must not be the name of a    *)
(* node or an initializer; other tensors are not looked at.                 *)

UniqueName(g, prefix) ==
    LET taken == {n.name : n \in Range(g.nodes)} \union DOMAIN g.inits
        free == {k \in 1..(Len(g.nodes) + 1) : Append(prefix, ToString(k)) \notin taken} IN
    IF prefix \notin taken THEN prefix
    ELSE Append(prefix, ToString(CHOOSE k \in free : \A l \in free : k <= l))

NameOr(n, default) == IF n.name = <<>> THEN <<default>> ELSE n.name

Place(g, n) == SelectInSeq(g.nodes, LAMBDA m : m.out = n.out)
Substituted(g, n, new) ==
    [g EXCEPT !.nodes = SubSeq(@, 1, Place(g, n) - 1) \o new \o SubSeq(@, Place(g, n) + 1, Len(@))]

Silu(g, n) ==
    LET base == NameOr(n, "silu")
        sig == UniqueName(g, base \o <<"sigmoid_out">>) IN
    Substituted(g, n, <<Node(UniqueName(g, base \o <<"Sigmoid">>), "Sigmoid", n.in, sig),
                        Node(UniqueName(g, base \o <<"Mul">>), "Mul", <<n.in[1], sig>>, n.out)>>)

Mish(g, n) ==
    LET base == NameOr(n, "mish")
        soft == UniqueName(g, base \o <<"softplus_out">>)
        tanh == UniqueName(g, base \o <<"tanh_out">>) IN
    Substituted(g, n, <<Node(UniqueName(g, base \o <<"Softplus">>), "Softplus", n.in, soft),
                        Node(UniqueName(g, base \o <<"Tanh">>), "Tanh", <<soft>>, tanh),
                        Node(UniqueName(g, base \o <<"Mul">>), "Mul", <<n.in[1], tanh>>, n.out)>>)

\* Only an Upsample with static scales and a mode Resize has; Resize itself is
\* looked at and left.
Resize(g, n) ==
    LET scales == UniqueName(g, NameOr(n, "upsample") \o <<"scales">>)
        name == UniqueName(g, NameOr(n, "upsample") \o <<"Resize">>)
        node == [Node(name, "Resize", <<n.in[1], <<>>, scales>>, n.out) EXCEPT !.mode = n.mode] IN
    IF n.mode \notin {"nearest", "linear"} THEN g
    ELSE [Substituted(g, n, <<node>>) EXCEPT !.inits = (scales :> 2) @@ @]

\* The one NMS of the graph and all that follows from it are cut off, when all
\* outputs follow from it; its operands become the outputs.
Downstream(g, nms) ==
    FoldLeft(LAMBDA acc, n : IF Range(n.in) \intersect acc # {} THEN acc \union {n.out} ELSE acc,
             {nms.out}, g.nodes)

Strippable(g, nms) ==
    /\ Cardinality({n \in Range(g.nodes) : n.op = "NMS"}) = 1
    /\ Range(g.outputs) \subseteq Downstream(g, nms)

NMS(g, nms) ==
    IF ~Strippable(g, nms) THEN g
    ELSE [g EXCEPT !.nodes = SelectSeq(@, LAMBDA n : n.out \notin Downstream(g, nms)),
                   !.outputs = <<nms.in[1], nms.in[2]>>]

Apply(op, g, n) ==
    CASE op = "Silu" -> Silu(g, n) [] op = "Mish" -> Mish(g, n)
      [] op = "Upsample" -> Resize(g, n) [] op = "NMS" -> NMS(g, n)

ApplyRule(g, op) ==
    FoldLeft(LAMBDA acc, n : IF n.op = op THEN Apply(op, acc, n) ELSE acc, g, g.nodes)

Rules == <<"Silu", "Mish", "Upsample", "NMS">>
Rewritten(g) == FoldLeft(ApplyRule, g, Rules)

-----------------------------------------------------------------------------
(* The capability table and its reading.                                    *)

RewriteOps == {"Silu", "Mish", "Upsample", "NMS"}
BugOperators == {"Conv", "BN", "Identity", "Add", "Mul", "Shape", "Sigmoid", "Tanh", "Resize"}

Operators == {"Conv", "BN", "Identity", "Add", "Mul", "Shape", "Sigmoid", "Tanh",
              "Softplus", "Resize"}

Modes == {"nearest", "bilinear"}

Classify(n) ==
    CASE n.op \in RewriteOps -> "rewritten"
      [] n.op \notin Operators -> "unsupported"
      [] n.op = "Resize" /\ n.mode \notin Modes -> "unsupported"
      [] OTHER -> "supported"

\* One decision for each kind of operator, that of its first node.
Decisions(g) ==
    {n \in Range(g.nodes) : n = g.nodes[SelectInSeq(g.nodes, LAMBDA m : m.op = n.op)]}

BuildReport(g) == {n.op : n \in {d \in Decisions(g) : Classify(d) = "unsupported"}}

\* Nodes in an order in which inputs come first, the rest at the end.
TopologicalOrder(g) ==
    LET take(acc, n) ==
          IF n \notin Range(acc) /\ Range(n.in) \ {<<>>} \subseteq
                Known(g) \union {m.out : m \in Range(acc)}
          THEN Append(acc, n) ELSE acc
        round(acc, i) == FoldLeft(take, acc, g.nodes)
        ready == FoldLeft(round, <<>>, g.nodes) IN
    ready \o SelectSeq(g.nodes, LAMBDA n : n \notin Range(ready))

\* What X2Paddle is given: each Resize with a constant of four numbers among
\* its inputs reads it as its scales, under a name made of its own; a constant
\* that has the name already is taken as it is.
PatchResize(g, n) ==
    LET given == SelectInSeq(Tail(n.in), LAMBDA t : t \in DOMAIN g.inits)
        scales == NameOr(n, "Resize") \o <<"scales">> IN
    IF given = 0 THEN g
    ELSE [g EXCEPT !.nodes[Place(g, n)].in = <<@[1], <<>>, scales>>,
                   !.inits = @ @@ (scales :> @[n.in[given + 1]])]

Sanitized(g) ==
    FoldLeft(LAMBDA acc, n : IF n.op = "Resize" THEN PatchResize(acc, n) ELSE acc, g, g.nodes)

\* The sizes not yet known are frozen, the one asked for put in place.
Frozen(g, size) ==
    [nodes |-> g.nodes, inits |-> g.inits, outputs |-> g.outputs, shaped |-> g.shaped,
     size |-> IF size # 0 THEN size ELSE IF g.size = 0 THEN 1 ELSE g.size]

Network(g) == [ops |-> TopologicalOrder(g), graph |-> Sanitized(g)]

-----------------------------------------------------------------------------
Passes(l) ==
    CASE l = 0 -> <<>>
      [] l = 1 -> <<"shape_inference", "graph_simplify">>
      [] OTHER -> <<"shape_inference", "constant_fold", "conv_bn_fusion", "graph_simplify">>

After(pass, l) ==
    LET all == <<"analyze">> \o Passes(l) \o <<"rewrite", "gate", "compile", "done">> IN
    all[SelectInSeq(all, LAMBDA p : p = pass) + 1]

NotCompiled == [ops |-> <<>>, graph |-> <<>>]

GraphInit ==
    /\ exported \in Graphs
    /\ graph = InferShapes(exported)
    /\ level \in Levels
    /\ override \in Sizes /\ (exported.size # 0 => override \in {0, exported.size})
    /\ at = "analyze" /\ report = <<>> /\ analysis = {} /\ compiled = NotCompiled

\* Step 05 only warns.
Analyze ==
    /\ at = "analyze"
    /\ analysis' = BuildReport(graph)
    /\ at' = After(at, level)
    /\ UNCHANGED <<exported, graph, level, override, report, compiled>>

\* A result that differs is checked and taken, or dropped as a whole.
BugTake(g) ==
    /\ report' = (at :> IF g = graph THEN "unchanged" ELSE "changed") @@ report
    /\ graph' = g
    /\ at' = After(at, level)
    /\ UNCHANGED <<exported, level, override, analysis, compiled>>

Take(g) ==
    /\ report' = (at :> IF g = graph THEN "unchanged"
                        ELSE IF Accepted(g) THEN "changed" ELSE "rolled_back") @@ report
    /\ graph' = IF Accepted(g) THEN g ELSE graph
    /\ at' = After(at, level)
    /\ UNCHANGED <<exported, level, override, analysis, compiled>>

ShapeInference == at = "shape_inference" /\ Take(InferShapes(graph))
FoldConstants == at = "constant_fold" /\ Take(ConstantFold(graph))
FuseConvBN == at = "conv_bn_fusion" /\ Take(ConvBNFusion(graph))
SimplifyGraph == at = "graph_simplify" /\ Take(Simplify(graph))
Rewrite == at = "rewrite" /\ Take(Rewritten(graph))

Gate ==
    /\ at = "gate"
    /\ at' = IF BuildReport(graph) = {} THEN "compile" ELSE "refused"
    /\ UNCHANGED <<exported, graph, level, override, report, analysis, compiled>>

Compile ==
    /\ at = "compile"
    /\ graph' = Frozen(graph, override)
    /\ compiled' = Network(graph')
    /\ at' = "done"
    /\ UNCHANGED <<exported, level, override, report, analysis>>

GraphNext ==
    \/ Analyze
    \/ ShapeInference \/ FoldConstants \/ FuseConvBN \/ SimplifyGraph
    \/ Rewrite
    \/ Gate
    \/ Compile

GraphSpec == GraphInit /\ [][GraphNext]_graphVars

-----------------------------------------------------------------------------
\* What a graph should compute: what the model does, or the operands of its NMS
\* once that has been left to the runtime, when no output goes around it.
Promised(g, model, size) ==
    LET nms == CHOOSE n \in Range(model.nodes) : n.op = "NMS" IN
    IF /\ \E n \in Range(model.nodes) : n.op = "NMS"
       /\ Range(model.outputs) \subseteq Downstream(model, nms)
       /\ \A n \in Range(g.nodes) : n.op # "NMS"
    THEN Meaning([model EXCEPT !.outputs = <<nms.in[1], nms.in[2]>>], size)
    ELSE Meaning(model, size)

SameMeaning(g, model) ==
    /\ Range(g.outputs) \subseteq Known(g) \union Made(g)
    /\ \A size \in SizesOf(g) : Meaning(g, size) = Promised(g, model, size)

\* The exception.  Fusion asks whether the normalisation makes an output, and
\* not whether the convolution does, so that an output which a fused convolution
\* makes gets the value of the normalisation.
Overwritten ==
    IF "conv_bn_fusion" \in DOMAIN report /\ report["conv_bn_fusion"] = "changed"
    THEN {t \in Range(exported.outputs) :
             \E n \in Range(exported.nodes) :
                /\ n.op = "Conv" /\ n.out = t /\ ReadOnce(exported, t)
                /\ Fusable(exported, n, SoleReader(exported, t))}
    ELSE {}

AsFused ==
    [exported EXCEPT !.outputs =
        [i \in DOMAIN @ |-> IF @[i] \in Overwritten THEN SoleReader(exported, @[i]).out ELSE @[i]]]

\* Whatever was folded, fused, simplified, rewritten, frozen or rolled back, the
\* graph still has its outputs and computes what the exported model computes,
\* at every size it can still have; but at an output that a fused convolution
\* makes it computes what the normalisation behind it does.
MeaningKept == SameMeaning(graph, AsFused)

\* The same without the exception: every output keeps its value.
OutputsSurvive == SameMeaning(graph, exported)

\* No pass or rewrite leaves a graph the checker refuses: the compiler only
\* sees legal graphs.
StaysLegal == Legal(exported) => Legal(graph)

\* The passes never turn a graph the analysis of step 05 accepted into one the
\* gate of step 07 refuses, except that a linear Upsample becomes a Resize with
\* a mode the table does not list.
NeverWorse ==
    at = "refused" /\ analysis = {} =>
        \E n \in Range(exported.nodes) : n.op = "Upsample" /\ n.mode = "linear"

\* What X2Paddle converts still computes what the model computes.
SanitizedMeaning == at = "done" => SameMeaning(compiled.graph, AsFused)

\* The gate lets a graph pass only if every node of it is supported or to be
\* rewritten.
GateIsSound == at \in {"compile", "done"} => \A n \in Range(graph.nodes) : Classify(n) # "unsupported"
=============================================================================
