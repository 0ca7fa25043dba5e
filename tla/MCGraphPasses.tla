--------------------------- MODULE MCGraphPasses ---------------------------
EXTENDS GraphPasses

\* A piece of a model: nodes that go from tensor t (and the one before it, p)
\* to a new tensor, and the constants they need.
Piece(nodes, inits) == [nodes |-> nodes, inits |-> inits]
Named(i, s) == <<s, ToString(i)>>
One(i, op, in) == Node(Named(i, op), op, in, Named(i, "t"))

Build(kind, i, t, p) ==
    LET w == Named(i, "w")  b == Named(i, "b")  m == Named(i, "m")  u == Named(i, "u") IN
    CASE kind = "conv" -> Piece(<<One(i, "Conv", <<t, w>>)>>, w :> 2)
      [] kind = "bias" -> Piece(<<One(i, "Conv", <<t, w, b>>)>>, w :> 3 @@ b :> 1)
      [] kind = "shared" -> Piece(<<One(i, "Conv", <<t, <<"v">>>>)>>, <<"v">> :> 2)
      [] kind = "bn" -> Piece(<<One(i, "BN", <<t, w, b, m>>)>>, w :> 2 @@ b :> 3 @@ m :> 1)
      [] kind = "id" -> Piece(<<One(i, "Identity", <<t>>)>>, <<>>)
      [] kind = "skip" -> Piece(<<One(i, "Add", <<t, p>>)>>, <<>>)
      [] kind = "const" -> Piece(<<Node(Named(i, "s"), "Shape", <<t>>, m),
                                   Node(Named(i, "k"), "Mul", <<m, b>>, u),
                                   One(i, "Add", <<t, u>>)>>, b :> 3)
      [] kind = "dead" -> Piece(<<Node(Named(i, "d"), "Custom", <<t>>, u),
                                  One(i, "Sigmoid", <<t>>)>>, w :> 1)
      [] kind = "silu" -> Piece(<<One(i, "Silu", <<t>>)>>, <<>>)
      [] kind = "silu_" -> Piece(<<Node(<<>>, "Silu", <<t>>, Named(i, "t"))>>, <<>>)
      [] kind = "mish" -> Piece(<<One(i, "Mish", <<t>>)>>, <<>>)
      [] kind = "up" -> Piece(<<One(i, "Upsample", <<t>>)>>, <<>>)
      [] kind = "linear" -> Piece(<<[One(i, "Upsample", <<t>>) EXCEPT !.mode = "linear"]>>, <<>>)
      [] kind = "scales" -> Piece(<<One(i, "Resize", <<t, <<>>, w>>)>>, w :> 3)
      [] kind = "sizes" -> Piece(<<One(i, "Resize", <<t, <<>>, <<>>, w>>)>>, w :> 4)
      [] kind = "cubic" -> Piece(<<[One(i, "Resize", <<t, <<>>, w>>) EXCEPT !.mode = "cubic"]>>, w :> 2)
      [] kind = "custom" -> Piece(<<One(i, "Custom", <<t>>)>>, <<>>)
      [] kind = "nms" -> Piece(<<One(i, "NMS", <<t, p>>)>>, <<>>)

Tensor(i) == IF i <= 0 THEN X ELSE Named(i, "t")

\* The graph of a chain of pieces, whose outputs are the tensors at ends.
Chain(kinds, ends, size) ==
    LET piece == [i \in DOMAIN kinds |-> Build(kinds[i], i, Tensor(i - 1), Tensor(i - 2))] IN
    [nodes   |-> FoldLeft(LAMBDA acc, q : acc \o q.nodes, <<>>, piece),
     inits   |-> FoldLeft(LAMBDA acc, q : q.inits @@ acc, <<>>, piece),
     outputs |-> [i \in DOMAIN ends |-> Tensor(ends[i])],
     shaped  |-> {},
     size    |-> size]

Kinds == {"conv", "bias", "shared", "bn", "id", "skip", "const", "dead", "silu", "silu_",
          "mish", "up", "linear", "scales", "cubic", "custom", "nms"}

\* Every chain of one to three pieces with its last tensor as output; and, of
\* three, also with the first or the second one besides.  The size of the input
\* is known or not.
Short == UNION {[1..n -> Kinds] : n \in 1..2}
Triples == [1..3 -> Kinds]

MCGraphs ==
    {Chain(c, <<Len(c)>>, z) : c \in Short, z \in {0, 2}}
    \union {Chain(c, <<3>>, 2) : c \in Triples}
    \union {Chain(c, <<i, 3>>, 2 * (2 - i)) : c \in Triples, i \in 1..2}

\* A convolution that makes an output, and a normalisation that reads it.
FusedOutput == {Chain(<<"conv", "bn", "id">>, <<1, 3>>, 2)}

\* One Resize by sizes.
SizedGraphs == {Chain(<<"sizes">>, <<1>>, 2)}

\* Two Resizes, the second in a mode the table does not list.
TwoResizes == {Chain(<<"scales", "cubic">>, <<2>>, 2)}
=============================================================================
