----------------------------- MODULE MCServing -----------------------------
EXTENDS Serving

Usual == [mode |-> "auto", format |-> "paddle_static_graph", cards |-> 2,
          wanted |-> <<>>, workers |-> 2, bootPid |-> Booting, toolkit |-> TRUE,
          contract |-> TRUE, task |-> "detection", uploadEmpty |-> TRUE,
          logging |-> TRUE]

Single == [Usual EXCEPT !.cards = 1]

\* Every mode and format with one card and with none; two workers on two cards
\* for both keys a worker may have before its fork; and a single worker with
\* one other thing changed at a time.
MCDeployments ==
    {[Single EXCEPT !.mode = m, !.format = f, !.cards = c] :
        m \in Modes, f \in Formats, c \in {0, 1}}
    \cup {[Usual EXCEPT !.bootPid = b] : b \in {Booting, NoPid}}
    \cup {[Usual EXCEPT !.wanted = <<1>>],
          [Single EXCEPT !.format = "xpu_native", !.toolkit = FALSE],
          [Single EXCEPT !.contract = FALSE], [Single EXCEPT !.task = "boxes"],
          [Single EXCEPT !.uploadEmpty = FALSE], [Single EXCEPT !.logging = FALSE]}
=============================================================================
