----------------------------- MODULE MCPipeline -----------------------------
(* Pipeline on a small instance.                                            *)
EXTENDS Pipeline, TLC

CONSTANTS e1, e2

MCSignal == 1 .. 2
MCEvent == {e1, e2}
MCItem == 1 .. 3
MCLimit == {1, 2}

\* Event ids are interchangeable: no action orders them.
EventSymmetry == Permutations(MCEvent)
=============================================================================
