------------------------------- MODULE MCServer -------------------------------
(* Two connections: one session can hold impl alive past ~server while the *)
(* accept loop takes another.                                              *)
EXTENDS Server, TLC

CONSTANTS c1, c2

MCConns == {c1, c2}

MCSymmetry == Permutations(MCConns)
=============================================================================
