----------------------------- MODULE MCStartup -----------------------------
(* Small instances of Startup for TLC.                                     *)
EXTENDS Startup, TLC

CONSTANTS w1, w2, key000, key001, b1, none

TwoWorkers == {w1, w2}
TwoKids == {key000, key001}
OneBand == {b1}

Symmetry == Permutations(Workers)
=============================================================================
