--------------------------- MODULE MCDurableJobs ---------------------------
(* Jobs and actors as model values.                                        *)
EXTENDS DurableJobs, TLC

CONSTANTS w1, w2, i1, j1, j2
=============================================================================
