----------------------------- MODULE MCEnqueuer -----------------------------
(* Two concurrent poller requests, one CL, two configurations.           *)
EXTENDS Enqueuer, TLC

CONSTANTS a1, a2, c1, f1, f2

\* The two requests are interchangeable.
MCSymmetry == Permutations({a1, a2})
=============================================================================
