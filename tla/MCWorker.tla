------------------------------ MODULE MCWorker ------------------------------
(* Small instances of Worker for TLC. *)
EXTENDS Worker, TLC

CONSTANTS w1, w2, j1, j2, j3, k1, k2

\* j1 and j2 are two variants of one patchset: both write /jobs/<cl>/<ps> k1.
MCJobKey == (j1 :> k1) @@ (j2 :> k1) @@ (j3 :> k2)

MCSymmetry == Permutations({w1, w2})
=============================================================================
