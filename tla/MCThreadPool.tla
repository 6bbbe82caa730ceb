----------------------------- MODULE MCThreadPool -----------------------------
(* Constants for model-checking ThreadPool. *)
EXTENDS ThreadPool, TLC

CONSTANTS w1, w2, p1, p2, j1, j2, j3

TwoWorkers == {w1, w2}
OneProducer == {p1}
TwoProducers == {p1, p2}
TwoJobs == {j1, j2}
ThreeJobs == {j1, j2, j3}
NoneFail == {}
OneFails == {j3}

(* Every fact checked with it treats workers, producers, and jobs alike.   *)
Symmetry == Permutations(TwoWorkers) \cup Permutations(TwoProducers)

=============================================================================
